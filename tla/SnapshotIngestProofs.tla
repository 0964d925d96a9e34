-------------------------- MODULE SnapshotIngestProofs --------------------------
(***************************************************************************)
(* Proofs about SnapshotIngest, for any sets of requests, tags, releases   *)
(* and files, any number of attempts and any of the modelled faults.       *)
(***************************************************************************)
EXTENDS SnapshotIngestInv, FiniteSetTheorems, WellFoundedInduction, TLAPS

(* Sets of numbered files have a first file, which is one of them.         *)
LEMMA FirstFileIsOne ==
    ASSUME NEW files \in SUBSET File, files # {}
    PROVE  FirstFile(files) \in files
<1> DEFINE numbers == {file.name : file \in files}
           less == OpToRel(<, Nat)
<1>1. numbers \subseteq Nat /\ numbers # {}
  BY OrderedData DEF File
<1>2. \A a, b \in Nat : a < b => <<a, b>> \in less
  <2> SUFFICES ASSUME NEW a \in Nat, NEW b \in Nat, a < b
               PROVE  <<a, b>> \in less
    OBVIOUS
  <2> DEFINE pair == <<a, b>>
  <2>1. pair \in Nat \X Nat /\ pair[1] < pair[2]
    OBVIOUS
  <2> HIDE DEF pair
  <2>2. pair \in less
    BY <2>1, Zenon DEF OpToRel
  <2> QED
    BY <2>2, Zenon DEF pair
<1>3. IsWellFoundedOn(less, Nat)
  BY NatLessThanWellFounded, Zenon
<1> HIDE DEF less
<1>4. PICK n \in numbers : \A m \in numbers : <<m, n>> \notin less
  BY <1>1, <1>3, WFMin, Zenon
<1>5. \A m \in numbers : n <= m
  <2> HIDE DEF numbers
  <2> SUFFICES ASSUME NEW m \in numbers, ~(n <= m)
               PROVE  FALSE
    OBVIOUS
  <2>1. m \in Nat /\ n \in Nat
    BY <1>1
  <2>2. m < n
    BY <2>1
  <2>3. <<m, n>> \in less
    BY <1>2, <2>1, <2>2, Zenon
  <2> QED
    BY <1>4, <2>3, Zenon
<1>6. PICK file \in files : file.name = n
  OBVIOUS
<1>7. \A other \in files : file.name <= other.name
  BY <1>5, <1>6
<1> QED
  BY <1>7 DEF FirstFile

(***************************************************************************)
(* Types                                                                   *)
(***************************************************************************)

(* The projection of fragments is an index.                                *)
LEMMA ProjectIndexType ==
    ASSUME NEW F \in SUBSET Fragment
    PROVE  ProjectIndex(F) \in IndexBody
<1>1. Latest(F) \subseteq LatestRecord
  BY DEF Latest, LatestRecord, CoordinatesOf, FilesAt, Fragment, File
<1> QED
  BY <1>1 DEF ProjectIndex, IndexBody

(* A request that has not begun has the type of a request.                 *)
LEMMA NewJobType == NewJob \in Job
<1>1. NoIndex.body \in IndexBody
  BY ProjectIndexType DEF NoIndex
<1> QED
  BY <1>1 DEF NewJob, Job, Phases

(* The local helpers of the actions keep the type of a request.            *)
LEMMA LocalTypes ==
    ASSUME TypeOK, NEW r \in Requests
    PROVE  /\ \A phase \in Phases : Goto(r, phase) \in Job
           /\ \A phase \in Phases : Finish(r, phase) \in Job
           /\ \A rest \in SUBSET File : Walk(r, rest) \in Job
           /\ \A next \in Job : Become(r, next) => job' \in [Requests -> Job]
<1>1. job[r] \in Job
  BY DEF TypeOK
<1>2. \A phase \in Phases : Goto(r, phase) \in Job
  BY <1>1 DEF Goto, Job
<1>3. \A phase \in Phases : Finish(r, phase) \in Job
  BY <1>1, NewJobType DEF Finish, Job
<1>4. \A rest \in SUBSET File : Walk(r, rest) \in Job
  BY <1>1 DEF Walk, Job, Phases, InProgress
<1>5. \A next \in Job : Become(r, next) => job' \in [Requests -> Job]
  BY DEF TypeOK, Become
<1> QED
  BY <1>2, <1>3, <1>4, <1>5

(* A release is recorded as a fragment.                                    *)
LEMMA FragmentOfType ==
    ASSUME NEW c \in Candidates
    PROVE  FragmentOf(c) \in Fragment
BY IngestAssumption DEF FragmentOf, Fragment, Release

(* A release is under way in every phase between reading and answering.    *)
LEMMA MergedType ==
    ASSUME NEW r \in Requests, job[r].release \in Candidates, NEW all \in SUBSET Fragment
    PROVE  Merged(r, all) \in SUBSET Fragment
BY FragmentOfType DEF Merged, Mine

(* The end of the listing keeps the type of a request.                     *)
LEMMA AfterListingType ==
    ASSUME TypeOK, NEW r \in Requests, job[r].release \in Candidates,
           NEW all \in SUBSET Fragment
    PROVE  AfterListing(r, all) \in Job
<1>1. Merged(r, all) \in SUBSET Fragment
  BY MergedType
<1>2. /\ Goto(r, "cas") \in Job
      /\ Finish(r, "rejected") \in Job
      /\ Finish(r, "reply") \in Job
  BY LocalTypes DEF Phases, InProgress, Answers
<1>3. NoIndex.body \in IndexBody
  BY ProjectIndexType DEF NoIndex
<1>4. [Goto(r, "cas") EXCEPT !.seen = NoIndex.body, !.cursor = 0, !.listed = Merged(r, all)] \in Job
  BY <1>1, <1>2, <1>3 DEF Job
<1> QED
  BY <1>2, <1>4 DEF AfterListing

(* Every step keeps the types.                                             *)
LEMMA TypeStep ==
    ASSUME TypeOK, CapturedInv, Next
    PROVE  TypeOK'
<1> USE LocalTypes
<1> DEFINE Rest == /\ StoreTypeOK' /\ releases' \subseteq Candidates
                   /\ damaged' \in BOOLEAN /\ incidents' \in Nat
<1>0. TypeOK' <=> Rest /\ job' \in [Requests -> Job]
  BY DEF TypeOK
<1>1. ASSUME NEW c \in Candidates, PublishRelease(c)
      PROVE  TypeOK'
  BY <1>1 DEF PublishRelease, TypeOK, StoreTypeOK, storeVars
<1>2. ASSUME UNCHANGED <<storeVars, damaged, incidents, releases>>
      PROVE  Rest
  BY <1>2 DEF TypeOK, StoreTypeOK, storeVars
<1>3. ASSUME NEW r \in Requests, Start(r)
      PROVE  TypeOK'
  <2>1. \A tag \in Tags : [Goto(r, "fetch") EXCEPT !.tag = tag] \in Job
    BY DEF Job, Phases, InProgress
  <2> QED
    BY <1>0, <1>2, <1>3, <2>1 DEF Start
<1>4. ASSUME NEW r \in Requests, FetchRelease(r)
      PROVE  TypeOK'
  <2>1. \A c \in releases : [Walk(r, c.files) EXCEPT !.release = c] \in Job
    <3> SUFFICES ASSUME NEW c \in releases
                 PROVE  [Walk(r, c.files) EXCEPT !.release = c] \in Job
      OBVIOUS
    <3>1. c \in Candidates /\ c.files \in SUBSET File
      BY IngestAssumption DEF TypeOK, Release
    <3>2. Walk(r, c.files) \in Job
      BY <3>1
    <3> QED
      BY <3>1, <3>2 DEF Job
  <2>2. Finish(r, "ignored") \in Job /\ Finish(r, "rejected") \in Job
    BY DEF Phases, InProgress, Answers
  <2>3. \E next \in Job : Become(r, next)
    BY <1>4, <2>1, <2>2 DEF FetchRelease
  <2> QED
    BY <1>0, <1>2, <1>4, <2>3 DEF FetchRelease
<1>5. ASSUME NEW r \in Requests, ReadArtifact(r)
      PROVE  TypeOK'
  <2>1. job[r].todo \in SUBSET File
    BY DEF TypeOK, Job
  <2>2. /\ Finish(r, "rejected") \in Job
        /\ Goto(r, "put_artifact") \in Job
        /\ \A x : Walk(r, job[r].todo \ {x}) \in Job
    BY <2>1 DEF Phases, InProgress, Answers
  <2>3. \E next \in Job : Become(r, next)
    BY <1>5, <2>2 DEF ReadArtifact
  <2> QED
    BY <1>0, <1>2, <1>5, <2>3 DEF ReadArtifact
<1>6. ASSUME NEW r \in Requests, PutArtifact(r)
      PROVE  TypeOK'
  <2> DEFINE file == FirstFile(job[r].todo)
  <2>1. job[r].todo \in SUBSET File /\ job[r].todo # {} /\ job[r].release \in Candidates
    BY <1>6 DEF PutArtifact, TypeOK, CapturedInv, Captured, Job, In, Copying
  <2>2. file \in File
    BY <2>1, FirstFileIsOne
  <2> HIDE DEF file
  <2>3. ArtifactOf(job[r].release, file) \in Artifact
    BY <2>1, <2>2, IngestAssumption DEF ArtifactOf, Artifact, Release, File
  <2>4. artifacts' \subseteq Artifact
    BY <1>6, <2>3 DEF PutArtifact, CreateOnly, TypeOK, StoreTypeOK, file
  <2>5. Finish(r, "failed") \in Job /\ Walk(r, job[r].todo \ {file}) \in Job
    BY <2>1 DEF Phases, Answers
  <2>6. \E next \in Job : Become(r, next)
    BY <1>6, <2>5 DEF PutArtifact, file
  <2> QED
    BY <1>0, <1>6, <2>4, <2>6 DEF PutArtifact, TypeOK, StoreTypeOK
<1>7. ASSUME NEW r \in Requests, ReadFragment(r)
      PROVE  TypeOK'
  <2>1. /\ Finish(r, "rejected") \in Job
        /\ Goto(r, "put_fragment") \in Job
        /\ Goto(r, "read_index") \in Job
    BY DEF Phases, InProgress, Answers
  <2>2. \E next \in Job : Become(r, next)
    BY <1>7, <2>1 DEF ReadFragment
  <2> QED
    BY <1>0, <1>2, <1>7, <2>2 DEF ReadFragment
<1>8. ASSUME NEW r \in Requests, PutFragment(r)
      PROVE  TypeOK'
  <2>1. job[r].release \in Candidates
    BY <1>8 DEF PutFragment, CapturedInv, Captured, In, Copied
  <2>2. fragments' \subseteq Fragment
    BY <1>8, <2>1, FragmentOfType DEF PutFragment, CreateOnly, Mine, TypeOK, StoreTypeOK
  <2>3. Goto(r, "read_index") \in Job /\ Finish(r, "failed") \in Job
    BY DEF Phases, InProgress, Answers
  <2>4. \E next \in Job : Become(r, next)
    BY <1>8, <2>3 DEF PutFragment
  <2> QED
    BY <1>0, <1>8, <2>2, <2>4 DEF PutFragment, TypeOK, StoreTypeOK
<1>9. ASSUME NEW r \in Requests, ReadIndex(r)
      PROVE  TypeOK'
  <2>1. job[r] \in Job /\ index.body \in IndexBody
    BY DEF TypeOK, StoreTypeOK
  <2>2. \E next \in Job : Become(r, next)
    BY <1>9, <2>1 DEF ReadIndex, Job, Phases, InProgress
  <2> QED
    BY <1>0, <1>2, <1>9, <2>2 DEF ReadIndex
<1>10. ASSUME NEW r \in Requests, ReadEtag(r)
       PROVE  TypeOK'
  <2>1. /\ Finish(r, "failed") \in Job /\ Finish(r, "rejected") \in Job
        /\ Goto(r, "list") \in Job /\ index.etag \in Nat
    BY DEF Phases, InProgress, Answers, TypeOK, StoreTypeOK
  <2>2. [Goto(r, "list") EXCEPT !.etag = index.etag] \in Job
    BY <2>1 DEF Job
  <2>3. \E next \in Job : Become(r, next)
    BY <1>10, <2>1, <2>2 DEF ReadEtag
  <2> QED
    BY <1>0, <1>2, <1>10, <2>3 DEF ReadEtag
<1>11. ASSUME NEW r \in Requests, ListFragments(r)
       PROVE  TypeOK'
  <2>1. job[r] \in Job /\ fragments \in SUBSET Fragment /\ job[r].release \in Candidates
    BY <1>11 DEF TypeOK, StoreTypeOK, ListFragments, CapturedInv, Captured, In, Recorded
  <2>2. PICK end \in PageEnds(job[r].cursor) : ListFragments(r)!2!(end)
    BY <1>11 DEF ListFragments
  <2>3. end \in Nat
    <3>1. job[r].cursor \in Nat /\ \A f \in fragments : f.tag \in Nat
      BY <2>1, OrderedData DEF Fragment, Job
    <3>2. {f.tag : f \in {g \in fragments : g.tag > job[r].cursor}} \subseteq Nat
      BY <3>1
    <3> QED
      BY <3>1, <3>2, Zenon DEF PageEnds
  <2> DEFINE all == job[r].listed \cup Page(job[r].cursor, end)
  <2>4. all \in SUBSET Fragment
    BY <2>1 DEF Page, Job
  <2> HIDE DEF all
  <2>5. [job[r] EXCEPT !.cursor = end, !.listed = all] \in Job
    BY <2>1, <2>3, <2>4 DEF Job
  <2>6. AfterListing(r, all) \in Job
    BY <2>1, <2>4, AfterListingType
  <2>7. \E next \in Job : Become(r, next)
    BY <2>2, <2>5, <2>6 DEF all
  <2> QED
    BY <1>0, <1>2, <1>11, <2>7 DEF ListFragments
<1>12. ASSUME NEW r \in Requests, PutIndex(r)
       PROVE  TypeOK'
  <2>1. job[r] \in Job
    BY DEF TypeOK
  <2>2. job[r].listed \in SUBSET Fragment /\ job[r].tries + 1 \in Nat
    BY <2>1 DEF Job
  <2>3. /\ Finish(r, "reply") \in Job /\ Finish(r, "exhausted") \in Job
        /\ Goto(r, "read_index") \in Job
    BY DEF Phases, InProgress, Answers
  <2>4. NextRound(r, job[r].tries + 1) \in Job
    BY <2>2, <2>3 DEF NextRound, Job
  <2>5. \E next \in Job : Become(r, next)
    BY <1>12, <2>3, <2>4 DEF PutIndex
  <2>6. StoreTypeOK'
    BY <1>12, <2>2, ProjectIndexType DEF PutIndex, WriteIndex, TypeOK, StoreTypeOK, storeVars
  <2>7. damaged' \in BOOLEAN
    BY <1>12 DEF PutIndex, TypeOK
  <2> QED
    BY <1>0, <1>12, <2>5, <2>6, <2>7 DEF PutIndex, TypeOK
<1>13. ASSUME NEW r \in Requests, Reply(r) \/ Abort(r)
       PROVE  TypeOK'
  <2>1. Finish(r, "ok") \in Job /\ Finish(r, "failed") \in Job
    BY DEF Phases, Answers
  <2> QED
    BY <1>0, <1>2, <1>13, <2>1 DEF Reply, Abort
<1>14. ASSUME DeleteIndex \/ CorruptIndex \/ RollBackIndex
       PROVE  TypeOK'
  <2>1. NoIndex \in [etag : Nat, body : IndexBody]
    BY ProjectIndexType DEF NoIndex
  <2>2. [index.body EXCEPT !.latest = {}] \in IndexBody
    BY DEF TypeOK, StoreTypeOK, IndexBody
  <2>3. \A kept \in SUBSET index.body.snapshots : ProjectIndex(kept) \in IndexBody
    BY ProjectIndexType DEF TypeOK, StoreTypeOK, IndexBody
  <2>4. index' \in [etag : Nat, body : IndexBody] /\ issued' \in Nat
    BY <1>14, <2>1, <2>2, <2>3 DEF DeleteIndex, CorruptIndex, RollBackIndex, TypeOK, StoreTypeOK
  <2>5. \E kind \in FaultKinds : Incident(kind)
    BY <1>14 DEF DeleteIndex, CorruptIndex, RollBackIndex, FaultKinds
  <2>6. job' = job /\ Rest
    BY <2>4, <2>5 DEF Incident, TypeOK, StoreTypeOK
  <2> QED
    BY <1>0, <2>6 DEF TypeOK
<1> QED
  BY <1>1, <1>3, <1>4, <1>5, <1>6, <1>7, <1>8, <1>9, <1>10, <1>11, <1>12, <1>13, <1>14
     DEF Next, Step

(* What the local helpers leave in a request's state.                      *)
LEMMA LocalFields ==
    ASSUME TypeOK, NEW r \in Requests
    PROVE  /\ \A phase : /\ Goto(r, phase).phase = phase
                        /\ Goto(r, phase).release = job[r].release
                        /\ Goto(r, phase).todo = job[r].todo
                        /\ Goto(r, phase).seen = job[r].seen
                        /\ Goto(r, phase).etag = job[r].etag
                        /\ Goto(r, phase).cursor = job[r].cursor
                        /\ Goto(r, phase).listed = job[r].listed
           /\ \A phase : /\ Finish(r, phase).phase = phase
                        /\ Finish(r, phase).release = job[r].release
                        /\ Finish(r, phase).etag = 0
           /\ \A rest : /\ Walk(r, rest).phase = IF rest = {} THEN "read_fragment" ELSE "read_artifact"
                       /\ Walk(r, rest).release = job[r].release
                       /\ Walk(r, rest).todo = rest
                       /\ Walk(r, rest).etag = job[r].etag
           /\ \A next : Become(r, next) =>
                 /\ job'[r] = next
                 /\ \A q \in Requests : q # r => job'[q] = job[q]
<1>1. job \in [Requests -> Job] /\ job[r] \in Job
  BY DEF TypeOK
<1>2. ASSUME NEW phase
      PROVE  /\ Goto(r, phase).phase = phase
             /\ Goto(r, phase).release = job[r].release
             /\ Goto(r, phase).todo = job[r].todo
             /\ Goto(r, phase).seen = job[r].seen
             /\ Goto(r, phase).etag = job[r].etag
             /\ Goto(r, phase).cursor = job[r].cursor
             /\ Goto(r, phase).listed = job[r].listed
  BY <1>1 DEF Goto, Job
<1>3. ASSUME NEW phase
      PROVE  /\ Finish(r, phase).phase = phase
             /\ Finish(r, phase).release = job[r].release
             /\ Finish(r, phase).etag = 0
  BY DEF Finish, NewJob
<1>4. ASSUME NEW rest
      PROVE  /\ Walk(r, rest).phase = IF rest = {} THEN "read_fragment" ELSE "read_artifact"
             /\ Walk(r, rest).release = job[r].release
             /\ Walk(r, rest).todo = rest
             /\ Walk(r, rest).etag = job[r].etag
  BY <1>1 DEF Walk, Job
<1>5. ASSUME NEW next, Become(r, next)
      PROVE  /\ job'[r] = next
             /\ \A q \in Requests : q # r => job'[q] = job[q]
  BY <1>1, <1>5 DEF Become
<1> QED
  BY <1>2, <1>3, <1>4, <1>5

(***************************************************************************)
(* What each action does to the request that takes it, field by field.     *)
(***************************************************************************)

OthersKeep(r) == \A q \in Requests : q # r => job'[q] = job[q]

(* ingest_publication begins to read the release.                          *)
LEMMA StartEffect ==
    ASSUME TypeOK, NEW r \in Requests, Start(r)
    PROVE  /\ OthersKeep(r)
           /\ job[r].phase = "idle" /\ job'[r].phase = "fetch"
           /\ job'[r].release = job[r].release /\ job'[r].etag = job[r].etag
<1>0. job[r].phase = "idle"
  BY DEF Start, In
<1>1. PICK tag : Become(r, [Goto(r, "fetch") EXCEPT !.tag = tag])
  BY DEF Start
<1> DEFINE next == [Goto(r, "fetch") EXCEPT !.tag = tag]
<1>2. next.phase = "fetch" /\ next.etag = job[r].etag /\ next.release = job[r].release
  BY DEF Goto, TypeOK, Job
<1>3. Become(r, next)
  BY <1>1
<1> HIDE DEF next
<1> QED
  BY <1>0, <1>2, <1>3, LocalFields DEF OthersKeep

(* fetch_valid_snapshot answers, or takes up the release it read.          *)
LEMMA FetchReleaseEffect ==
    ASSUME TypeOK, NEW r \in Requests, FetchRelease(r)
    PROVE  /\ OthersKeep(r)
           /\ job[r].phase = "fetch"
           /\ \/ job'[r].phase \in {"ignored", "rejected"} /\ job'[r].etag = 0
              \/ \E c \in releases :
                    /\ c.public /\ c.defect # "manifest"
                    /\ job'[r].release = c
                    /\ job'[r].todo = c.files
                    /\ job'[r].phase = IF c.files = {} THEN "read_fragment" ELSE "read_artifact"
                    /\ job'[r].etag = job[r].etag
<1>1. \/ \E phase \in {"ignored", "rejected"} : Become(r, Finish(r, phase))
      \/ \E c \in releases : /\ c.public /\ c.defect # "manifest"
                             /\ Become(r, [Walk(r, c.files) EXCEPT !.release = c])
  BY DEF FetchRelease
<1>0. job[r].phase = "fetch"
  BY DEF FetchRelease, In
<1>2. CASE \E phase \in {"ignored", "rejected"} : Become(r, Finish(r, phase))
  BY <1>2, <1>0, LocalFields DEF OthersKeep
<1>3. ASSUME NEW c \in releases, c.public, c.defect # "manifest",
             Become(r, [Walk(r, c.files) EXCEPT !.release = c])
      PROVE  /\ OthersKeep(r)
             /\ job'[r].release = c
             /\ job'[r].todo = c.files
             /\ job'[r].phase = IF c.files = {} THEN "read_fragment" ELSE "read_artifact"
             /\ job'[r].etag = job[r].etag
  <2> DEFINE next == [Walk(r, c.files) EXCEPT !.release = c]
  <2>1. /\ next.release = c
        /\ next.todo = c.files
        /\ next.phase = IF c.files = {} THEN "read_fragment" ELSE "read_artifact"
        /\ next.etag = job[r].etag
    BY DEF Walk, TypeOK, Job
  <2>2. Become(r, next)
    BY <1>3
  <2> HIDE DEF next
  <2> QED
    BY <2>1, <2>2, LocalFields DEF OthersKeep
<1> QED
  BY <1>1, <1>2, <1>3, <1>0

(* A file is left behind only when it is verified, an archive only when it *)
(* is mirrored.                                                            *)
LEMMA ReadArtifactEffect ==
    ASSUME TypeOK, NEW r \in Requests, ReadArtifact(r)
    PROVE  LET file == FirstFile(job[r].todo)
               mine == ArtifactOf(job[r].release, file)
           IN  /\ OthersKeep(r)
               /\ job[r].phase = "read_artifact"
               /\ job'[r].release = job[r].release
               /\ job'[r].etag \in {0, job[r].etag}
               /\ \/ job'[r].phase = "rejected"
                  \/ /\ job'[r].phase = "put_artifact"
                     /\ job'[r].todo = job[r].todo
                     /\ mine.sha256 = file.sha256
                  \/ /\ job'[r].todo = job[r].todo \ {file}
                     /\ job'[r].phase = IF job'[r].todo = {} THEN "read_fragment" ELSE "read_artifact"
                     /\ mine.sha256 = file.sha256
                     /\ IsPrimary(file) => mine \in artifacts
<1> DEFINE file == FirstFile(job[r].todo)
           mine == ArtifactOf(job[r].release, file)
<1>1. \/ Become(r, Finish(r, "rejected"))
      \/ mine.sha256 = file.sha256 /\ Become(r, Goto(r, "put_artifact"))
      \/ /\ mine.sha256 = file.sha256
         /\ ~IsPrimary(file) \/ ArtifactAt(mine.tag, mine.name) = {mine}
         /\ Become(r, Walk(r, job[r].todo \ {file}))
  BY DEF ReadArtifact
<1>2. ArtifactAt(mine.tag, mine.name) = {mine} => mine \in artifacts
  BY DEF ArtifactAt
<1>3. job[r].phase = "read_artifact"
  BY DEF ReadArtifact, In
<1> HIDE DEF file, mine
<1>4. CASE Become(r, Finish(r, "rejected"))
  BY <1>3, <1>4, LocalFields DEF OthersKeep
<1>5. CASE mine.sha256 = file.sha256 /\ Become(r, Goto(r, "put_artifact"))
  BY <1>3, <1>5, LocalFields DEF OthersKeep, file, mine
<1>6. CASE /\ mine.sha256 = file.sha256
           /\ ~IsPrimary(file) \/ ArtifactAt(mine.tag, mine.name) = {mine}
           /\ Become(r, Walk(r, job[r].todo \ {file}))
  BY <1>2, <1>3, <1>6, LocalFields DEF OthersKeep, file, mine
<1> QED
  BY <1>1, <1>4, <1>5, <1>6

(* put_immutable goes on only with the own content at the path.            *)
LEMMA PutArtifactEffect ==
    ASSUME TypeOK, NEW r \in Requests, PutArtifact(r)
    PROVE  LET file == FirstFile(job[r].todo)
               mine == ArtifactOf(job[r].release, file)
           IN  /\ OthersKeep(r)
               /\ job[r].phase = "put_artifact"
               /\ job'[r].release = job[r].release
               /\ job'[r].etag \in {0, job[r].etag}
               /\ artifacts \subseteq artifacts'
               /\ \/ job'[r].phase = "failed"
                  \/ /\ job'[r].todo = job[r].todo \ {file}
                     /\ job'[r].phase = IF job'[r].todo = {} THEN "read_fragment" ELSE "read_artifact"
                     /\ mine \in artifacts'
<1> DEFINE file == FirstFile(job[r].todo)
           mine == ArtifactOf(job[r].release, file)
           existing == ArtifactAt(mine.tag, mine.name)
<1>1. /\ artifacts' = CreateOnly(artifacts, existing, mine)
      /\ \/ existing \in {{}, {mine}} /\ Become(r, Walk(r, job[r].todo \ {file}))
         \/ Become(r, Finish(r, "failed"))
  BY DEF PutArtifact
<1>2. existing \in {{}, {mine}} => mine \in artifacts'
  BY <1>1 DEF CreateOnly, ArtifactAt
<1>3. artifacts \subseteq artifacts'
  BY <1>1 DEF CreateOnly
<1>4. job[r].phase = "put_artifact"
  BY DEF PutArtifact, In
<1> HIDE DEF file, mine, existing
<1>5. CASE existing \in {{}, {mine}} /\ Become(r, Walk(r, job[r].todo \ {file}))
  BY <1>2, <1>3, <1>4, <1>5, LocalFields DEF OthersKeep, file, mine
<1>6. CASE Become(r, Finish(r, "failed"))
  BY <1>3, <1>4, <1>6, LocalFields DEF OthersKeep
<1> QED
  BY <1>1, <1>5, <1>6

(* materialize goes on with the own fragment or with none.                 *)
LEMMA ReadFragmentEffect ==
    ASSUME TypeOK, NEW r \in Requests, ReadFragment(r)
    PROVE  /\ OthersKeep(r)
           /\ job[r].phase = "read_fragment"
           /\ job'[r].release = job[r].release
           /\ job'[r].etag \in {0, job[r].etag}
           /\ \/ job'[r].phase = "rejected"
              \/ job'[r].phase = "put_fragment" /\ job[r].release.defect # "fragment"
              \/ /\ job'[r].phase = "read_index"
                 /\ job[r].release.defect # "fragment"
                 /\ Mine(r) \in fragments
<1>1. \/ Become(r, Finish(r, "rejected"))
      \/ Become(r, Goto(r, "put_fragment")) /\ job[r].release.defect # "fragment"
      \/ /\ Become(r, Goto(r, "read_index"))
         /\ job[r].release.defect # "fragment"
         /\ FragmentAt(Mine(r).tag) = {Mine(r)}
  BY DEF ReadFragment
<1>2. FragmentAt(Mine(r).tag) = {Mine(r)} => Mine(r) \in fragments
  BY DEF FragmentAt
<1>3. job[r].phase = "read_fragment"
  BY DEF ReadFragment, In
<1> QED
  BY <1>1, <1>2, <1>3, LocalFields DEF OthersKeep

(* A fragment is only added where there is none for its tag.               *)
LEMMA PutFragmentEffect ==
    ASSUME TypeOK, NEW r \in Requests, PutFragment(r)
    PROVE  /\ OthersKeep(r)
           /\ job[r].phase = "put_fragment"
           /\ job'[r].release = job[r].release
           /\ job'[r].etag \in {0, job[r].etag}
           /\ fragments' \in {fragments, fragments \cup {Mine(r)}}
           /\ fragments' # fragments => FragmentAt(Mine(r).tag) = {}
           /\ \/ job'[r].phase = "failed"
              \/ job'[r].phase = "read_index" /\ Mine(r) \in fragments'
<1> DEFINE existing == FragmentAt(Mine(r).tag)
<1>1. /\ fragments' = CreateOnly(fragments, existing, Mine(r))
      /\ \/ existing \in {{}, {Mine(r)}} /\ Become(r, Goto(r, "read_index"))
         \/ Become(r, Finish(r, "failed"))
  BY DEF PutFragment
<1>2. /\ fragments' \in {fragments, fragments \cup {Mine(r)}}
      /\ fragments' # fragments => existing = {}
      /\ existing \in {{}, {Mine(r)}} => Mine(r) \in fragments'
  BY <1>1 DEF CreateOnly, FragmentAt
<1>3. job[r].phase = "put_fragment"
  BY DEF PutFragment, In
<1> QED
  BY <1>1, <1>2, <1>3, LocalFields DEF OthersKeep

(* A round starts afresh from the index of this moment.                    *)
LEMMA ReadIndexEffect ==
    ASSUME TypeOK, NEW r \in Requests, ReadIndex(r)
    PROVE  /\ OthersKeep(r)
           /\ job[r].phase = "read_index"
           /\ job'[r].release = job[r].release
           /\ job'[r].seen = index.body
           /\ job'[r].etag = 0
           /\ job'[r].cursor = 0
           /\ job'[r].listed = {}
           /\ \/ job'[r].phase = "read_etag"
              \/ job'[r].phase = "list" /\ index.etag = 0
<1> DEFINE next == [job[r] EXCEPT !.phase = IF IndexExists THEN "read_etag" ELSE "list",
                                  !.seen = index.body, !.etag = 0, !.cursor = 0, !.listed = {}]
<1>1. /\ next.release = job[r].release
      /\ next.seen = index.body
      /\ next.etag = 0 /\ next.cursor = 0 /\ next.listed = {}
      /\ next.phase = IF IndexExists THEN "read_etag" ELSE "list"
  BY DEF TypeOK, Job
<1>2. Become(r, next) /\ job[r].phase = "read_index"
  BY DEF ReadIndex, In
<1> HIDE DEF next
<1> QED
  BY <1>1, <1>2, LocalFields DEF OthersKeep, IndexExists

(* The entity tag is that of the index of this moment.                     *)
LEMMA ReadEtagEffect ==
    ASSUME TypeOK, NEW r \in Requests, ReadEtag(r)
    PROVE  /\ OthersKeep(r)
           /\ job[r].phase = "read_etag"
           /\ job'[r].release = job[r].release
           /\ \/ job'[r].phase \in {"failed", "rejected"} /\ job'[r].etag = 0
              \/ /\ job'[r].phase = "list"
                 /\ job'[r].etag = index.etag
                 /\ job'[r].seen = job[r].seen
                 /\ job'[r].cursor = job[r].cursor
                 /\ job'[r].listed = job[r].listed
<1> DEFINE next == [Goto(r, "list") EXCEPT !.etag = index.etag]
<1>1. /\ next.phase = "list" /\ next.release = job[r].release
      /\ next.etag = index.etag /\ next.seen = job[r].seen
      /\ next.cursor = job[r].cursor /\ next.listed = job[r].listed
  BY DEF Goto, TypeOK, Job
<1>2. /\ job[r].phase = "read_etag"
      /\ Become(r, next) \/ Become(r, Finish(r, "failed")) \/ Become(r, Finish(r, "rejected"))
  BY DEF ReadEtag, In
<1> HIDE DEF next
<1> QED
  BY <1>1, <1>2, LocalFields DEF OthersKeep

(* A page adds what it shows; the last one ends the listing.               *)
LEMMA ListFragmentsEffect ==
    ASSUME TypeOK, NEW r \in Requests, job[r].release \in Candidates, ListFragments(r)
    PROVE  /\ OthersKeep(r)
           /\ job[r].phase = "list"
           /\ job'[r].release = job[r].release
           /\ \E end \in Nat, all \in SUBSET Fragment :
                /\ all = job[r].listed \cup Page(job[r].cursor, end)
                /\ \/ /\ job'[r].phase = "list"
                      /\ job'[r].etag = job[r].etag
                      /\ job'[r].seen = job[r].seen
                      /\ job'[r].cursor = end
                      /\ job'[r].listed = all
                   \/ /\ ~HasMore(end)
                      /\ \/ job'[r].phase = "rejected" /\ job'[r].etag = 0
                         \/ /\ job'[r].phase = "reply"
                            /\ job'[r].etag = 0
                            /\ Mine(r) \in job[r].seen.snapshots
                         \/ /\ job'[r].phase = "cas"
                            /\ job'[r].etag = job[r].etag
                            /\ all \cup {Mine(r)} = job'[r].listed
<1>1. PICK end \in PageEnds(job[r].cursor) : ListFragments(r)!2!(end)
  BY DEF ListFragments
<1> DEFINE all == job[r].listed \cup Page(job[r].cursor, end)
           more == [job[r] EXCEPT !.cursor = end, !.listed = all]
           won == [Goto(r, "cas") EXCEPT !.seen = NoIndex.body, !.cursor = 0, !.listed = Merged(r, all)]
<1>2. job[r] \in Job /\ fragments \in SUBSET Fragment /\ job[r].phase = "list"
  BY DEF TypeOK, StoreTypeOK, ListFragments, In
<1>3. end \in Nat
  <2>1. job[r].cursor \in Nat /\ \A f \in fragments : f.tag \in Nat
    BY <1>2, OrderedData DEF Fragment, Job
  <2>2. {f.tag : f \in {g \in fragments : g.tag > job[r].cursor}} \subseteq Nat
    BY <2>1
  <2> QED
    BY <2>1, <2>2, Zenon DEF PageEnds
<1>4. all \in SUBSET Fragment
  BY <1>2 DEF Page, Job
<1>5. \/ Become(r, more)
      \/ ~HasMore(end) /\ Become(r, AfterListing(r, all))
  BY <1>1
<1>6. /\ more.phase = "list" /\ more.release = job[r].release /\ more.etag = job[r].etag
      /\ more.seen = job[r].seen /\ more.cursor = end /\ more.listed = all
  BY <1>2 DEF Job
<1>7. /\ won.phase = "cas" /\ won.release = job[r].release /\ won.etag = job[r].etag
      /\ won.listed = Merged(r, all)
  BY <1>2 DEF Goto, Job
<1> HIDE DEF all, more, won
<1>8. CASE Become(r, more)
  BY <1>2, <1>3, <1>4, <1>6, <1>8, LocalFields DEF OthersKeep, all
<1>9. CASE ~HasMore(end) /\ Become(r, AfterListing(r, all))
  <2> DEFINE next == AfterListing(r, all)
  <2>1. \/ next = Finish(r, "rejected")
        \/ next = Finish(r, "reply") /\ job[r].seen = ProjectIndex(Merged(r, all))
        \/ next = won /\ ~\E f \in all : f.tag = Mine(r).tag /\ f # Mine(r)
    BY Zenon DEF AfterListing, won
  <2>2. Mine(r) \in Merged(r, all)
    BY DEF Merged
  <2>3. job[r].seen = ProjectIndex(Merged(r, all)) => Mine(r) \in job[r].seen.snapshots
    BY <2>2 DEF ProjectIndex
  <2>4. ~(\E f \in all : f.tag = Mine(r).tag /\ f # Mine(r)) => Merged(r, all) = all \cup {Mine(r)}
    BY DEF Merged
  <2>5. Become(r, next)
    BY <1>9
  <2>6. job'[r] = next /\ OthersKeep(r)
    BY <2>5, LocalFields DEF OthersKeep
  <2> HIDE DEF next
  <2>7. /\ next.release = job[r].release
        /\ \/ next.phase = "rejected" /\ next.etag = 0
           \/ next.phase = "reply" /\ next.etag = 0 /\ Mine(r) \in job[r].seen.snapshots
           \/ next.phase = "cas" /\ next.etag = job[r].etag /\ all \cup {Mine(r)} = next.listed
    BY <1>7, <2>1, <2>3, <2>4, LocalFields
  <2>8. all = job[r].listed \cup Page(job[r].cursor, end)
    BY DEF all
  <2> QED
    BY <1>2, <1>3, <1>4, <1>9, <2>6, <2>7, <2>8
<1> QED
  BY <1>5, <1>8, <1>9

(* put_cas writes the listed fragments over the index that was read, or    *)
(* nothing.                                                                *)
LEMMA PutIndexEffect ==
    ASSUME TypeOK, NEW r \in Requests, PutIndex(r)
    PROVE  /\ OthersKeep(r)
           /\ job[r].phase = "cas"
           /\ job'[r].release = job[r].release
           /\ \/ /\ job'[r].phase = "reply" /\ job'[r].etag = 0
                 /\ index.etag = job[r].etag
                 /\ index'.etag = issued + 1 /\ issued' = issued + 1
                 /\ index'.body.snapshots = job[r].listed
                 /\ damaged' = FALSE
              \/ /\ job'[r].phase \in {"read_index", "exhausted"}
                 /\ job'[r].etag \in {0, job[r].etag}
                 /\ UNCHANGED <<index, issued, damaged>>
<1> DEFINE lost == job[r].tries + 1
           again == [Goto(r, "read_index") EXCEPT !.tries = lost]
<1>1. again.phase = "read_index" /\ again.release = job[r].release /\ again.etag = job[r].etag
  BY DEF Goto, TypeOK, Job
<1>2. NextRound(r, lost) \in {again, Finish(r, "exhausted")}
  BY DEF NextRound
<1>3. job[r].phase = "cas"
  BY DEF PutIndex, In
<1>4. CASE Unmodified(job[r].etag) /\ WriteIndex(ProjectIndex(job[r].listed)) /\ damaged' = FALSE
           /\ Become(r, Finish(r, "reply"))
  BY <1>3, <1>4, LocalFields DEF OthersKeep, Unmodified, WriteIndex, ProjectIndex
<1>5. CASE Become(r, NextRound(r, lost)) /\ UNCHANGED <<storeVars, damaged>>
  <2>1. UNCHANGED <<index, issued, damaged>>
    BY <1>5 DEF storeVars
  <2>2. \E next \in {again, Finish(r, "exhausted")} : Become(r, next)
    BY <1>2, <1>5
  <2> HIDE DEF again
  <2> QED
    BY <1>1, <1>3, <2>1, <2>2, LocalFields DEF OthersKeep
<1> QED
  BY <1>4, <1>5 DEF PutIndex

(* A request ends.                                                         *)
LEMMA EndEffect ==
    ASSUME TypeOK, NEW r \in Requests, Reply(r) \/ Abort(r)
    PROVE  /\ OthersKeep(r)
           /\ job'[r].release = job[r].release
           /\ job'[r].etag = 0
           /\ \/ job'[r].phase = "ok" /\ job[r].phase = "reply"
              \/ job'[r].phase = "failed"
BY LocalFields DEF Reply, Abort, In, OthersKeep

(***************************************************************************)
(* The parts of the invariant                                              *)
(***************************************************************************)

(* Nothing is ever removed from the immutable part of the bucket.          *)
LEMMA StoreGrows ==
    ASSUME TypeOK, Next
    PROVE  artifacts \subseteq artifacts' /\ fragments \subseteq fragments'
<1>1. ASSUME NEW r \in Requests, Step(r)
      PROVE  artifacts \subseteq artifacts' /\ fragments \subseteq fragments'
  BY <1>1 DEF Step, FetchRelease, ReadArtifact, PutArtifact, ReadFragment, PutFragment, ReadIndex,
              ReadEtag, ListFragments, PutIndex, WriteIndex, Reply, CreateOnly, storeVars
<1>2. ASSUME NEW r \in Requests, Start(r) \/ Abort(r)
      PROVE  artifacts \subseteq artifacts' /\ fragments \subseteq fragments'
  BY <1>2 DEF Start, Abort, storeVars
<1>3. ASSUME DeleteIndex \/ CorruptIndex \/ RollBackIndex
      PROVE  artifacts \subseteq artifacts' /\ fragments \subseteq fragments'
  BY <1>3 DEF DeleteIndex, CorruptIndex, RollBackIndex, Incident
<1>4. ASSUME NEW c \in Candidates, PublishRelease(c)
      PROVE  artifacts \subseteq artifacts' /\ fragments \subseteq fragments'
  BY <1>4 DEF PublishRelease, storeVars
<1> QED
  BY <1>1, <1>2, <1>3, <1>4 DEF Next

(* The steps that leave every request alone.                               *)
LEMMA OutsideSteps ==
    ASSUME DeleteIndex \/ CorruptIndex \/ RollBackIndex \/ \E c \in Candidates : PublishRelease(c)
    PROVE  job' = job /\ artifacts' = artifacts /\ fragments' = fragments
BY DEF DeleteIndex, CorruptIndex, RollBackIndex, Incident, PublishRelease, storeVars

(* Every step keeps CapturedInv.                                           *)
LEMMA CapturedStep ==
    ASSUME TypeOK, CapturedInv, Next
    PROVE  CapturedInv'
<1> USE DEF Copying, Copied, Recorded
<1>1. ASSUME NEW r \in Requests, OthersKeep(r), Captured(job'[r])
      PROVE  CapturedInv'
  BY <1>1 DEF CapturedInv, Captured, OthersKeep
<1>2. ASSUME NEW r \in Requests, Start(r)
      PROVE  CapturedInv'
  BY <1>1, <1>2, StartEffect DEF Captured, CapturedInv
<1>3. ASSUME NEW r \in Requests, FetchRelease(r)
      PROVE  CapturedInv'
  BY <1>1, <1>3, FetchReleaseEffect DEF Captured, TypeOK
<1>4. ASSUME NEW r \in Requests, ReadArtifact(r)
      PROVE  CapturedInv'
  BY <1>1, <1>4, ReadArtifactEffect DEF Captured, CapturedInv
<1>5. ASSUME NEW r \in Requests, PutArtifact(r)
      PROVE  CapturedInv'
  BY <1>1, <1>5, PutArtifactEffect DEF Captured, CapturedInv
<1>6. ASSUME NEW r \in Requests, ReadFragment(r)
      PROVE  CapturedInv'
  BY <1>1, <1>6, ReadFragmentEffect DEF Captured, CapturedInv
<1>7. ASSUME NEW r \in Requests, PutFragment(r)
      PROVE  CapturedInv'
  BY <1>1, <1>7, PutFragmentEffect DEF Captured, CapturedInv
<1>8. ASSUME NEW r \in Requests, ReadIndex(r)
      PROVE  CapturedInv'
  BY <1>1, <1>8, ReadIndexEffect DEF Captured, CapturedInv
<1>9. ASSUME NEW r \in Requests, ReadEtag(r)
      PROVE  CapturedInv'
  BY <1>1, <1>9, ReadEtagEffect DEF Captured, CapturedInv
<1>10. ASSUME NEW r \in Requests, ListFragments(r)
       PROVE  CapturedInv'
  <2>1. job[r].phase = "list" /\ Captured(job[r])
    BY <1>10 DEF ListFragments, In, CapturedInv
  <2>2. job[r].release \in Candidates /\ job[r].release.public /\ job[r].release.defect # "manifest"
    BY <2>1 DEF Captured
  <2>3. job'[r].release = job[r].release /\ OthersKeep(r)
        /\ job'[r].phase \notin Copying \cup {"idle", "fetch"}
    BY <1>10, <2>2, ListFragmentsEffect
  <2> QED
    BY <1>1, <2>2, <2>3 DEF Captured
<1>11. ASSUME NEW r \in Requests, PutIndex(r)
       PROVE  CapturedInv'
  BY <1>1, <1>11, PutIndexEffect DEF Captured, CapturedInv
<1>12. ASSUME NEW r \in Requests, Reply(r) \/ Abort(r)
       PROVE  CapturedInv'
  BY <1>1, <1>12, EndEffect DEF Captured, CapturedInv
<1>13. ASSUME job' = job
       PROVE  CapturedInv'
  BY <1>13 DEF CapturedInv, Captured
<1> QED
  BY <1>2, <1>3, <1>4, <1>5, <1>6, <1>7, <1>8, <1>9, <1>10, <1>11, <1>12, <1>13, OutsideSteps
     DEF Next, Step

(* Every step keeps CopyInv.                                               *)
LEMMA CopyStep ==
    ASSUME TypeOK, CapturedInv, CopyInv, Next
    PROVE  CopyInv'
<1> USE DEF Copying, Copied, Recorded
<1>1. artifacts \subseteq artifacts' /\ fragments \subseteq fragments'
  BY StoreGrows
<1>2. \A release, x : Delivered(release, x) => Delivered(release, x)'
  BY <1>1 DEF Delivered, ArtifactOf
<1>3. ASSUME NEW r \in Requests, OthersKeep(r), CopyOf(job[r])'
      PROVE  CopyInv'
  <2> SUFFICES ASSUME NEW q \in Requests, q # r
               PROVE  CopyOf(job[q])'
    BY <1>3 DEF CopyInv
  <2>1. job'[q] = job[q] /\ CopyOf(job[q])
    BY <1>3 DEF OthersKeep, CopyInv
  <2> QED
    BY <1>1, <1>2, <2>1 DEF CopyOf
<1>4. ASSUME job' = job
      PROVE  CopyInv'
  <2> SUFFICES ASSUME NEW q \in Requests
               PROVE  CopyOf(job[q])'
    BY DEF CopyInv
  <2>1. job'[q] = job[q] /\ CopyOf(job[q])
    BY <1>4 DEF CopyInv
  <2> QED
    BY <1>1, <1>2, <2>1 DEF CopyOf
<1>5. ASSUME NEW r \in Requests, Start(r)
      PROVE  CopyInv'
  BY <1>3, <1>5, StartEffect DEF CopyOf
<1>6. ASSUME NEW r \in Requests, FetchRelease(r)
      PROVE  CopyInv'
  <2>1. OthersKeep(r)
    BY <1>6, FetchReleaseEffect
  <2>2. CASE job'[r].phase \in {"ignored", "rejected"}
    BY <1>3, <2>1, <2>2 DEF CopyOf
  <2>3. CASE \E c \in releases : /\ job'[r].release = c /\ job'[r].todo = c.files
                                 /\ job'[r].phase = IF c.files = {} THEN "read_fragment"
                                                                    ELSE "read_artifact"
    BY <1>3, <2>1, <2>3 DEF CopyOf
  <2> QED
    BY <1>6, <2>2, <2>3, FetchReleaseEffect
<1>7. ASSUME NEW r \in Requests, ReadArtifact(r)
      PROVE  CopyInv'
  <2>1. PICK rel, todo, file : rel = job[r].release /\ todo = job[r].todo /\ file = FirstFile(todo)
    OBVIOUS
  <2>2. /\ OthersKeep(r) /\ job[r].phase = "read_artifact" /\ CopyOf(job[r])
        /\ job'[r].release = rel
    BY <1>7, <2>1, ReadArtifactEffect DEF CopyInv
  <2>3. \A x \in rel.files \ todo : Delivered(rel, x)'
    BY <1>2, <2>1, <2>2 DEF CopyOf
  <2>4. CASE job'[r].phase = "rejected"
    BY <1>3, <2>2, <2>4 DEF CopyOf
  <2>5. CASE /\ job'[r].phase = "put_artifact" /\ job'[r].todo = todo
             /\ rel.content[file.name] = file.sha256
    BY <1>3, <2>1, <2>2, <2>3, <2>5 DEF CopyOf
  <2>6. CASE /\ job'[r].todo = todo \ {file}
             /\ job'[r].phase = IF job'[r].todo = {} THEN "read_fragment" ELSE "read_artifact"
             /\ Delivered(rel, file)
    <3>1. \A x \in rel.files \ job'[r].todo : Delivered(rel, x)'
      BY <1>2, <2>3, <2>6
    <3> QED
      BY <1>3, <2>2, <2>6, <3>1 DEF CopyOf
  <2> QED
    BY <1>7, <2>1, <2>4, <2>5, <2>6, ReadArtifactEffect DEF Delivered, ArtifactOf
<1>8. ASSUME NEW r \in Requests, PutArtifact(r)
      PROVE  CopyInv'
  <2>1. PICK rel, todo, file : rel = job[r].release /\ todo = job[r].todo /\ file = FirstFile(todo)
    OBVIOUS
  <2>2. /\ OthersKeep(r) /\ job[r].phase = "put_artifact" /\ CopyOf(job[r])
        /\ job'[r].release = rel
    BY <1>8, <2>1, PutArtifactEffect DEF CopyInv
  <2>3. \A x \in rel.files \ todo : Delivered(rel, x)'
    BY <1>2, <2>1, <2>2 DEF CopyOf
  <2>4. rel.content[file.name] = file.sha256
    BY <2>1, <2>2 DEF CopyOf
  <2>5. CASE job'[r].phase = "failed"
    BY <1>3, <2>2, <2>5 DEF CopyOf
  <2>6. CASE /\ job'[r].todo = todo \ {file}
             /\ job'[r].phase = IF job'[r].todo = {} THEN "read_fragment" ELSE "read_artifact"
             /\ ArtifactOf(rel, file) \in artifacts'
    <3>1. Delivered(rel, file)'
      BY <2>4, <2>6 DEF Delivered, ArtifactOf
    <3>2. \A x \in rel.files \ job'[r].todo : Delivered(rel, x)'
      BY <2>3, <2>6, <3>1
    <3> QED
      BY <1>3, <2>2, <2>6, <3>2 DEF CopyOf
  <2> QED
    BY <1>8, <2>1, <2>5, <2>6, PutArtifactEffect
<1>9. ASSUME NEW r \in Requests, OthersKeep(r),
             job[r].phase \in Copied \cup Recorded,
             job'[r].release = job[r].release,
             \/ job'[r].phase \in {"rejected", "failed", "exhausted"}
             \/ /\ job'[r].phase \in {"put_fragment"} \cup Recorded
                /\ job[r].release.defect # "fragment"
                /\ job'[r].phase \in Recorded => FragmentOf(job[r].release) \in fragments'
      PROVE  CopyInv'
  <2>1. CopyOf(job[r]) /\ Captured(job[r])
    BY DEF CopyInv, CapturedInv
  <2>2. \A x \in job[r].release.files : Delivered(job[r].release, x)'
    BY <1>2, <1>9, <2>1 DEF CopyOf
  <2>3. job[r].release.defect # "fragment" => job[r].release.defect = "none"
    BY <1>9, <2>1, IngestAssumption DEF Captured, Release
  <2> QED
    BY <1>3, <1>9, <2>2, <2>3 DEF CopyOf
<1>10. ASSUME NEW r \in Requests, ReadFragment(r)
       PROVE  CopyInv'
  BY <1>1, <1>9, <1>10, ReadFragmentEffect DEF Mine
<1>11. ASSUME NEW r \in Requests, PutFragment(r)
       PROVE  CopyInv'
  <2>1. job[r].release.defect = "none"
    BY <1>11, PutFragmentEffect DEF CopyInv, CopyOf
  <2> QED
    BY <1>9, <1>11, <2>1, PutFragmentEffect DEF Mine
<1>12. ASSUME NEW r \in Requests, job[r].phase \in Recorded
       PROVE  job[r].release.defect = "none" /\ FragmentOf(job[r].release) \in fragments'
  BY <1>1, <1>12 DEF CopyInv, CopyOf
<1>13. ASSUME NEW r \in Requests, ReadIndex(r)
       PROVE  CopyInv'
  BY <1>9, <1>12, <1>13, ReadIndexEffect
<1>14. ASSUME NEW r \in Requests, ReadEtag(r)
       PROVE  CopyInv'
  BY <1>9, <1>12, <1>14, ReadEtagEffect
<1>15. ASSUME NEW r \in Requests, ListFragments(r)
       PROVE  CopyInv'
  <2>1. job[r].phase = "list" /\ job[r].release \in Candidates
    BY <1>15 DEF ListFragments, In, CapturedInv, Captured
  <2>2. /\ OthersKeep(r) /\ job'[r].release = job[r].release
        /\ job'[r].phase \in {"list", "rejected", "reply", "cas"}
    BY <1>15, <2>1, ListFragmentsEffect
  <2> QED
    BY <1>9, <1>12, <2>1, <2>2
<1>16. ASSUME NEW r \in Requests, PutIndex(r)
       PROVE  CopyInv'
  BY <1>9, <1>12, <1>16, PutIndexEffect
<1>17. ASSUME NEW r \in Requests, Reply(r) \/ Abort(r)
       PROVE  CopyInv'
  <2>1. CASE job'[r].phase = "ok" /\ job[r].phase = "reply"
    BY <1>9, <1>12, <1>17, <2>1, EndEffect
  <2>2. CASE job'[r].phase = "failed"
    BY <1>3, <1>17, <2>2, EndEffect DEF CopyOf
  <2> QED
    BY <1>17, <2>1, <2>2, EndEffect
<1> QED
  BY <1>4, <1>5, <1>6, <1>7, <1>8, <1>10, <1>11, <1>13, <1>14, <1>15, <1>16, <1>17, OutsideSteps
     DEF Next, Step

(* A request that has read a release never reads another one.              *)
LEMMA ReleaseKept ==
    ASSUME TypeOK, CapturedInv, Next
    PROVE  \A r \in Requests : job[r].release \in Candidates => job'[r].release = job[r].release
<1> DEFINE Kept(r) == job[r].release \in Candidates => job'[r].release = job[r].release
<1>1. ASSUME NEW r \in Requests, OthersKeep(r), Kept(r)
      PROVE  \A q \in Requests : Kept(q)
  BY <1>1 DEF OthersKeep
<1>2. \A r \in Requests : job[r].release \in Candidates => job[r].phase \notin {"idle", "fetch"}
  BY IngestAssumption DEF CapturedInv, Captured
<1>3. ASSUME NEW r \in Requests, Start(r) \/ FetchRelease(r)
      PROVE  OthersKeep(r) /\ Kept(r)
  BY <1>2, <1>3, StartEffect, FetchReleaseEffect
<1>4. ASSUME NEW r \in Requests, ReadArtifact(r) \/ PutArtifact(r)
      PROVE  OthersKeep(r) /\ Kept(r)
  BY <1>4, ReadArtifactEffect, PutArtifactEffect
<1>5. ASSUME NEW r \in Requests, ReadFragment(r) \/ PutFragment(r) \/ ReadIndex(r) \/ ReadEtag(r)
      PROVE  OthersKeep(r) /\ Kept(r)
  BY <1>5, ReadFragmentEffect, PutFragmentEffect, ReadIndexEffect, ReadEtagEffect
<1>6. ASSUME NEW r \in Requests, ListFragments(r)
      PROVE  OthersKeep(r) /\ Kept(r)
  <2>1. job[r].release \in Candidates
    BY <1>6 DEF ListFragments, In, CapturedInv, Captured, Recorded
  <2> QED
    BY <1>6, <2>1, ListFragmentsEffect
<1>7. ASSUME NEW r \in Requests, PutIndex(r) \/ Reply(r) \/ Abort(r)
      PROVE  OthersKeep(r) /\ Kept(r)
  BY <1>7, PutIndexEffect, EndEffect
<1>8. ASSUME job' = job
      PROVE  \A q \in Requests : Kept(q)
  BY <1>8
<1> HIDE DEF Kept
<1>9. \A q \in Requests : Kept(q)
  BY <1>1, <1>3, <1>4, <1>5, <1>6, <1>7, <1>8, OutsideSteps DEF Next, Step
<1> QED
  BY <1>9 DEF Kept

(* A fragment is only written when its release is mirrored as a whole.     *)
LEMMA FragmentStep ==
    ASSUME TypeOK, CapturedInv, CopyInv, FragmentInv, Next
    PROVE  FragmentInv'
<1>1. artifacts \subseteq artifacts'
  BY StoreGrows
<1>2. \A release, x : Delivered(release, x) => Delivered(release, x)'
  BY <1>1 DEF Delivered, ArtifactOf
<1>3. \A f, c : Backed(f, c) => Backed(f, c)'
  BY <1>2 DEF Backed
<1>4. ASSUME NEW f, NEW r \in Requests, NEW c, c = job[r].release, Backed(f, c)'
      PROVE  Backed(f, job[r].release)'
  <2>1. job'[r].release = c
    BY <1>4, ReleaseKept DEF Backed
  <2> QED
    BY <1>4, <2>1 DEF Backed
<1>5. ASSUME NEW f \in fragments
      PROVE  \E r \in Requests : Backed(f, job[r].release)'
  <2>1. PICK r \in Requests : Backed(f, job[r].release)
    BY DEF FragmentInv
  <2>2. PICK c : c = job[r].release
    OBVIOUS
  <2> QED
    BY <1>3, <1>4, <2>1, <2>2
<1>6. ASSUME NEW r \in Requests, PutFragment(r), NEW f, f = Mine(r)
      PROVE  Backed(f, job[r].release)'
  <2>1. job[r].phase = "put_fragment" /\ CopyOf(job[r]) /\ Captured(job[r])
    BY <1>6, PutFragmentEffect DEF CopyInv, CapturedInv
  <2>2. Backed(f, job[r].release)
    BY <1>6, <2>1 DEF Backed, Captured, CopyOf, Copied, Mine
  <2> QED
    BY <1>3, <1>4, <2>2
<1>7. ASSUME NEW f \in fragments', f \notin fragments
      PROVE  \E r \in Requests : PutFragment(r) /\ f = Mine(r)
  <2>1. PICK r \in Requests : PutFragment(r)
    BY <1>7, OutsideSteps
       DEF Next, Step, Start, FetchRelease, ReadArtifact, PutArtifact, ReadFragment, ReadIndex,
           ReadEtag, ListFragments, PutIndex, WriteIndex, Reply, Abort, storeVars
  <2>2. fragments' \in {fragments, fragments \cup {Mine(r)}}
    BY <2>1, PutFragmentEffect
  <2> QED
    BY <1>7, <2>1, <2>2
<1>8. \A f \in fragments' : \E r \in Requests : Backed(f, job[r].release)'
  BY <1>5, <1>6, <1>7
<1> QED
  BY <1>8 DEF FragmentInv

(***************************************************************************)
(* The index                                                               *)
(***************************************************************************)

(* A step of a request that is not busy with the index.                    *)
Quiet(r) ==
    \/ Start(r) \/ FetchRelease(r) \/ ReadArtifact(r) \/ PutArtifact(r)
    \/ ReadFragment(r) \/ PutFragment(r) \/ Reply(r) \/ Abort(r)

(* A quiet step leaves the index and is not about to write it.             *)
LEMMA QuietEffect ==
    ASSUME TypeOK, CapturedInv, NEW r \in Requests, Quiet(r)
    PROVE  /\ OthersKeep(r)
           /\ UNCHANGED <<index, issued, damaged>>
           /\ job'[r].etag \in {0, job[r].etag}
           /\ job'[r].phase \notin {"read_etag", "list", "cas"}
           /\ job'[r].phase \in {"reply", "ok"} =>
                 job[r].phase = "reply" /\ job'[r].release = job[r].release
<1>1. UNCHANGED <<index, issued, damaged>>
  BY DEF Quiet, Start, FetchRelease, ReadArtifact, PutArtifact, ReadFragment, PutFragment,
         Reply, Abort, storeVars
<1>2. CASE Start(r)
  BY <1>1, <1>2, StartEffect
<1>3. CASE FetchRelease(r)
  BY <1>1, <1>3, FetchReleaseEffect
<1>4. CASE ReadArtifact(r)
  BY <1>1, <1>4, ReadArtifactEffect
<1>5. CASE PutArtifact(r)
  BY <1>1, <1>5, PutArtifactEffect
<1>6. CASE ReadFragment(r)
  BY <1>1, <1>6, ReadFragmentEffect
<1>7. CASE PutFragment(r)
  BY <1>1, <1>7, PutFragmentEffect
<1>8. CASE Reply(r) \/ Abort(r)
  BY <1>1, <1>8, EndEffect
<1> QED
  BY <1>2, <1>3, <1>4, <1>5, <1>6, <1>7, <1>8 DEF Quiet

(* A write or an incident replaces the index; all other steps keep it.     *)
LEMMA IndexEffect ==
    ASSUME TypeOK, Next
    PROVE  \/ UNCHANGED <<index, issued, damaged>>
           \/ /\ index'.etag = issued + 1 /\ issued' = issued + 1
              /\ \E r \in Requests : /\ PutIndex(r)
                                     /\ index.etag = job[r].etag
                                     /\ index'.body.snapshots = job[r].listed
           \/ /\ damaged' = TRUE /\ job' = job
              /\ index'.body.snapshots \subseteq index.body.snapshots
              /\ \/ index'.etag = issued + 1 /\ issued' = issued + 1
                 \/ DeleteIndex /\ index'.etag = 0 /\ issued' = issued
<1>1. CASE \E r \in Requests : Quiet(r) \/ ReadIndex(r) \/ ReadEtag(r) \/ ListFragments(r)
  BY <1>1 DEF Quiet, Start, FetchRelease, ReadArtifact, PutArtifact, ReadFragment, PutFragment,
              Reply, Abort, ReadIndex, ReadEtag, ListFragments, storeVars
<1>2. CASE \E r \in Requests : PutIndex(r)
  BY <1>2, PutIndexEffect
<1>3. CASE \E c \in Candidates : PublishRelease(c)
  BY <1>3 DEF PublishRelease, storeVars
<1>4. CASE DeleteIndex
  BY <1>4 DEF DeleteIndex, Incident, NoIndex, ProjectIndex
<1>5. CASE CorruptIndex
  <2>1. index.body \in IndexBody
    BY DEF TypeOK, StoreTypeOK
  <2>2. [index.body EXCEPT !.latest = {}].snapshots = index.body.snapshots
    BY <2>1 DEF IndexBody
  <2> QED
    BY <1>5, <2>2 DEF CorruptIndex, Incident
<1>6. CASE RollBackIndex
  <2>1. PICK kept \in SUBSET index.body.snapshots :
              index' = [etag |-> issued + 1, body |-> ProjectIndex(kept)]
    BY <1>6 DEF RollBackIndex
  <2>2. index'.etag = issued + 1 /\ index'.body.snapshots = kept
    BY <2>1 DEF ProjectIndex
  <2>3. damaged' = TRUE /\ job' = job /\ issued' = issued + 1
    BY <1>6 DEF RollBackIndex, Incident
  <2> QED
    BY <2>2, <2>3
<1> QED
  BY <1>1, <1>2, <1>3, <1>4, <1>5, <1>6 DEF Next, Step, Quiet

(* Every step keeps EtagInv.                                               *)
LEMMA EtagStep ==
    ASSUME TypeOK, CapturedInv, EtagInv, Next
    PROVE  EtagInv'
<1>1. /\ index.etag \in Nat /\ issued \in Nat
      /\ \A r \in Requests : job[r].etag \in Nat
  BY DEF TypeOK, StoreTypeOK, Job
<1>2. issued' \in {issued, issued + 1} /\ index'.etag <= issued'
  <2>1. \/ UNCHANGED <<index, issued>>
        \/ index'.etag = issued + 1 /\ issued' = issued + 1
        \/ index'.etag = 0 /\ issued' = issued
    BY IndexEffect
  <2> QED
    BY <1>1, <2>1 DEF EtagInv
<1>3. ASSUME NEW r \in Requests, OthersKeep(r), job'[r].etag \in {0, job[r].etag, index.etag}
      PROVE  EtagInv'
  <2>1. \A q \in Requests : job'[q].etag \in {0, job[q].etag, index.etag}
    BY <1>3 DEF OthersKeep
  <2> QED
    BY <1>1, <1>2, <2>1 DEF EtagInv
<1>4. ASSUME job' = job
      PROVE  EtagInv'
  BY <1>1, <1>2, <1>4 DEF EtagInv
<1>5. ASSUME NEW r \in Requests, Quiet(r)
      PROVE  EtagInv'
  BY <1>3, <1>5, QuietEffect
<1>6. ASSUME NEW r \in Requests, ReadIndex(r) \/ ReadEtag(r) \/ PutIndex(r)
      PROVE  EtagInv'
  BY <1>3, <1>6, ReadIndexEffect, ReadEtagEffect, PutIndexEffect
<1>7. ASSUME NEW r \in Requests, ListFragments(r)
      PROVE  EtagInv'
  <2>1. job[r].release \in Candidates
    BY <1>7 DEF ListFragments, In, CapturedInv, Captured, Recorded
  <2> QED
    BY <1>3, <1>7, <2>1, ListFragmentsEffect
<1> QED
  BY <1>4, <1>5, <1>6, <1>7, OutsideSteps DEF Next, Step, Quiet

(* The members of Settled, before and after a step.                        *)
LEMMA SettledMember ==
    /\ \A f : f \in Settled <=> \/ f \in index.body.snapshots
                                \/ \E r \in Requests : f \in SeenBy(r) \/ f \in AcceptedFrom(r)
    /\ \A f : f \in Settled' <=> \/ f \in index'.body.snapshots
                                 \/ \E r \in Requests : f \in SeenBy(r)' \/ f \in AcceptedFrom(r)'
BY DEF Settled

(* A snapshot becomes settled only by being written to the index.          *)
LEMMA SettledGrows ==
    ASSUME TypeOK, CapturedInv, ListingInv, Next
    PROVE  Settled' \subseteq Settled \cup index'.body.snapshots
<1>1. ASSUME NEW r \in Requests, OthersKeep(r),
             \A f \in SeenBy(r)' \cup AcceptedFrom(r)' : f \in Settled \cup index'.body.snapshots
      PROVE  Settled' \subseteq Settled \cup index'.body.snapshots
  <2>1. \A q \in Requests : q # r => SeenBy(q)' = SeenBy(q) /\ AcceptedFrom(q)' = AcceptedFrom(q)
    BY <1>1 DEF OthersKeep, SeenBy, AcceptedFrom, Mine
  <2> QED
    BY <1>1, <2>1, SettledMember
<1>2. ASSUME job' = job
      PROVE  Settled' \subseteq Settled \cup index'.body.snapshots
  <2>1. \A q \in Requests : SeenBy(q)' = SeenBy(q) /\ AcceptedFrom(q)' = AcceptedFrom(q)
    BY <1>2 DEF SeenBy, AcceptedFrom, Mine
  <2> QED
    BY <2>1, SettledMember
<1>3. ASSUME NEW r \in Requests, Quiet(r)
      PROVE  Settled' \subseteq Settled \cup index'.body.snapshots
  <2>1. SeenBy(r)' = {} /\ AcceptedFrom(r)' \subseteq AcceptedFrom(r)
    BY <1>3, QuietEffect DEF SeenBy, AcceptedFrom, Mine
  <2> QED
    BY <1>1, <1>3, <2>1, QuietEffect, SettledMember
<1>4. ASSUME NEW r \in Requests, ReadIndex(r)
      PROVE  Settled' \subseteq Settled \cup index'.body.snapshots
  <2>1. SeenBy(r)' = index.body.snapshots /\ AcceptedFrom(r)' = {}
    BY <1>4, ReadIndexEffect DEF SeenBy, AcceptedFrom
  <2> QED
    BY <1>1, <1>4, <2>1, ReadIndexEffect, SettledMember
<1>5. ASSUME NEW r \in Requests, ReadEtag(r)
      PROVE  Settled' \subseteq Settled \cup index'.body.snapshots
  <2>1. SeenBy(r)' \subseteq SeenBy(r) /\ AcceptedFrom(r)' = {}
    BY <1>5, ReadEtagEffect DEF SeenBy, AcceptedFrom
  <2> QED
    BY <1>1, <1>5, <2>1, ReadEtagEffect, SettledMember
<1>6. ASSUME NEW r \in Requests, ListFragments(r)
      PROVE  Settled' \subseteq Settled \cup index'.body.snapshots
  <2>1. job[r].release \in Candidates
    BY <1>6 DEF ListFragments, In, CapturedInv, Captured, Recorded
  <2>2. SeenBy(r)' \subseteq SeenBy(r) /\ AcceptedFrom(r)' \subseteq SeenBy(r) /\ OthersKeep(r)
    BY <1>6, <2>1, ListFragmentsEffect DEF SeenBy, AcceptedFrom, Mine
  <2> QED
    BY <1>1, <2>2, SettledMember
<1>7. ASSUME NEW r \in Requests, PutIndex(r)
      PROVE  Settled' \subseteq Settled \cup index'.body.snapshots
  <2>1. Mine(r) \in job[r].listed
    BY <1>7, PutIndexEffect DEF ListingInv, Listing, In
  <2>2. SeenBy(r)' = {} /\ AcceptedFrom(r)' \subseteq index'.body.snapshots
    BY <1>7, <2>1, PutIndexEffect DEF SeenBy, AcceptedFrom, Mine
  <2> QED
    BY <1>1, <1>7, <2>2, PutIndexEffect
<1> QED
  BY <1>2, <1>3, <1>4, <1>5, <1>6, <1>7, OutsideSteps DEF Next, Step, Quiet

(* With the entity tag of the current index in hand, the listing catches   *)
(* every settled snapshot: whatever is settled later changes that tag.     *)
LEMMA ListingStep ==
    ASSUME TypeOK, CapturedInv, CopyInv, EtagInv, ListingInv, SettledInv, Next
    PROVE  ListingInv'
<1>1. /\ fragments \subseteq Fragment /\ fragments \subseteq fragments'
      /\ \A f \in fragments : f.tag \in Nat \ {0}
  BY StoreGrows, OrderedData DEF TypeOK, StoreTypeOK, Fragment
<1>2. /\ index.etag \in Nat /\ issued \in Nat /\ index.etag <= issued
      /\ \A r \in Requests : job[r].etag \in Nat /\ job[r].etag <= issued /\ job[r].cursor \in Nat
  BY DEF TypeOK, StoreTypeOK, EtagInv, Job
<1>3. \/ index' = index /\ Settled' \subseteq Settled
      \/ \A r \in Requests : job[r].phase \in {"list", "cas"} => job[r].etag # index'.etag
  <2>1. CASE UNCHANGED <<index, issued, damaged>>
    BY <2>1, SettledGrows, SettledMember
  <2>2. CASE index'.etag = issued + 1
    BY <1>2, <2>2
  <2>3. CASE DeleteIndex /\ index'.etag = 0
    BY <2>3 DEF DeleteIndex
  <2> QED
    BY <2>1, <2>2, <2>3, IndexEffect
<1>4. ASSUME NEW q \in Requests, job'[q] = job[q]
      PROVE  Listing(q)'
  <2>1. Listing(q)
    BY DEF ListingInv
  <2> QED
    BY <1>1, <1>3, <1>4, <2>1 DEF Listing, In, Mine
<1>5. ASSUME NEW r \in Requests, OthersKeep(r), Listing(r)'
      PROVE  ListingInv'
  BY <1>4, <1>5 DEF ListingInv, OthersKeep
<1>6. ASSUME NEW r \in Requests, Quiet(r)
      PROVE  ListingInv'
  BY <1>5, <1>6, QuietEffect DEF Listing, In
<1>7. ASSUME NEW r \in Requests, ReadIndex(r)
      PROVE  ListingInv'
  <2>1. index' = index /\ fragments' = fragments
    BY <1>7 DEF ReadIndex, storeVars
  <2>2. \A f \in Settled' : ~(f.tag <= 0)
    BY <1>1, <2>1, SettledGrows, SettledMember DEF SettledInv
  <2> QED
    BY <1>5, <1>7, <2>1, <2>2, ReadIndexEffect DEF Listing, In
<1>8. ASSUME NEW r \in Requests, ReadEtag(r)
      PROVE  ListingInv'
  <2>1. index' = index /\ fragments' = fragments
    BY <1>8 DEF ReadEtag, storeVars
  <2>2. \A f \in Settled' : ~(f.tag <= 0)
    BY <1>1, <2>1, SettledGrows, SettledMember DEF SettledInv
  <2>3. job[r].phase = "read_etag" => job[r].cursor = 0 /\ job[r].listed = {}
    BY DEF ListingInv, Listing, In
  <2> QED
    BY <1>5, <1>8, <2>1, <2>2, <2>3, ReadEtagEffect DEF Listing, In
<1>9. ASSUME NEW r \in Requests, ListFragments(r)
      PROVE  ListingInv'
  <2>1. index' = index /\ fragments' = fragments
    BY <1>9 DEF ListFragments, storeVars
  <2>2. Settled' \subseteq Settled /\ Settled \subseteq fragments
    BY <2>1, SettledGrows, SettledMember DEF SettledInv
  <2>3. job[r].release \in Candidates /\ FragmentOf(job[r].release) \in fragments
    BY <1>9 DEF ListFragments, In, CapturedInv, Captured, CopyInv, CopyOf, Recorded
  <2>4. job[r].phase = "list" /\ Listing(r) /\ OthersKeep(r) /\ job'[r].release = job[r].release
    BY <1>9, <2>3, ListFragmentsEffect DEF ListingInv
  <2>5. PICK end \in Nat, all \in SUBSET Fragment :
          /\ all = job[r].listed \cup Page(job[r].cursor, end)
          /\ \/ /\ job'[r].phase = "list" /\ job'[r].etag = job[r].etag
                /\ job'[r].cursor = end /\ job'[r].listed = all
             \/ job'[r].phase \in {"rejected", "reply"}
             \/ /\ ~HasMore(end)
                /\ job'[r].phase = "cas" /\ job'[r].etag = job[r].etag
                /\ all \cup {Mine(r)} = job'[r].listed
    BY <1>9, <2>3, ListFragmentsEffect
  <2>6. all \subseteq fragments
    BY <2>4, <2>5 DEF Listing, Page
  <2>7. job[r].etag = index.etag => \A f \in Settled : f.tag <= end => f \in all
    <3> SUFFICES ASSUME job[r].etag = index.etag, NEW f \in Settled, f.tag <= end
                 PROVE  f \in all
      OBVIOUS
    <3>1. f \in fragments /\ f.tag \in Nat /\ job[r].cursor \in Nat
      BY <1>1, <1>2, <2>2
    <3>2. CASE f.tag <= job[r].cursor
      BY <2>4, <2>5, <3>2 DEF Listing, In
    <3>3. CASE f.tag > job[r].cursor
      BY <2>5, <3>1, <3>3 DEF Page
    <3> QED
      BY <3>1, <3>2, <3>3
  <2>8. ~HasMore(end) => \A f \in Settled : f.tag <= end
    BY <1>1, <2>2 DEF HasMore
  <2>9. Mine(r) = FragmentOf(job[r].release) /\ Mine(r)' = FragmentOf(job[r].release)
    BY <2>4 DEF Mine
  <2>10. CASE job'[r].phase = "list" /\ job'[r].etag = job[r].etag
                /\ job'[r].cursor = end /\ job'[r].listed = all
    BY <1>5, <2>1, <2>2, <2>4, <2>6, <2>7, <2>10 DEF Listing, In
  <2>11. CASE ~HasMore(end) /\ job'[r].phase = "cas" /\ job'[r].etag = job[r].etag
                /\ all \cup {Mine(r)} = job'[r].listed
    <3>1. job'[r].listed \subseteq fragments' /\ Mine(r)' \in job'[r].listed
      BY <2>1, <2>3, <2>6, <2>9, <2>11
    <3>2. job'[r].etag = index'.etag => Settled' \subseteq job'[r].listed
      BY <2>1, <2>2, <2>7, <2>8, <2>11
    <3> QED
      BY <1>5, <2>4, <2>11, <3>1, <3>2 DEF Listing, In
  <2>12. CASE job'[r].phase \in {"rejected", "reply"}
    BY <1>5, <2>4, <2>12 DEF Listing, In
  <2> QED
    BY <2>5, <2>10, <2>11, <2>12
<1>10. ASSUME NEW r \in Requests, PutIndex(r)
       PROVE  ListingInv'
  BY <1>5, <1>10, PutIndexEffect DEF Listing, In
<1>11. ASSUME job' = job
       PROVE  ListingInv'
  BY <1>4, <1>11 DEF ListingInv
<1> QED
  BY <1>6, <1>7, <1>8, <1>9, <1>10, <1>11, OutsideSteps DEF Next, Step, Quiet

(* Every step keeps SettledInv.                                            *)
LEMMA SettledStep ==
    ASSUME TypeOK, CapturedInv, EtagInv, ListingInv, SettledInv, Next
    PROVE  SettledInv'
<1>1. Settled' \subseteq Settled \cup index'.body.snapshots /\ fragments \subseteq fragments'
  BY SettledGrows, StoreGrows
<1>2. CASE UNCHANGED <<index, issued, damaged>>
  BY <1>1, <1>2, SettledMember DEF SettledInv
<1>3. ASSUME NEW r \in Requests, PutIndex(r), index.etag = job[r].etag,
             index'.body.snapshots = job[r].listed
      PROVE  SettledInv'
  <2>1. Settled \subseteq job[r].listed /\ job[r].listed \subseteq fragments
    BY <1>3, PutIndexEffect DEF ListingInv, Listing, In
  <2> QED
    BY <1>1, <1>3, <2>1 DEF SettledInv
<1>4. CASE damaged' = TRUE /\ index'.body.snapshots \subseteq index.body.snapshots
  BY <1>1, <1>4, SettledMember DEF SettledInv
<1> QED
  BY <1>2, <1>3, <1>4, IndexEffect

(***************************************************************************)
(* The invariant                                                           *)
(***************************************************************************)

(* The invariant holds initially.                                          *)
LEMMA InvInit ==
    ASSUME Init
    PROVE  IngestInv
<1>1. /\ artifacts = {} /\ fragments = {} /\ index = NoIndex /\ issued = 0
      /\ releases = {} /\ damaged = FALSE /\ incidents = 0
      /\ \A r \in Requests : job[r] = NewJob
  BY DEF Init, StoreInit
<1>2. NoIndex \in [etag : Nat, body : IndexBody] /\ NoIndex.body.snapshots = {} /\ NoIndex.etag = 0
  BY ProjectIndexType DEF NoIndex, ProjectIndex
<1>3. TypeOK
  BY <1>1, <1>2, NewJobType DEF Init, TypeOK, StoreTypeOK
<1>4. NewJob.phase = "idle" /\ NewJob.etag = 0 /\ NewJob.release = NoRelease
  BY DEF NewJob
<1>5. CapturedInv /\ CopyInv /\ FragmentInv /\ EtagInv
  BY <1>1, <1>2, <1>4
     DEF CapturedInv, Captured, CopyInv, CopyOf, FragmentInv, EtagInv, Copying, Copied, Recorded
<1>6. ListingInv
  BY <1>1, <1>4 DEF ListingInv, Listing, In
<1>7. Settled = {}
  BY <1>1, <1>2, <1>4 DEF Settled, SeenBy, AcceptedFrom
<1> QED
  BY <1>3, <1>5, <1>6, <1>7 DEF IngestInv, SettledInv

(* The invariant depends on the variables only.                            *)
LEMMA InvStutters ==
    ASSUME IngestInv, UNCHANGED vars
    PROVE  IngestInv'
<1>1. /\ UNCHANGED <<artifacts, fragments, index, issued, releases, job, damaged, incidents>>
  BY DEF vars, storeVars
<1>2. TypeOK' /\ CapturedInv' /\ EtagInv'
  BY <1>1 DEF IngestInv, TypeOK, StoreTypeOK, CapturedInv, Captured, EtagInv
<1>3. CopyInv' /\ FragmentInv'
  BY <1>1 DEF IngestInv, CopyInv, CopyOf, FragmentInv, Backed, Delivered
<1>4. Settled' = Settled
  BY <1>1 DEF Settled, SeenBy, AcceptedFrom, Mine
<1>5. ListingInv' /\ SettledInv'
  BY <1>1, <1>4 DEF IngestInv, ListingInv, Listing, In, Mine, SettledInv
<1> QED
  BY <1>2, <1>3, <1>5 DEF IngestInv

(* The invariant of the service: TypeOK and the parts that record, for a   *)
(* request at every point, what it has copied, listed and relies on.       *)
THEOREM IngestInvariant == Spec => []IngestInv
<1>1. Init => IngestInv
  BY InvInit
<1>2. IngestInv /\ [Next]_vars => IngestInv'
  <2> SUFFICES ASSUME IngestInv, [Next]_vars
               PROVE  IngestInv'
    OBVIOUS
  <2>1. CASE Next
    BY <2>1, TypeStep, CapturedStep, CopyStep, FragmentStep, EtagStep, ListingStep, SettledStep
       DEF IngestInv
  <2>2. CASE UNCHANGED vars
    BY <2>2, InvStutters
  <2> QED
    BY <2>1, <2>2
<1> QED
  BY <1>1, <1>2, PTL DEF Spec

(***************************************************************************)
(* What it gives                                                           *)
(***************************************************************************)

(* Every variable of the service and the bucket keeps its type, so no step *)
(* computes a record, a page or a release the code does not have.          *)
THEOREM TypeCorrect == Spec => []TypeOK
<1>1. IngestInv => TypeOK
  BY DEF IngestInv
<1> QED
  BY <1>1, IngestInvariant, PTL

(* The index never knows more than the fragments in the bucket, for any    *)
(* number of concurrent ingestions (publication.py materialize).           *)
THEOREM Rebuildable == Spec => []IndexIsRebuildable
<1>1. IngestInv => IndexIsRebuildable
  BY SettledMember DEF IngestInv, SettledInv, IndexIsRebuildable
<1> QED
  BY <1>1, IngestInvariant, PTL

(* Every archive the index advertises is in the bucket under its path with *)
(* the advertised digest: put_immutable never leaves a foreign content     *)
(* behind a fallback URL.                                                  *)
THEOREM Mirrored == Spec => []AdvertisedIsMirrored
<1>1. ASSUME IngestInv
      PROVE  AdvertisedIsMirrored
  <2> SUFFICES ASSUME NEW f \in index.body.snapshots, NEW x \in f.successful, IsPrimary(x)
               PROVE  [tag |-> f.tag, name |-> x.name, sha256 |-> x.sha256] \in artifacts
    BY DEF AdvertisedIsMirrored, Advertised
  <2>1. f \in fragments
    BY <1>1, SettledMember DEF IngestInv, SettledInv
  <2>2. PICK c \in Candidates : FragmentOf(c) = f /\ \A y \in c.files : Delivered(c, y)
    BY <1>1, <2>1 DEF IngestInv, FragmentInv, Backed
  <2>3. f.tag = c.tag /\ x \in c.files
    BY <2>2 DEF FragmentOf
  <2>4. ArtifactOf(c, x) \in artifacts /\ c.content[x.name] = x.sha256
    BY <2>2, <2>3 DEF Delivered
  <2> QED
    BY <2>3, <2>4 DEF ArtifactOf
<1> QED
  BY <1>1, IngestInvariant, PTL

(* What the index shows is the fragment of one version of its release that *)
(* a request read, every file of which it downloaded and verified.         *)
THEOREM Verified == Spec => []IndexedWasVerified
<1>1. ASSUME IngestInv, NEW f \in index.body.snapshots
      PROVE  \E r \in Requests :
               /\ job[r].release \in Candidates /\ Mine(r) = f
               /\ job[r].release.public /\ job[r].release.defect = "none"
               /\ \A file \in f.successful : job[r].release.content[file.name] = file.sha256
  <2>1. f \in fragments
    BY <1>1, SettledMember DEF IngestInv, SettledInv
  <2>2. PICK r \in Requests : Backed(f, job[r].release)
    BY <1>1, <2>1 DEF IngestInv, FragmentInv
  <2>3. f.successful = job[r].release.files /\ Mine(r) = f
    BY <2>2 DEF Backed, FragmentOf, Mine
  <2> QED
    BY <2>2, <2>3 DEF Backed, Delivered
<1>2. IngestInv => IndexedWasVerified
  BY <1>1 DEF IndexedWasVerified
<1> QED
  BY <1>2, IngestInvariant, PTL

(* A snapshot whose ingestion was answered with 200 stays in the index:    *)
(* no concurrent rebuild, however its reads interleave, drops it, and the  *)
(* first write after a damage brings it back.                              *)
THEOREM AcceptedStaysIndexed == Spec => []AcceptedIsIndexed
<1>1. ASSUME IngestInv
      PROVE  AcceptedIsIndexed
  <2> SUFFICES ASSUME ~damaged, NEW r \in Requests, In(r, "ok")
               PROVE  Mine(r) \in index.body.snapshots
    BY DEF AcceptedIsIndexed
  <2>1. Mine(r) \in AcceptedFrom(r)
    BY DEF AcceptedFrom, In
  <2> QED
    BY <1>1, <2>1, SettledMember DEF IngestInv, SettledInv
<1> QED
  BY <1>1, IngestInvariant, PTL

(* A write of the index never drops a snapshot of the index it replaces:   *)
(* the entity tag ties the listing, begun after it was read, to that index.*)
THEOREM NothingLost == Spec => IndexNeverLoses
<1> DEFINE Keeps == \A r \in Requests : Commits(r) => index.body.snapshots \subseteq index'.body.snapshots
<1>1. ASSUME IngestInv, [Next]_vars
      PROVE  [Keeps]_vars
  <2> SUFFICES ASSUME Next, NEW q \in Requests, Commits(q)
               PROVE  index.body.snapshots \subseteq index'.body.snapshots
    BY <1>1
  <2>1. index' # index /\ job' # job
    BY DEF Commits
  <2>2. PICK r \in Requests : /\ PutIndex(r) /\ index.etag = job[r].etag
                              /\ index'.body.snapshots = job[r].listed
    BY <1>1, <2>1, IndexEffect DEF IngestInv
  <2>3. job[r].phase = "cas"
    BY <2>2 DEF PutIndex, In
  <2>4. Settled \subseteq job[r].listed
    BY <1>1, <2>2, <2>3 DEF IngestInv, ListingInv, Listing, In
  <2> QED
    BY <2>2, <2>4, SettledMember
<1>2. IngestInv /\ [Next]_vars => [Keeps]_vars
  BY <1>1
<1>3. IndexNeverLoses <=> [][Keeps]_vars
  BY DEF IndexNeverLoses
<1> HIDE DEF Keeps
<1> QED
  BY <1>2, <1>3, IngestInvariant, PTL DEF Spec

(***************************************************************************)
(* The latest builds                                                       *)
(***************************************************************************)

(* An entry of `latest` is that of the newest snapshot with its coordinate.*)
LEMMA LatestMember ==
    ASSUME NEW S, NEW entry \in Latest(S)
    PROVE  \E f \in S : entry.tag = f.tag /\ f \in NewestOf(S, entry.coordinate)
BY DEF Latest

(* Every new index is a projection or has lost its list.                   *)
LEMMA BodyEffect ==
    ASSUME TypeOK, Next
    PROVE  \/ index'.body = index.body
           \/ \E S : index'.body = ProjectIndex(S)
           \/ index'.body.latest = {}
<1>1. CASE \E r \in Requests : Quiet(r) \/ ReadIndex(r) \/ ReadEtag(r) \/ ListFragments(r)
  <2> SUFFICES ASSUME NEW r \in Requests,
                      Quiet(r) \/ ReadIndex(r) \/ ReadEtag(r) \/ ListFragments(r)
               PROVE  index' = index
    BY <1>1
  <2>1. CASE Quiet(r)
    BY <2>1 DEF Quiet, Start, FetchRelease, ReadArtifact, PutArtifact, ReadFragment, PutFragment,
                Reply, Abort, storeVars
  <2>2. CASE ReadIndex(r) \/ ReadEtag(r) \/ ListFragments(r)
    BY <2>2 DEF ReadIndex, ReadEtag, ListFragments, storeVars
  <2>. QED BY <2>1, <2>2
<1>2. CASE \E r \in Requests : PutIndex(r)
  BY <1>2 DEF PutIndex, WriteIndex, storeVars
<1>3. CASE \E c \in Candidates : PublishRelease(c)
  BY <1>3 DEF PublishRelease, storeVars
<1>4. CASE DeleteIndex
  BY <1>4 DEF DeleteIndex, NoIndex
<1>5. CASE CorruptIndex
  <2>1. index.body \in IndexBody
    BY DEF TypeOK, StoreTypeOK
  <2>2. [index.body EXCEPT !.latest = {}].latest = {}
    BY <2>1 DEF IndexBody
  <2>. QED BY <1>5, <2>2 DEF CorruptIndex
<1>6. CASE RollBackIndex
  BY <1>6 DEF RollBackIndex
<1>. QED BY <1>1, <1>2, <1>3, <1>4, <1>5, <1>6 DEF Next, Step, Quiet

(* A fragment is stored only under a tag that has none.                    *)
LEMMA UniqueStep ==
    ASSUME TypeOK, UniqueTags(fragments), Next
    PROVE  UniqueTags(fragments')
<1>1. CASE fragments' = fragments
  BY <1>1
<1>2. CASE fragments' # fragments
  <2>1. PICK r \in Requests : PutFragment(r)
    <3>1. ASSUME NEW r \in Requests, Quiet(r), ~PutFragment(r)
          PROVE  UNCHANGED fragments
      <4>1. CASE PutArtifact(r)
        BY <4>1 DEF PutArtifact
      <4>2. CASE Start(r) \/ FetchRelease(r) \/ Reply(r) \/ Abort(r)
        BY <4>2 DEF Start, FetchRelease, Reply, Abort, storeVars
      <4>3. CASE ReadArtifact(r) \/ ReadFragment(r)
        BY <4>3 DEF ReadArtifact, ReadFragment, storeVars
      <4>. QED BY <3>1, <4>1, <4>2, <4>3 DEF Quiet
    <3>2. ASSUME NEW r \in Requests,
                 ReadIndex(r) \/ ReadEtag(r) \/ ListFragments(r) \/ PutIndex(r)
          PROVE  UNCHANGED fragments
      BY <3>2 DEF ReadIndex, ReadEtag, ListFragments, PutIndex, WriteIndex, storeVars
    <3>. QED BY <1>2, <3>1, <3>2, OutsideSteps DEF Next, Step, Quiet
  <2>2. fragments' = fragments \cup {Mine(r)} /\ FragmentAt(Mine(r).tag) = {}
    BY <1>2, <2>1, PutFragmentEffect
  <2>. QED BY <2>2 DEF UniqueTags, FragmentAt
<1>. QED BY <1>1, <1>2

(* No step records a tag twice or loses what the index lists as latest.    *)
LEMMA LatestStep ==
    ASSUME TypeOK, LatestInv, [Next]_vars
    PROVE  LatestInv'
<1>1. CASE Next
  <2>1. UniqueTags(fragments')
    BY <1>1, UniqueStep DEF LatestInv
  <2>2. index'.body.latest \subseteq Latest(index'.body.snapshots)
    <3>1. index.body.latest \subseteq Latest(index.body.snapshots)
      BY DEF LatestInv
    <3>2. CASE index'.body = index.body
      BY <3>1, <3>2
    <3>3. CASE \E S : index'.body = ProjectIndex(S)
      BY <3>3 DEF ProjectIndex
    <3>4. CASE index'.body.latest = {}
      BY <3>4
    <3>. QED BY <1>1, <3>2, <3>3, <3>4, BodyEffect
  <2>3. UniqueTags(fragments)' <=> UniqueTags(fragments')
    BY DEF UniqueTags
  <2>4. Latest(index.body.snapshots)' = Latest(index'.body.snapshots)
    BY DEF Latest, CoordinatesOf, FilesAt, NewestOf, Newer
  <2>. QED BY <2>1, <2>2, <2>3, <2>4 DEF LatestInv
<1>2. CASE UNCHANGED vars
  BY <1>2 DEF vars, storeVars, LatestInv, UniqueTags, Latest, CoordinatesOf, FilesAt, NewestOf, Newer
<1>. QED BY <1>1, <1>2

(* A write of the index never makes `latest` of a coordinate an older      *)
(* build: the new list is that of a larger set, in which the old entry     *)
(* takes part.                                                             *)
THEOREM LatestKept == Spec => LatestNeverGoesBack
<1> DEFINE Keeps ==
        \A r \in Requests : Commits(r) =>
            \A f \in index.body.snapshots, g \in index'.body.snapshots :
                ListedAsLatest(index.body, f) \cap ListedAsLatest(index'.body, g) # {}
                => ~Newer(f, g)
<1>1. Init => LatestInv
  BY DEF Init, StoreInit, NoIndex, ProjectIndex, LatestInv, UniqueTags
<1>2. ASSUME IngestInv, LatestInv, [Next]_vars
      PROVE  [Keeps]_vars
  <2> SUFFICES ASSUME Next, NEW q \in Requests, Commits(q),
                      NEW f \in index.body.snapshots, NEW g \in index'.body.snapshots,
                      NEW c \in ListedAsLatest(index.body, f) \cap ListedAsLatest(index'.body, g)
               PROVE  ~Newer(f, g)
    BY <1>2
  <2>1. index' # index /\ job' # job
    BY DEF Commits
  <2>2. PICK r \in Requests : /\ PutIndex(r) /\ index.etag = job[r].etag
                              /\ index'.body.snapshots = job[r].listed
    BY <1>2, <2>1, IndexEffect DEF IngestInv
  <2>3. job[r].phase = "cas" /\ index'.body = ProjectIndex(job[r].listed)
    BY <2>1, <2>2 DEF PutIndex, In, WriteIndex, storeVars
  <2> DEFINE listed == job[r].listed
  <2>4. index.body.snapshots \subseteq listed /\ listed \subseteq fragments
    BY <1>2, <2>2, <2>3, SettledMember DEF IngestInv, ListingInv, Listing, In
  <2>5. UniqueTags(fragments) /\ index.body.latest \subseteq Latest(index.body.snapshots)
    BY <1>2 DEF LatestInv
  <2>6. c \in CoordinatesOf(f)
    <3>1. PICK entry \in index.body.latest : entry.tag = f.tag /\ entry.coordinate = c
      BY DEF ListedAsLatest
    <3>2. PICK h \in index.body.snapshots : h.tag = f.tag /\ h \in NewestOf(index.body.snapshots, c)
      BY <2>5, <3>1, LatestMember
    <3>. QED BY <2>4, <2>5, <3>2 DEF UniqueTags, NewestOf
  <2>7. g \in NewestOf(listed, c)
    <3>1. PICK entry \in Latest(listed) : entry.tag = g.tag /\ entry.coordinate = c
      BY <2>3 DEF ListedAsLatest, ProjectIndex
    <3>2. PICK h \in listed : h.tag = g.tag /\ h \in NewestOf(listed, c)
      BY <3>1, LatestMember
    <3>. QED BY <2>2, <2>4, <2>5, <3>2 DEF UniqueTags
  <2>. QED BY <2>4, <2>6, <2>7 DEF NewestOf
<1>3. LatestNeverGoesBack <=> [][Keeps]_vars
  BY DEF LatestNeverGoesBack
<1>4. IngestInv /\ LatestInv /\ [Next]_vars => [Keeps]_vars
  BY <1>2
<1>5. IngestInv /\ LatestInv /\ [Next]_vars => LatestInv'
  BY LatestStep DEF IngestInv
<1> HIDE DEF Keeps
<1>. QED BY <1>1, <1>3, <1>4, <1>5, IngestInvariant, PTL DEF Spec

(***************************************************************************)
(* The rounds of the loop                                                  *)
(***************************************************************************)

(* What the steps that lose no round do to the count of rounds.            *)
LEMMA TriesEffect ==
    ASSUME TypeOK, NEW r \in Requests,
           Quiet(r) \/ ReadIndex(r) \/ ReadEtag(r) \/ ListFragments(r)
    PROVE  job'[r].tries \in {0, job[r].tries}
<1>0. job[r] \in Job
  BY DEF TypeOK
<1>1. /\ \A phase : Goto(r, phase).tries = job[r].tries
      /\ \A phase : Finish(r, phase).tries = 0
      /\ \A rest : Walk(r, rest).tries = job[r].tries
  BY <1>0 DEF Goto, Finish, Walk, NewJob, Job
<1> SUFFICES \E next : Become(r, next) /\ next.tries \in {0, job[r].tries}
  BY LocalFields
<1>2. CASE Start(r)
  <2>1. PICK tag : Become(r, [Goto(r, "fetch") EXCEPT !.tag = tag])
    BY <1>2 DEF Start
  <2>2. [Goto(r, "fetch") EXCEPT !.tag = tag].tries = job[r].tries
    BY <1>0 DEF Goto, Job
  <2>. QED BY <2>1, <2>2
<1>3. CASE FetchRelease(r)
  <2>1. CASE \E phase \in {"ignored", "rejected"} : Become(r, Finish(r, phase))
    BY <1>1, <2>1
  <2>2. CASE \E c \in releases : Become(r, [Walk(r, c.files) EXCEPT !.release = c])
    <3>1. PICK c \in releases : Become(r, [Walk(r, c.files) EXCEPT !.release = c])
      BY <2>2
    <3>2. [Walk(r, c.files) EXCEPT !.release = c].tries = job[r].tries
      BY <1>0 DEF Walk, Job
    <3>. QED BY <3>1, <3>2
  <2>. QED BY <1>3, <2>1, <2>2 DEF FetchRelease
<1>4. CASE ReadArtifact(r)
  BY <1>1, <1>4 DEF ReadArtifact
<1>5. CASE PutArtifact(r)
  BY <1>1, <1>5 DEF PutArtifact
<1>6. CASE ReadFragment(r) \/ PutFragment(r) \/ Reply(r) \/ Abort(r)
  BY <1>1, <1>6 DEF ReadFragment, PutFragment, Reply, Abort
<1>7. CASE ReadIndex(r)
  <2> DEFINE next == [job[r] EXCEPT !.phase = IF IndexExists THEN "read_etag" ELSE "list",
                                    !.seen = index.body, !.etag = 0, !.cursor = 0, !.listed = {}]
  <2>1. next.tries = job[r].tries
    BY <1>0 DEF Job
  <2>. QED BY <1>7, <2>1 DEF ReadIndex
<1>8. CASE ReadEtag(r)
  <2>1. [Goto(r, "list") EXCEPT !.etag = index.etag].tries = job[r].tries
    BY <1>0 DEF Goto, Job
  <2>. QED BY <1>1, <1>8, <2>1 DEF ReadEtag
<1>9. CASE ListFragments(r)
  <2>1. PICK end \in PageEnds(job[r].cursor) : ListFragments(r)!2!(end)
    BY <1>9 DEF ListFragments
  <2> DEFINE all == job[r].listed \cup Page(job[r].cursor, end)
             more == [job[r] EXCEPT !.cursor = end, !.listed = all]
             won == [Goto(r, "cas") EXCEPT !.seen = NoIndex.body, !.cursor = 0,
                                           !.listed = Merged(r, all)]
  <2>2. more.tries = job[r].tries /\ won.tries = job[r].tries
    BY <1>0 DEF Goto, Job
  <2>3. Become(r, more) \/ Become(r, AfterListing(r, all))
    BY <2>1
  <2>4. AfterListing(r, all) \in {Finish(r, "rejected"), Finish(r, "reply"), won}
    BY DEF AfterListing
  <2> HIDE DEF all, more, won
  <2>. QED BY <1>1, <2>2, <2>3, <2>4
<1>. QED BY <1>2, <1>3, <1>4, <1>5, <1>6, <1>7, <1>8, <1>9 DEF Quiet

(* A request that has written the index, or has ended, never begins again. *)
LEMMA DoneKept ==
    ASSUME TypeOK, CapturedInv, Next
    PROVE  Done \subseteq Done'
<1> SUFFICES ASSUME NEW q \in Done
             PROVE  q \in Done'
  OBVIOUS
<1>0. q \in Requests /\ job[q].phase \in {"reply", "ok", "failed"}
  BY DEF Done
<1> SUFFICES job'[q].phase \in {"reply", "ok", "failed"}
  BY <1>0 DEF Done
<1>1. ASSUME NEW r \in Requests, Quiet(r)
      PROVE  job'[q].phase \in {"reply", "ok", "failed"}
  <2>1. OthersKeep(r)
    BY <1>1, QuietEffect
  <2>2. CASE q = r
    <3>1. Reply(r) \/ Abort(r)
      BY <1>0, <1>1, <2>2, StartEffect, FetchReleaseEffect
         DEF Quiet, ReadArtifact, PutArtifact, ReadFragment, PutFragment, In
    <3>. QED BY <2>2, <3>1, EndEffect
  <2>. QED BY <1>0, <2>1, <2>2 DEF OthersKeep
<1>2. ASSUME NEW r \in Requests, ReadIndex(r) \/ ReadEtag(r) \/ ListFragments(r) \/ PutIndex(r)
      PROVE  job'[q].phase \in {"reply", "ok", "failed"}
  <2>1. job[r].release \in Candidates /\ r # q
    BY <1>0, <1>2 DEF ReadIndex, ReadEtag, ListFragments, PutIndex, In, CapturedInv, Captured, Recorded
  <2>2. OthersKeep(r)
    BY <1>2, <2>1, ReadIndexEffect, ReadEtagEffect, ListFragmentsEffect, PutIndexEffect
  <2>. QED BY <1>0, <2>1, <2>2 DEF OthersKeep
<1>3. ASSUME job' = job
      PROVE  job'[q].phase \in {"reply", "ok", "failed"}
  BY <1>0, <1>3
<1>. QED BY <1>1, <1>2, <1>3, OutsideSteps DEF Next, Step, Quiet

(* A larger set of requests has no smaller number of them.                 *)
LEMMA Counted ==
    ASSUME IsFiniteSet(Requests)
    PROVE  /\ Cardinality(Requests) \in Nat
           /\ \A S \in SUBSET Requests :
                /\ Cardinality(S) \in Nat
                /\ \A T \in SUBSET S : Cardinality(T) <= Cardinality(S)
                /\ \A r \in Requests \ S :
                     /\ Cardinality(S \cup {r}) = Cardinality(S) + 1
                     /\ Cardinality(S) < Cardinality(Requests)
<1>1. Cardinality(Requests) \in Nat
  BY FS_CardinalityType
<1> SUFFICES ASSUME NEW S \in SUBSET Requests
             PROVE  /\ Cardinality(S) \in Nat
                    /\ \A T \in SUBSET S : Cardinality(T) <= Cardinality(S)
                    /\ \A r \in Requests \ S :
                         /\ Cardinality(S \cup {r}) = Cardinality(S) + 1
                         /\ Cardinality(S) < Cardinality(Requests)
  BY <1>1
<1>2. IsFiniteSet(S) /\ Cardinality(S) \in Nat
  BY FS_Subset, FS_CardinalityType
<1>3. \A T \in SUBSET S : Cardinality(T) <= Cardinality(S)
  BY <1>2, FS_Subset
<1>4. ASSUME NEW r \in Requests \ S
      PROVE  Cardinality(S \cup {r}) = Cardinality(S) + 1 /\ Cardinality(S) < Cardinality(Requests)
  <2>1. Cardinality(S \cup {r}) = Cardinality(S) + 1
    BY <1>2, FS_AddElement
  <2>2. S \cup {r} \subseteq Requests
    OBVIOUS
  <2>3. Cardinality(S \cup {r}) <= Cardinality(Requests)
    BY <2>2, FS_Subset
  <2>. QED BY <1>1, <1>2, <2>1, <2>3
<1>. QED BY <1>2, <1>3, <1>4

(* A lost round is the success of another request since it began.          *)
LEMMA LostRound ==
    ASSUME IsFiniteSet(Requests), IngestInv, RoundInv,
           NEW r \in Requests, job[r].phase = "cas", index.etag # job[r].etag
    PROVE  job[r].tries + 1 <= issued /\ job[r].tries + 1 < Cardinality(Requests)
<1>1. job[r].tries \in Nat /\ job[r].etag \in Nat /\ issued \in Nat
  BY DEF IngestInv, TypeOK, StoreTypeOK, Job
<1>2. job[r].tries <= job[r].etag /\ job[r].etag <= issued /\ job[r].etag # issued
  BY DEF IngestInv, EtagInv, RoundInv
<1>3. PICK S \in SUBSET Requests : S = Done
  BY DEF Done
<1>4. r \notin S
  BY <1>3 DEF Done
<1>5. /\ issued <= Cardinality(S) /\ Cardinality(S) < Cardinality(Requests)
      /\ Cardinality(S) \in Nat /\ Cardinality(Requests) \in Nat
  BY <1>3, <1>4, Counted DEF RoundInv
<1>. QED BY <1>1, <1>2, <1>5

(* How a round of the loop ends.                                           *)
LEMMA RoundEnds ==
    ASSUME TypeOK, NEW r \in Requests, PutIndex(r)
    PROVE  /\ OthersKeep(r) /\ job[r].phase = "cas"
           /\ \/ /\ index.etag = job[r].etag
                 /\ job'[r].phase = "reply" /\ job'[r].tries = 0
                 /\ index'.etag = issued + 1 /\ issued' = issued + 1
              \/ /\ index.etag # job[r].etag
                 /\ UNCHANGED <<index, issued>>
                 /\ \/ job'[r].phase = "read_index" /\ job'[r].tries = job[r].tries + 1
                    \/ /\ job'[r].phase = "exhausted" /\ job'[r].tries = 0
                       /\ ~(job[r].tries + 1 < Attempts)
<1> DEFINE again == [Goto(r, "read_index") EXCEPT !.tries = job[r].tries + 1]
<1>1. again.phase = "read_index" /\ again.tries = job[r].tries + 1
  BY DEF Goto, TypeOK, Job
<1>2. \A phase : Finish(r, phase).phase = phase /\ Finish(r, phase).tries = 0
  BY DEF Finish, NewJob
<1>3. job[r].phase = "cas" /\ OthersKeep(r)
  BY PutIndexEffect
<1>4. CASE Unmodified(job[r].etag) /\ WriteIndex(ProjectIndex(job[r].listed))
           /\ Become(r, Finish(r, "reply"))
  BY <1>2, <1>3, <1>4, LocalFields DEF Unmodified, WriteIndex
<1>5. CASE ~Unmodified(job[r].etag) /\ UNCHANGED <<storeVars, damaged>>
           /\ Become(r, NextRound(r, job[r].tries + 1))
  <2>1. UNCHANGED <<index, issued>> /\ index.etag # job[r].etag
    BY <1>5 DEF storeVars, Unmodified
  <2>2. \/ NextRound(r, job[r].tries + 1) = again
        \/ NextRound(r, job[r].tries + 1) = Finish(r, "exhausted") /\ ~(job[r].tries + 1 < Attempts)
    BY DEF NextRound
  <2>3. job'[r] = NextRound(r, job[r].tries + 1)
    BY <1>5, LocalFields
  <2> HIDE DEF again
  <2>. QED BY <1>1, <1>2, <1>3, <2>1, <2>2, <2>3
<1>. QED BY <1>4, <1>5 DEF PutIndex

(* Every step keeps the count of rounds.                                   *)
LEMMA RoundStep ==
    ASSUME IsFiniteSet(Requests), Faults \subseteq {"abort"}, IngestInv, RoundInv, Next
    PROVE  RoundInv'
<1>0. /\ TypeOK /\ CapturedInv /\ EtagInv
      /\ index.etag \in Nat /\ issued \in Nat
      /\ \A q \in Requests : job[q].tries \in Nat /\ job[q].etag \in Nat
  BY DEF IngestInv, TypeOK, StoreTypeOK, Job
<1>1. PICK S \in SUBSET Requests, T \in SUBSET Requests : S = Done /\ T = Done' /\ S \subseteq T
  BY <1>0, DoneKept DEF Done
<1>2. /\ Cardinality(S) \in Nat /\ Cardinality(T) \in Nat /\ Cardinality(S) <= Cardinality(T)
      /\ issued <= Cardinality(S) /\ index.etag = issued
  BY <1>1, Counted DEF RoundInv
<1> DEFINE Fits(q) == /\ job'[q].tries <= issued'
                      /\ job'[q].phase \in {"list", "cas"} => job'[q].tries <= job'[q].etag
<1>3. ASSUME issued <= issued', NEW q \in Requests, job'[q] = job[q], issued' \in Nat
      PROVE  Fits(q)
  BY <1>0, <1>3 DEF RoundInv
<1>4. ASSUME NEW r \in Requests, UNCHANGED <<index, issued>>, OthersKeep(r), Fits(r)
      PROVE  RoundInv'
  <2>1. issued <= issued' /\ issued' \in Nat
    BY <1>0, <1>4
  <2>2. \A q \in Requests : Fits(q)
    BY <1>3, <1>4, <2>1 DEF OthersKeep
  <2>3. index'.etag = issued' /\ issued' <= Cardinality(T)
    BY <1>0, <1>2, <1>4
  <2>. QED BY <1>1, <2>2, <2>3 DEF RoundInv
<1>5. ASSUME NEW r \in Requests, Quiet(r)
      PROVE  RoundInv'
  <2>1. /\ OthersKeep(r) /\ UNCHANGED <<index, issued>>
        /\ job'[r].phase \notin {"list", "cas"} /\ job'[r].tries \in {0, job[r].tries}
    BY <1>0, <1>5, QuietEffect, TriesEffect
  <2>2. Fits(r)
    BY <1>0, <2>1 DEF RoundInv
  <2>. QED BY <1>4, <2>1, <2>2
<1>6. ASSUME NEW r \in Requests, ReadIndex(r)
      PROVE  RoundInv'
  <2>1. UNCHANGED <<index, issued>>
    BY <1>6 DEF ReadIndex, storeVars
  <2>2. /\ OthersKeep(r) /\ job'[r].tries \in {0, job[r].tries} /\ job'[r].etag = 0
        /\ job'[r].phase = "read_etag" \/ (job'[r].phase = "list" /\ index.etag = 0)
    BY <1>0, <1>6, ReadIndexEffect, TriesEffect
  <2>3. Fits(r)
    BY <1>0, <2>1, <2>2 DEF RoundInv
  <2>. QED BY <1>4, <2>1, <2>2, <2>3
<1>7. ASSUME NEW r \in Requests, ReadEtag(r)
      PROVE  RoundInv'
  <2>1. UNCHANGED <<index, issued>>
    BY <1>7 DEF ReadEtag, storeVars
  <2>2. /\ OthersKeep(r) /\ job'[r].tries \in {0, job[r].tries}
        /\ job'[r].phase \in {"failed", "rejected"} \/ (job'[r].phase = "list" /\ job'[r].etag = index.etag)
    BY <1>0, <1>7, ReadEtagEffect, TriesEffect
  <2>3. Fits(r)
    BY <1>0, <2>1, <2>2 DEF RoundInv
  <2>. QED BY <1>4, <2>1, <2>2, <2>3
<1>8. ASSUME NEW r \in Requests, ListFragments(r)
      PROVE  RoundInv'
  <2>1. UNCHANGED <<index, issued>>
    BY <1>8 DEF ListFragments, storeVars
  <2>2. job[r].release \in Candidates
    BY <1>0, <1>8 DEF ListFragments, In, CapturedInv, Captured, Recorded
  <2>3. /\ OthersKeep(r) /\ job'[r].tries \in {0, job[r].tries} /\ job[r].phase = "list"
        /\ job'[r].phase \in {"rejected", "reply"} \/ job'[r].etag = job[r].etag
    BY <1>0, <1>8, <2>2, ListFragmentsEffect, TriesEffect
  <2>4. Fits(r)
    BY <1>0, <2>1, <2>3 DEF RoundInv
  <2>. QED BY <1>4, <2>1, <2>3, <2>4
<1>9. ASSUME NEW r \in Requests, PutIndex(r)
      PROVE  RoundInv'
  <2>1. OthersKeep(r) /\ job[r].phase = "cas"
    BY <1>0, <1>9, RoundEnds
  <2>2. CASE index.etag = job[r].etag
    <3>1. /\ job'[r].phase = "reply" /\ job'[r].tries = 0
          /\ index'.etag = issued + 1 /\ issued' = issued + 1
      BY <1>0, <1>9, <2>2, RoundEnds
    <3>2. \A q \in Requests : Fits(q)
      BY <1>0, <1>3, <2>1, <3>1 DEF OthersKeep
    <3>3. r \notin S /\ S \cup {r} \subseteq T
      BY <1>1, <2>1, <3>1 DEF Done
    <3>4. Cardinality(S) + 1 <= Cardinality(T)
      BY <3>3, Counted
    <3>. QED BY <1>0, <1>1, <1>2, <3>1, <3>2, <3>4 DEF RoundInv
  <2>3. CASE index.etag # job[r].etag
    <3>1. /\ UNCHANGED <<index, issued>> /\ job'[r].phase \in {"read_index", "exhausted"}
          /\ job'[r].tries \in {0, job[r].tries + 1}
      BY <1>0, <1>9, <2>3, RoundEnds
    <3>2. job[r].tries + 1 <= issued
      BY <2>1, <2>3, LostRound
    <3>3. Fits(r)
      BY <1>0, <3>1, <3>2
    <3>. QED BY <1>4, <2>1, <3>1, <3>3
  <2>. QED BY <2>2, <2>3
<1>10. ASSUME NEW c \in Candidates, PublishRelease(c)
       PROVE  RoundInv'
  <2>1. job' = job /\ UNCHANGED <<index, issued>>
    BY <1>10 DEF PublishRelease, storeVars
  <2>2. issued <= issued' /\ issued' \in Nat
    BY <1>0, <2>1
  <2>3. \A q \in Requests : Fits(q)
    BY <1>3, <2>1, <2>2
  <2>4. index'.etag = issued' /\ issued' <= Cardinality(T)
    BY <1>0, <1>2, <2>1
  <2>. QED BY <1>1, <2>3, <2>4 DEF RoundInv
<1>11. ~DeleteIndex /\ ~CorruptIndex /\ ~RollBackIndex
  BY DEF DeleteIndex, CorruptIndex, RollBackIndex, Incident
<1>. QED BY <1>5, <1>6, <1>7, <1>8, <1>9, <1>10, <1>11 DEF Next, Step, Quiet

(* With as many rounds as there are requests none of them is told that the *)
(* index did not converge: the rounds it loses are the successes of as     *)
(* many others.                                                            *)
THEOREM RoundsSuffice ==
    ASSUME IsFiniteSet(Requests), Faults \subseteq {"abort"}
    PROVE  Spec => []NoSpuriousExhaustion
<1>1. Init => RoundInv /\ NoSpuriousExhaustion
  <2> SUFFICES ASSUME Init
               PROVE  RoundInv /\ NoSpuriousExhaustion
    OBVIOUS
  <2>1. /\ index.etag = 0 /\ issued = 0
        /\ \A r \in Requests : job[r].tries = 0 /\ job[r].phase = "idle"
    BY DEF Init, StoreInit, NoIndex, NewJob
  <2>2. Done = {}
    BY <2>1 DEF Done
  <2>. QED BY <2>1, <2>2, FS_EmptySet DEF RoundInv, NoSpuriousExhaustion, In
<1>2. ASSUME IngestInv, RoundInv, NoSpuriousExhaustion, [Next]_vars
      PROVE  RoundInv' /\ NoSpuriousExhaustion'
  <2>0. TypeOK /\ CapturedInv
    BY <1>2 DEF IngestInv
  <2>1. CASE Next
    <3>1. RoundInv'
      BY <1>2, <2>1, RoundStep
    <3>2. ASSUME Cardinality(Requests) <= Attempts, NEW q \in Requests, job'[q].phase = "exhausted"
          PROVE  FALSE
      <4>0. job[q].phase # "exhausted"
        BY <1>2, <3>2 DEF NoSpuriousExhaustion, In
      <4>1. PICK r \in Requests : Start(r) \/ Step(r) \/ Abort(r)
        BY <2>1, <3>2, <4>0, OutsideSteps DEF Next
      <4>2. CASE PutIndex(r)
        <5>1. q = r /\ job[r].phase = "cas" /\ index.etag # job[r].etag /\ ~(job[r].tries + 1 < Attempts)
          BY <2>0, <3>2, <4>0, <4>2, RoundEnds DEF OthersKeep
        <5>2. job[r].tries + 1 < Cardinality(Requests)
          BY <1>2, <5>1, LostRound
        <5>3. job[r].tries \in Nat /\ Cardinality(Requests) \in Nat /\ Attempts \in Nat
          BY <2>0, Counted, IngestAssumption DEF TypeOK, Job
        <5>. QED BY <3>2, <5>1, <5>2, <5>3
      <4>3. CASE ReadIndex(r) \/ ReadEtag(r) \/ ListFragments(r)
        <5>1. job[r].release \in Candidates
          BY <2>0, <4>3 DEF ReadIndex, ReadEtag, ListFragments, In, CapturedInv, Captured, Recorded
        <5>2. OthersKeep(r) /\ job'[r].phase # "exhausted"
          BY <2>0, <4>3, <5>1, ReadIndexEffect, ReadEtagEffect, ListFragmentsEffect
        <5>. QED BY <3>2, <4>0, <5>2 DEF OthersKeep
      <4>4. CASE Quiet(r)
        <5>1. OthersKeep(r) /\ job'[r].phase # "exhausted"
          BY <2>0, <4>4, QuietEffect, StartEffect, FetchReleaseEffect, ReadArtifactEffect,
             PutArtifactEffect, ReadFragmentEffect, PutFragmentEffect, EndEffect DEF Quiet
        <5>. QED BY <3>2, <4>0, <5>1 DEF OthersKeep
      <4>. QED BY <4>1, <4>2, <4>3, <4>4 DEF Step, Quiet
    <3>. QED BY <3>1, <3>2 DEF NoSpuriousExhaustion, In
  <2>2. CASE UNCHANGED vars
    BY <1>2, <2>2 DEF vars, storeVars, RoundInv, Done, NoSpuriousExhaustion, In
  <2>. QED BY <1>2, <2>1, <2>2
<1>3. IngestInv /\ RoundInv /\ NoSpuriousExhaustion /\ [Next]_vars => RoundInv' /\ NoSpuriousExhaustion'
  BY <1>2
<1>. QED BY <1>1, <1>3, IngestInvariant, PTL DEF Spec

(***************************************************************************)
(* Refinement                                                              *)
(***************************************************************************)

(* The members of Accepted, before and after a step.                       *)
LEMMA AcceptedMember ==
    /\ \A f : f \in Accepted <=> \E r \in Requests : job[r].phase = "ok" /\ f = Mine(r)
    /\ \A f : f \in Accepted' <=> \E r \in Requests : job'[r].phase = "ok" /\ f = Mine(r)'
BY DEF Accepted, In

(* A step that does not end in success leaves Accepted.                    *)
LEMMA AcceptedKept ==
    ASSUME NEW r \in Requests, OthersKeep(r), job[r].phase # "ok", job'[r].phase # "ok"
    PROVE  Accepted' = Accepted
<1>1. \A q \in Requests : q # r => job'[q] = job[q] /\ Mine(q)' = Mine(q)
  BY DEF OthersKeep, Mine
<1>2. \A f : f \in Accepted' <=> f \in Accepted
  BY <1>1, AcceptedMember
<1> QED
  BY <1>2

(* Nothing but the service writes index.json.                              *)
LEMMA Undamaged ==
    ASSUME Faults \subseteq {"abort"}, TypeOK, Next, ~damaged
    PROVE  ~damaged' /\ ~DeleteIndex /\ ~CorruptIndex /\ ~RollBackIndex
<1>1. ~DeleteIndex /\ ~CorruptIndex /\ ~RollBackIndex
  BY DEF DeleteIndex, CorruptIndex, RollBackIndex, Incident
<1>2. ~damaged'
  BY <1>1 DEF Next, Step, Start, FetchRelease, ReadArtifact, PutArtifact, ReadFragment, PutFragment,
              ReadIndex, ReadEtag, ListFragments, PutIndex, Reply, Abort, PublishRelease
<1> QED
  BY <1>1, <1>2

(* As long as nothing but the service writes the index, ingestion by any   *)
(* number of concurrent, possibly dying requests is the abstract archive.  *)
THEOREM Refinement ==
    ASSUME Faults \subseteq {"abort"}
    PROVE  Spec => ImplementsArchive
<1>1. Init => Archive!Init /\ ~damaged
  <2> SUFFICES ASSUME Init
               PROVE  Archive!Init /\ ~damaged
    OBVIOUS
  <2>1. index.body.snapshots = {}
    BY DEF Init, StoreInit, NoIndex, ProjectIndex
  <2>2. \A r \in Requests : job[r].phase # "ok"
    BY DEF Init, NewJob
  <2>3. Accepted = {}
    BY <2>2, AcceptedMember
  <2> QED
    BY <2>1, <2>3 DEF Init, StoreInit, Archive!Init
<1>2. ASSUME IngestInv, ~damaged, Next
      PROVE  [Archive!Next]_(Archive!vars)
  <2> USE <1>2
  <2>0. TypeOK /\ CapturedInv /\ CopyInv /\ ListingInv /\ SettledInv
    BY DEF IngestInv
  <2>1. ASSUME UNCHANGED <<fragments, index>>, Accepted' = Accepted
        PROVE  UNCHANGED Archive!vars
    BY <2>1 DEF Archive!vars
  <2>2. ASSUME NEW c \in Candidates, PublishRelease(c)
        PROVE  UNCHANGED Archive!vars
    <3>1. job' = job /\ UNCHANGED <<fragments, index>>
      BY <2>2 DEF PublishRelease, storeVars
    <3>2. Accepted' = Accepted
      BY <3>1 DEF Accepted, In, Mine
    <3> QED
      BY <2>1, <3>1, <3>2
  <2>3. ASSUME NEW r \in Requests, Quiet(r), ~PutFragment(r), ~Reply(r)
        PROVE  UNCHANGED Archive!vars
    <3>1. UNCHANGED <<fragments, index>>
      BY <2>3 DEF Quiet, Start, FetchRelease, ReadArtifact, PutArtifact, ReadFragment, Abort, storeVars
    <3>2. job[r].phase # "ok"
      BY <2>3 DEF Quiet, Start, FetchRelease, ReadArtifact, PutArtifact, ReadFragment, Abort,
                  In, InProgress
    <3>3. OthersKeep(r) /\ job'[r].phase # "ok"
      <4>1. CASE Abort(r)
        BY <2>0, <4>1, LocalFields DEF Abort, OthersKeep
      <4>2. CASE ~Abort(r)
        BY <2>0, <2>3, <4>2, QuietEffect DEF Quiet, Start, FetchRelease, ReadArtifact, PutArtifact,
                                             ReadFragment, In
      <4> QED
        BY <4>1, <4>2
    <3> QED
      BY <2>1, <3>1, <3>2, <3>3, AcceptedKept
  <2>4. ASSUME NEW r \in Requests, PutFragment(r)
        PROVE  [Archive!Next]_(Archive!vars)
    <3>1. /\ OthersKeep(r) /\ job[r].phase = "put_fragment" /\ job'[r].phase # "ok"
          /\ fragments' \in {fragments, fragments \cup {Mine(r)}}
          /\ fragments' # fragments => FragmentAt(Mine(r).tag) = {}
      BY <2>0, <2>4, PutFragmentEffect
    <3>2. Accepted' = Accepted /\ index' = index
      BY <2>4, <3>1, AcceptedKept DEF PutFragment
    <3>3. CASE fragments' = fragments
      BY <2>1, <3>2, <3>3
    <3>4. CASE fragments' # fragments
      <4> DEFINE snapshot == Mine(r)
      <4>1. \A other \in fragments : other.tag # snapshot.tag
        BY <3>1, <3>4 DEF FragmentAt
      <4>2. fragments' = fragments \cup {snapshot} /\ snapshot \in fragments'
        BY <3>1, <3>4
      <4> HIDE DEF snapshot
      <4>3. Archive!Record(snapshot)
        BY <3>2, <4>1, <4>2 DEF Archive!Record
      <4> QED
        BY <4>2, <4>3 DEF Archive!Next
    <3> QED
      BY <3>3, <3>4
  <2>5. ASSUME NEW r \in Requests, ReadIndex(r) \/ ReadEtag(r) \/ ListFragments(r)
        PROVE  UNCHANGED Archive!vars
    <3>1. UNCHANGED <<fragments, index>>
      BY <2>5 DEF ReadIndex, ReadEtag, ListFragments, storeVars
    <3>2. job[r].release \in Candidates /\ job[r].phase # "ok"
      BY <2>0, <2>5 DEF ReadIndex, ReadEtag, ListFragments, In, CapturedInv, Captured, Recorded
    <3>3. OthersKeep(r) /\ job'[r].phase # "ok"
      BY <2>0, <2>5, <3>2, ReadIndexEffect, ReadEtagEffect, ListFragmentsEffect
    <3> QED
      BY <2>1, <3>1, <3>2, <3>3, AcceptedKept
  <2>6. ASSUME NEW r \in Requests, PutIndex(r)
        PROVE  [Archive!Next]_(Archive!vars)
    <3>1. /\ OthersKeep(r) /\ job[r].phase = "cas" /\ job'[r].phase # "ok"
          /\ \/ index' = index
             \/ index.etag = job[r].etag /\ index'.body.snapshots = job[r].listed
      BY <2>0, <2>6, PutIndexEffect
    <3>2. fragments' = fragments /\ Accepted' = Accepted
      BY <2>6, <3>1, AcceptedKept DEF PutIndex, WriteIndex, storeVars
    <3>3. CASE index' = index
      BY <2>1, <3>2, <3>3
    <3>4. CASE index.etag = job[r].etag /\ index'.body.snapshots = job[r].listed
      <4>1. Settled \subseteq job[r].listed /\ job[r].listed \subseteq fragments
        BY <2>0, <3>1, <3>4 DEF ListingInv, Listing, In
      <4>2. Archive!Publish(index'.body.snapshots)
        BY <3>2, <3>4, <4>1, SettledMember DEF Archive!Publish
      <4> QED
        BY <4>2 DEF Archive!Next
    <3> QED
      BY <3>1, <3>3, <3>4
  <2>7. ASSUME NEW r \in Requests, Reply(r)
        PROVE  [Archive!Next]_(Archive!vars)
    <3>1. PICK snapshot : snapshot = Mine(r)
      OBVIOUS
    <3>2. /\ job[r].phase = "reply" /\ job'[r].phase = "ok"
          /\ OthersKeep(r) /\ Mine(r)' = Mine(r)
          /\ UNCHANGED <<fragments, index>>
      BY <2>0, <2>7, LocalFields DEF Reply, In, OthersKeep, Mine, storeVars
    <3>3. snapshot \in index.body.snapshots
      <4>1. snapshot \in AcceptedFrom(r)
        BY <3>1, <3>2 DEF AcceptedFrom
      <4> QED
        BY <2>0, <4>1, SettledMember DEF SettledInv
    <3>4. \A q \in Requests : q # r => job'[q] = job[q] /\ Mine(q)' = Mine(q)
      BY <3>2 DEF OthersKeep, Mine
    <3>5. \A f : f \in Accepted' <=> f \in Accepted \/ f = snapshot
      BY <3>1, <3>2, <3>4, AcceptedMember
    <3>6. Accepted' = Accepted \cup {snapshot}
      BY <3>5
    <3>7. Archive!Accept(snapshot)
      BY <3>2, <3>3, <3>6 DEF Archive!Accept
    <3> QED
      BY <3>3, <3>7 DEF Archive!Next
  <2> QED
    BY <2>0, <2>2, <2>3, <2>4, <2>5, <2>6, <2>7, Undamaged DEF Next, Step, Quiet
<1>3. IngestInv /\ ~damaged /\ [Next]_vars => [Archive!Next]_(Archive!vars) /\ ~damaged'
  <2> SUFFICES ASSUME IngestInv, ~damaged, [Next]_vars
               PROVE  [Archive!Next]_(Archive!vars) /\ ~damaged'
    OBVIOUS
  <2>1. CASE Next
    BY <1>2, <2>1, Undamaged DEF IngestInv
  <2>2. CASE UNCHANGED vars
    BY <2>2 DEF vars, storeVars, Archive!vars, Accepted, In, Mine
  <2> QED
    BY <2>1, <2>2
<1> QED
  BY <1>1, <1>3, IngestInvariant, PTL DEF Spec, ImplementsArchive, Archive!Spec

=================================================================================
