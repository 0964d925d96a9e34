---------------------------- MODULE SnapshotIngest ----------------------------
(***************************************************************************)
(* POST /api/publication: ingestion of a published GitHub release into the *)
(* public index (main.py publish_release, publication.py                   *)
(* fetch_valid_snapshot and materialize, over the adapter of blob.py).     *)
(*                                                                         *)
(* Requests run concurrently and share nothing but the bucket.  A step is  *)
(* one answered HTTP request together with the local work up to the next   *)
(* one, so that other requests, a crash or a timeout fall between any two  *)
(* of them.                                                                *)
(***************************************************************************)
EXTENDS BlobStore, FiniteSets

CONSTANTS
    Requests,      \* ingestion requests, each served once
    Candidates,    \* the states a GitHub release may be put in
    Attempts,      \* rounds of the compare-and-swap loop (8 in the code)
    Faults,        \* which of FaultKinds the environment may produce
    MaxIncidents,  \* bound on the damage done to index.json from outside
    NoRelease      \* no release read yet

FaultKinds == {"abort", "delete", "corrupt", "rollback"}

(* A release as the service reads it.  `public` covers the guards on name, *)
(* draft and prerelease; `defect` says which later validation it fails;    *)
(* `content` is the digest of the bytes each asset really has.             *)
Release == [tag : Tags, public : BOOLEAN, defect : {"none", "manifest", "fragment"},
            published_at : Times, files : SUBSET File, content : [Names -> Digests]]

ASSUME IngestAssumption ==
    /\ Candidates \subseteq Release
    /\ NoRelease \notin Candidates
    /\ Attempts \in Nat \ {0}
    /\ MaxIncidents \in Nat
    /\ Faults \subseteq FaultKinds

VARIABLES
    releases,   \* the releases GitHub shows, at most one per tag
    job,        \* the local state of each request
    damaged,    \* index.json was altered from outside and not rewritten since
    incidents   \* how often that happened

vars == <<storeVars, releases, job, damaged, incidents>>

Answers == {"ok", "ignored", "rejected", "exhausted", "failed"}

InProgress == {"fetch", "read_artifact", "put_artifact", "read_fragment", "put_fragment",
               "read_index", "read_etag", "list", "cas", "reply"}

Phases == {"idle"} \cup InProgress \cup Answers

Job == [phase : Phases,
        tag : Tags \cup {0},
        release : Candidates \cup {NoRelease},
        todo : SUBSET File,             \* public files not yet verified
        tries : Nat,                    \* rounds of the loop already lost
        seen : IndexBody,               \* the index body read in this round
        etag : Nat,                     \* the entity tag read in this round
        cursor : Nat,                   \* the end of the last listed page
        listed : SUBSET Fragment]       \* the fragments to project

(* Every variable of the service and of the bucket has its type.           *)
TypeOK ==
    /\ StoreTypeOK
    /\ releases \subseteq Candidates
    /\ job \in [Requests -> Job]
    /\ damaged \in BOOLEAN
    /\ incidents \in Nat

NewJob ==
    [phase |-> "idle", tag |-> 0, release |-> NoRelease, todo |-> {}, tries |-> 0,
     seen |-> NoIndex.body, etag |-> 0, cursor |-> 0, listed |-> {}]

Init ==
    /\ StoreInit
    /\ releases = {}
    /\ job = [r \in Requests |-> NewJob]
    /\ damaged = FALSE
    /\ incidents = 0

-------------------------------------------------------------------------------
(* Local helpers                                                           *)

Become(r, next) == job' = [job EXCEPT ![r] = next]
In(r, phase) == job[r].phase = phase
Goto(r, phase) == [job[r] EXCEPT !.phase = phase]

(* The work is over, its local variables are gone.                         *)
Finish(r, phase) ==
    [NewJob EXCEPT !.phase = phase, !.tag = job[r].tag, !.release = job[r].release]

IsPrimary(file) == file.role = "primary-archive"

(* The fragment a release is recorded as.                                  *)
FragmentOf(release) ==
    [tag |-> release.tag, published_at |-> release.published_at, successful |-> release.files]

Mine(r) == FragmentOf(job[r].release)

ArtifactOf(release, file) ==
    [tag |-> release.tag, name |-> file.name, sha256 |-> release.content[file.name]]

FirstFile(files) == CHOOSE file \in files : \A other \in files : file.name <= other.name

(* The walk over the public files goes on with `rest`.                     *)
Walk(r, rest) ==
    [job[r] EXCEPT !.phase = IF rest = {} THEN "read_fragment" ELSE "read_artifact",
                   !.todo = rest]

-------------------------------------------------------------------------------
(* GitHub                                                                  *)

(* A release is published, or replaced by another one of the same tag.     *)
PublishRelease(release) ==
    /\ release \notin releases
    /\ releases' = {other \in releases : other.tag # release.tag} \cup {release}
    /\ UNCHANGED <<storeVars, job, damaged, incidents>>

-------------------------------------------------------------------------------
(* The request                                                             *)

(* An authorised request for the policy's repository arrives.              *)
Start(r) ==
    /\ In(r, "idle")
    /\ \E tag \in Tags : Become(r, [Goto(r, "fetch") EXCEPT !.tag = tag])
    /\ UNCHANGED <<storeVars, releases, damaged, incidents>>

(* The release, its manifest and SHA256SUMS are read and validated.  Asset *)
(* identifiers are fixed by the first answer, so later reads see the same  *)
(* release even if it is replaced meanwhile.                               *)
FetchRelease(r) ==
    /\ In(r, "fetch")
    /\ LET published == {c \in releases : c.tag = job[r].tag /\ c.public}
       IN  \/ /\ published = {}
              /\ Become(r, Finish(r, "ignored"))
           \/ \E c \in published :
                /\ c.defect = "manifest"
                /\ Become(r, Finish(r, "rejected"))
           \/ \E c \in published :
                /\ c.defect # "manifest"
                /\ Become(r, [Walk(r, c.files) EXCEPT !.release = c])
    /\ UNCHANGED <<storeVars, releases, damaged, incidents>>

(* Mutant: only the archives that are copied are verified.                 *)
ReadArtifactSkipsDbgsym(r) ==
    /\ In(r, "read_artifact")
    /\ LET file == FirstFile(job[r].todo)
           mine == ArtifactOf(job[r].release, file)
           existing == ArtifactAt(mine.tag, mine.name)
       IN  Become(r, IF ~IsPrimary(file) THEN Walk(r, job[r].todo \ {file})
                     ELSE IF mine.sha256 # file.sha256 \/ existing \notin {{}, {mine}}
                     THEN Finish(r, "rejected")
                     ELSE IF existing = {} THEN Goto(r, "put_artifact")
                     ELSE Walk(r, job[r].todo \ {file}))
    /\ UNCHANGED <<storeVars, releases, damaged, incidents>>

(* The next public file is downloaded and verified; a primary archive is   *)
(* looked up in the bucket before it is written.                           *)
ReadArtifact(r) ==
    /\ In(r, "read_artifact")
    /\ LET file == FirstFile(job[r].todo)
           mine == ArtifactOf(job[r].release, file)
           existing == ArtifactAt(mine.tag, mine.name)
           rest == job[r].todo \ {file}
       IN  \/ /\ mine.sha256 # file.sha256
              /\ Become(r, Finish(r, "rejected"))
           \/ /\ mine.sha256 = file.sha256
              /\ ~IsPrimary(file) \/ existing = {mine}
              /\ Become(r, Walk(r, rest))
           \/ /\ mine.sha256 = file.sha256
              /\ IsPrimary(file) /\ existing = {}
              /\ Become(r, Goto(r, "put_artifact"))
           \/ /\ mine.sha256 = file.sha256
              /\ IsPrimary(file) /\ existing \notin {{}, {mine}}
              /\ Become(r, Finish(r, "rejected"))
    /\ UNCHANGED <<storeVars, releases, damaged, incidents>>

(* Mutant: a refused write is taken for a success.                         *)
PutArtifactUnchecked(r) ==
    /\ In(r, "put_artifact")
    /\ LET file == FirstFile(job[r].todo)
           mine == ArtifactOf(job[r].release, file)
       IN  /\ artifacts' = CreateOnly(artifacts, ArtifactAt(mine.tag, mine.name), mine)
           /\ Become(r, Walk(r, job[r].todo \ {file}))
    /\ UNCHANGED <<fragments, index, issued, releases, damaged, incidents>>

(* The archive is written unless the path was taken since it was read; a   *)
(* refused write is read back and stands if the content is the same.       *)
PutArtifact(r) ==
    /\ In(r, "put_artifact")
    /\ LET file == FirstFile(job[r].todo)
           mine == ArtifactOf(job[r].release, file)
           existing == ArtifactAt(mine.tag, mine.name)
       IN  /\ artifacts' = CreateOnly(artifacts, existing, mine)
           /\ Become(r, IF existing \in {{}, {mine}} THEN Walk(r, job[r].todo \ {file})
                                                     ELSE Finish(r, "failed"))
    /\ UNCHANGED <<fragments, index, issued, releases, damaged, incidents>>

(* Mutants: the fragment is not stored before it is indexed; a fragment    *)
(* that is there already is a conflict.                                    *)
ReadFragmentOnly(r) ==
    /\ In(r, "read_fragment")
    /\ Become(r, IF job[r].release.defect = "fragment" \/ FragmentAt(Mine(r).tag) \notin {{}, {Mine(r)}}
                 THEN Finish(r, "rejected") ELSE Goto(r, "read_index"))
    /\ UNCHANGED <<storeVars, releases, damaged, incidents>>
ReadFragmentOnce(r) ==
    /\ In(r, "read_fragment")
    /\ Become(r, IF job[r].release.defect = "fragment" \/ FragmentAt(Mine(r).tag) # {}
                 THEN Finish(r, "rejected") ELSE Goto(r, "put_fragment"))
    /\ UNCHANGED <<storeVars, releases, damaged, incidents>>

(* materialize: the fragment is validated and looked up.                   *)
ReadFragment(r) ==
    /\ In(r, "read_fragment")
    /\ LET existing == FragmentAt(Mine(r).tag)
       IN  \/ /\ \/ job[r].release.defect = "fragment"
                 \/ existing \notin {{}, {Mine(r)}}
              /\ Become(r, Finish(r, "rejected"))
           \/ /\ job[r].release.defect # "fragment"
              /\ existing = {}
              /\ Become(r, Goto(r, "put_fragment"))
           \/ /\ job[r].release.defect # "fragment"
              /\ existing = {Mine(r)}
              /\ Become(r, Goto(r, "read_index"))
    /\ UNCHANGED <<storeVars, releases, damaged, incidents>>

PutFragment(r) ==
    /\ In(r, "put_fragment")
    /\ LET existing == FragmentAt(Mine(r).tag)
       IN  /\ fragments' = CreateOnly(fragments, existing, Mine(r))
           /\ Become(r, IF existing \in {{}, {Mine(r)}} THEN Goto(r, "read_index")
                                                       ELSE Finish(r, "failed"))
    /\ UNCHANGED <<artifacts, index, issued, releases, damaged, incidents>>

(* A round of the loop begins with the body of index.json; a missing index *)
(* needs no entity tag.                                                    *)
ReadIndex(r) ==
    /\ In(r, "read_index")
    /\ Become(r, [job[r] EXCEPT !.phase = IF IndexExists THEN "read_etag" ELSE "list",
                                !.seen = index.body,
                                !.etag = 0,
                                !.cursor = 0,
                                !.listed = {}])
    /\ UNCHANGED <<storeVars, releases, damaged, incidents>>

(* The entity tag is another request, which may find another index than    *)
(* the body did, or none; then the body is validated.                      *)
ReadEtag(r) ==
    /\ In(r, "read_etag")
    /\ \/ /\ ~IndexExists
          /\ Become(r, Finish(r, "failed"))
       \/ /\ IndexExists
          /\ ~ValidateIndex(job[r].seen)
          /\ Become(r, Finish(r, "rejected"))
       \/ /\ IndexExists
          /\ ValidateIndex(job[r].seen)
          /\ Become(r, [Goto(r, "list") EXCEPT !.etag = index.etag])
    /\ UNCHANGED <<storeVars, releases, damaged, incidents>>

(* The listing done, the request's own fragment joins it and the new index *)
(* is compared with the one that was read.                                 *)
Merged(r, all) ==
    {f \in all : f.tag # Mine(r).tag} \cup {Mine(r)}

AfterListing(r, all) ==
    IF \E f \in all : f.tag = Mine(r).tag /\ f # Mine(r)
    THEN Finish(r, "rejected")
    ELSE IF job[r].etag # 0 /\ job[r].seen = ProjectIndex(Merged(r, all))
         THEN Finish(r, "reply")
         ELSE [Goto(r, "cas") EXCEPT !.seen = NoIndex.body, !.cursor = 0,
                                     !.listed = Merged(r, all)]

ListFragments(r) ==
    /\ In(r, "list")
    /\ \E end \in PageEnds(job[r].cursor) :
         LET all == job[r].listed \cup Page(job[r].cursor, end)
         IN  \/ /\ HasMore(end)
                /\ Become(r, [job[r] EXCEPT !.cursor = end, !.listed = all])
             \/ /\ ~HasMore(end)
                /\ Become(r, AfterListing(r, all))
    /\ UNCHANGED <<storeVars, releases, damaged, incidents>>

(* Mutants: the loop is one round short; a lost round only fetches the new *)
(* entity tag; it counts as somebody's success; the write is repeated as   *)
(* it is until it succeeds.                                                *)
NextRoundOffByOne(r, lost) ==
    IF lost + 1 < Attempts THEN [Goto(r, "read_index") EXCEPT !.tries = lost]
                           ELSE Finish(r, "exhausted")
NextRoundKeepsListing(r, lost) ==
    IF lost < Attempts THEN [Goto(r, "cas") EXCEPT !.tries = lost, !.etag = index.etag]
                       ELSE Finish(r, "exhausted")
NextRoundGivesUp(r, lost) == Finish(r, "reply")
NextRoundInsists(r, lost) == Goto(r, "cas")

NextRound(r, lost) ==
    IF lost < Attempts THEN [Goto(r, "read_index") EXCEPT !.tries = lost]
                       ELSE Finish(r, "exhausted")

(* The conditional write; a lost round (409 or 412) is tried again.        *)
PutIndex(r) ==
    /\ In(r, "cas")
    /\ \/ /\ Unmodified(job[r].etag)
          /\ WriteIndex(ProjectIndex(job[r].listed))
          /\ damaged' = FALSE
          /\ Become(r, Finish(r, "reply"))
       \/ /\ ~Unmodified(job[r].etag)
          /\ UNCHANGED <<storeVars, damaged>>
          /\ Become(r, NextRound(r, job[r].tries + 1))
    /\ UNCHANGED <<releases, incidents>>

Reply(r) ==
    /\ In(r, "reply")
    /\ Become(r, Finish(r, "ok"))
    /\ UNCHANGED <<storeVars, releases, damaged, incidents>>

-------------------------------------------------------------------------------
(* Faults                                                                  *)

(* A request ends early: a timeout, an error status, a lost answer to a    *)
(* write that was done, or the function instance dies.                     *)
Abort(r) ==
    /\ "abort" \in Faults
    /\ job[r].phase \in InProgress
    /\ Become(r, Finish(r, "failed"))
    /\ UNCHANGED <<storeVars, releases, damaged, incidents>>

(* index.json is altered by something else than the service.               *)
Incident(kind) ==
    /\ kind \in Faults
    /\ incidents < MaxIncidents
    /\ IndexExists
    /\ incidents' = incidents + 1
    /\ damaged' = TRUE
    /\ UNCHANGED <<artifacts, fragments, releases, job>>

(* An operator removes it while no request is about to create it.          *)
DeleteIndex ==
    /\ Incident("delete")
    /\ ~\E r \in Requests : job[r].phase \in {"list", "cas"} /\ job[r].etag = 0
    /\ index' = NoIndex
    /\ UNCHANGED issued

(* Its `latest` list no longer follows from its snapshots.                 *)
CorruptIndex ==
    /\ Incident("corrupt")
    /\ index' = [etag |-> issued + 1, body |-> [index.body EXCEPT !.latest = {}]]
    /\ issued' = issued + 1

(* An earlier, shorter index is put back.                                  *)
RollBackIndex ==
    /\ Incident("rollback")
    /\ \E kept \in (SUBSET index.body.snapshots) \ {index.body.snapshots} :
          index' = [etag |-> issued + 1, body |-> ProjectIndex(kept)]
    /\ issued' = issued + 1

-------------------------------------------------------------------------------
Step(r) ==
    \/ FetchRelease(r)
    \/ ReadArtifact(r)
    \/ PutArtifact(r)
    \/ ReadFragment(r)
    \/ PutFragment(r)
    \/ ReadIndex(r)
    \/ ReadEtag(r)
    \/ ListFragments(r)
    \/ PutIndex(r)
    \/ Reply(r)

Next ==
    \/ \E release \in Candidates : PublishRelease(release)
    \/ \E r \in Requests : Start(r) \/ Step(r) \/ Abort(r)
    \/ DeleteIndex
    \/ CorruptIndex
    \/ RollBackIndex

Spec == Init /\ [][Next]_vars

(* Every HTTP request has a timeout, so a request that runs goes on.       *)
Fairness == \A r \in Requests : WF_vars(Step(r))

FairSpec == Spec /\ Fairness

-------------------------------------------------------------------------------
(* Safety                                                                  *)

Advertised(f) == {[tag |-> f.tag, name |-> x.name, sha256 |-> x.sha256] :
                     x \in {y \in f.successful : IsPrimary(y)}}

(* The fallback URL of every archive the index advertises leads to a blob  *)
(* with the advertised digest, whatever crashed and whatever release was   *)
(* replaced while it was being copied.                                     *)
AdvertisedIsMirrored ==
    \A f \in index.body.snapshots : Advertised(f) \subseteq artifacts

(* What the index shows was verified file by file: it is the fragment of   *)
(* one version of its release that a request read, all bytes of which      *)
(* matched the manifest, also when the release was replaced meanwhile.     *)
IndexedWasVerified ==
    \A f \in index.body.snapshots :
        \E r \in Requests :
            /\ job[r].release \in Candidates /\ Mine(r) = f
            /\ job[r].release.public /\ job[r].release.defect = "none"
            /\ \A file \in f.successful : job[r].release.content[file.name] = file.sha256

(* The index never knows more than the fragments it can be rebuilt from.   *)
IndexIsRebuildable == index.body.snapshots \subseteq fragments

(* A snapshot whose ingestion was answered with 200 is in the index from   *)
(* then on, concurrent rebuilds and later ones included; damage done to    *)
(* the index lasts at most until the next write of the service (which, for *)
(* an index that does not validate, has to wait until it is removed).      *)
AcceptedIsIndexed ==
    ~damaged => \A r \in Requests : In(r, "ok") => Mine(r) \in index.body.snapshots

Commits(r) == In(r, "cas") /\ index' # index /\ job'[r] # job[r]

(* A write of the index never drops a snapshot the index it replaces had,  *)
(* although the body, the entity tag and the pages of the listing it was   *)
(* computed from were read at different times.                             *)
IndexNeverLoses ==
    [][\A r \in Requests : Commits(r) => index.body.snapshots \subseteq index'.body.snapshots]_vars

ListedAsLatest(body, f) == {entry.coordinate : entry \in {e \in body.latest : e.tag = f.tag}}

(* Nor does it make `latest` of a coordinate an older build.               *)
LatestNeverGoesBack ==
    [][\A r \in Requests : Commits(r) =>
        \A f \in index.body.snapshots, g \in index'.body.snapshots :
            ListedAsLatest(index.body, f) \cap ListedAsLatest(index'.body, g) # {}
            => ~Newer(f, g)]_vars

(* The loop has enough rounds for as many requests as Attempts: each of    *)
(* the others makes a round fail at most once.                             *)
NoSpuriousExhaustion ==
    Cardinality(Requests) <= Attempts => \A r \in Requests : ~In(r, "exhausted")

-------------------------------------------------------------------------------
(* As long as nothing but the service writes the index, ingestion is an    *)
(* archive of snapshots: see SnapshotArchive.                              *)

Accepted == {Mine(r) : r \in {q \in Requests : In(q, "ok")}}

Archive == INSTANCE SnapshotArchive WITH
    Snapshots <- Fragment, recorded <- fragments,
    published <- index.body.snapshots, accepted <- Accepted

(* Every step of the concurrent requests records one snapshot, publishes a *)
(* larger inventory of recorded ones, accepts a published one, or changes  *)
(* nothing that the archive shows (materialize, ingest_publication).       *)
ImplementsArchive == Archive!Spec

-------------------------------------------------------------------------------
(* Liveness                                                                *)

(* Every request is answered: no listing, copy or loop goes on for ever.   *)
EveryRequestIsAnswered ==
    \A r \in Requests : job[r].phase \in InProgress ~> job[r].phase \in Answers

(* A valid release that is asked for ends up in the index even if earlier  *)
(* requests for it died half-way, unless this request dies as well.        *)
ValidReleaseIsIndexed ==
    \A r \in Requests, c \in Candidates :
        In(r, "fetch") /\ job[r].tag = c.tag /\ c \in releases
            ~> FragmentOf(c) \in index.body.snapshots \/ In(r, "failed")

===============================================================================
