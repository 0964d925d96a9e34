--------------------------- MODULE SnapshotIngestInv ---------------------------
(***************************************************************************)
(* The inductive invariant of SnapshotIngest, in named parts.  TLC checks  *)
(* it on the instances, SnapshotIngestProofs proves it.                    *)
(***************************************************************************)
EXTENDS SnapshotIngest

Copying == {"read_artifact", "put_artifact"}
Copied == {"read_fragment", "put_fragment"}
Recorded == {"read_index", "read_etag", "list", "cas", "reply", "ok"}

(* From the first answer to the last, a request works on the release it    *)
(* read, and it copies as long as there is a file to do.                   *)
Captured(j) ==
    /\ j.phase \in {"idle", "fetch"} => j.release = NoRelease
    /\ j.phase \in Copying \cup Copied \cup Recorded =>
          j.release \in Candidates /\ j.release.public /\ j.release.defect # "manifest"
    /\ j.phase \in Copying => j.todo # {}

CapturedInv == \A r \in Requests : Captured(job[r])

(* File `x` of a release was verified and, if it is an archive, mirrored.  *)
Delivered(release, x) ==
    /\ release.content[x.name] = x.sha256
    /\ IsPrimary(x) => ArtifactOf(release, x) \in artifacts

(* The copy of a release is complete up to the files still to do; after it *)
(* the whole release is mirrored, and then recorded.                       *)
CopyOf(j) ==
    /\ j.phase \in Copying => \A x \in j.release.files \ j.todo : Delivered(j.release, x)
    /\ j.phase = "put_artifact" =>
          LET file == FirstFile(j.todo) IN j.release.content[file.name] = file.sha256
    /\ j.phase \in Copied \cup Recorded => \A x \in j.release.files : Delivered(j.release, x)
    /\ j.phase \in {"put_fragment"} \cup Recorded => j.release.defect = "none"
    /\ j.phase \in Recorded => FragmentOf(j.release) \in fragments

CopyInv == \A r \in Requests : CopyOf(job[r])

(* A recorded fragment is that of one release, verified and mirrored by a  *)
(* request.                                                                *)
Backed(f, c) ==
    /\ c \in Candidates /\ c.public /\ c.defect = "none"
    /\ FragmentOf(c) = f
    /\ \A x \in c.files : Delivered(c, x)

FragmentInv == \A f \in fragments : \E r \in Requests : Backed(f, job[r].release)

(* The snapshots that are or were in the index while some request still    *)
(* relies on it: the index now, bodies in use, and accepted snapshots.     *)
SeenBy(r) == IF job[r].phase \in {"read_etag", "list"} THEN job[r].seen.snapshots ELSE {}
AcceptedFrom(r) == IF job[r].phase \in {"reply", "ok"} THEN {Mine(r)} ELSE {}

Settled == index.body.snapshots \cup UNION {SeenBy(r) \cup AcceptedFrom(r) : r \in Requests}

(* Entity tags only grow, so that an index a request has not seen has one  *)
(* it does not hold.                                                       *)
EtagInv ==
    /\ index.etag <= issued
    /\ \A r \in Requests : job[r].etag <= issued

(* A request that holds the entity tag of the current index has listed     *)
(* every settled snapshot up to its cursor, and in the end all of them.    *)
Listing(r) ==
    /\ In(r, "read_etag") => job[r].cursor = 0 /\ job[r].listed = {}
    /\ job[r].phase \in {"list", "cas"} => job[r].listed \subseteq fragments
    /\ In(r, "list") /\ job[r].etag = index.etag =>
          \A f \in Settled : f.tag <= job[r].cursor => f \in job[r].listed
    /\ In(r, "cas") => Mine(r) \in job[r].listed
    /\ In(r, "cas") /\ job[r].etag = index.etag => Settled \subseteq job[r].listed

ListingInv == \A r \in Requests : Listing(r)

SettledInv ==
    /\ Settled \subseteq fragments
    /\ ~damaged => Settled \subseteq index.body.snapshots

IngestInv ==
    /\ TypeOK
    /\ CapturedInv
    /\ CopyInv
    /\ FragmentInv
    /\ EtagInv
    /\ ListingInv
    /\ SettledInv

(* No tag is recorded twice, and what the index lists as latest follows    *)
(* from its snapshots, unless the list was lost.                           *)
UniqueTags(recorded) == \A f, g \in recorded : f.tag = g.tag => f = g

LatestInv == UniqueTags(fragments) /\ index.body.latest \subseteq Latest(index.body.snapshots)

(* The requests that have written the index are among those that have      *)
(* nothing more to write.                                                  *)
Done == {r \in Requests : job[r].phase \in {"reply", "ok", "failed"}}

(* As long as nothing but the service writes the index, a request has lost *)
(* at most as many rounds as the index had been written when its round     *)
(* began, each time by another request.                                    *)
RoundInv ==
    /\ index.etag = issued
    /\ issued <= Cardinality(Done)
    /\ \A r \in Requests :
         /\ job[r].tries <= issued
         /\ job[r].phase \in {"list", "cas"} => job[r].tries <= job[r].etag

================================================================================
