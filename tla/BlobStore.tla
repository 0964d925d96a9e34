------------------------------ MODULE BlobStore ------------------------------
(***************************************************************************)
(* The Vercel Blob bucket behind the publication service, and the calls of *)
(* blob.py on it.  The bucket itself is external: it is modelled by the    *)
(* answers the adapter relies on.  Every operator here stands for ONE      *)
(* request; a method that makes several (get reads the body, then the      *)
(* metadata; put_immutable reads, then writes) is several steps of its     *)
(* caller.                                                                 *)
(***************************************************************************)
EXTENDS IndexProjection

VARIABLES
    artifacts,  \* blobs under releases/<tag>/<name>
    fragments,  \* blobs under snapshots/<tag>.json
    index,      \* the blob index.json with its entity tag
    issued      \* the last entity tag the bucket gave out

storeVars == <<artifacts, fragments, index, issued>>

Artifact == [tag : Tags, name : Names, sha256 : Digests]

(* No index.json: the entity tag 0 is never issued.                        *)
NoIndex == [etag |-> 0, body |-> ProjectIndex({})]

StoreTypeOK ==
    /\ artifacts \subseteq Artifact
    /\ fragments \subseteq Fragment
    /\ index \in [etag : Nat, body : IndexBody]
    /\ issued \in Nat

StoreInit ==
    /\ artifacts = {}
    /\ fragments = {}
    /\ index = NoIndex
    /\ issued = 0

IndexExists == index.etag # 0

(* What is stored under an immutable path: nothing, or one content.        *)
ArtifactAt(tag, name) == {a \in artifacts : a.tag = tag /\ a.name = name}
FragmentAt(tag) == {f \in fragments : f.tag = tag}

(* PUT with x-allow-overwrite: 0 on a path that holds `existing`: a path   *)
(* that is taken keeps its content.                                        *)
CreateOnly(blobs, existing, content) ==
    IF existing = {} THEN blobs \cup {content} ELSE blobs

(* Mutant: index.json is overwritten whatever it holds.                    *)
UnmodifiedAlways(etag) == TRUE

(* PUT of index.json with x-if-match (a held entity tag), or without       *)
(* overwriting (no entity tag): both succeed exactly when the index is     *)
(* still what the caller read.                                             *)
Unmodified(etag) == index.etag = etag

WriteIndex(body) ==
    /\ issued' = issued + 1
    /\ index' = [etag |-> issued + 1, body |-> body]
    /\ UNCHANGED <<artifacts, fragments>>

(* One page of the listing of snapshots/, after `cursor`: the bucket       *)
(* chooses where the page ends, and has more pages exactly when it holds a *)
(* fragment beyond that.                                                   *)
PageEnds(cursor) ==
    LET beyond == {f.tag : f \in {g \in fragments : g.tag > cursor}}
    IN  IF beyond = {} THEN {cursor} ELSE beyond

Page(cursor, end) == {f \in fragments : f.tag > cursor /\ f.tag <= end}
HasMore(end) == \E f \in fragments : f.tag > end

==============================================================================
