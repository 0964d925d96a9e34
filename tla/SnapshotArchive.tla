--------------------------- MODULE SnapshotArchive ---------------------------
(***************************************************************************)
(* What the publication service promises, without saying how: an archive   *)
(* of snapshots.  A snapshot is first recorded for good, one per release   *)
(* tag; the published inventory only grows, out of recorded snapshots; and *)
(* a publisher is told that its snapshot was accepted only once the        *)
(* inventory shows it.                                                     *)
(***************************************************************************)
EXTENDS Naturals

CONSTANT Snapshots  \* records with a field `tag`

VARIABLES
    recorded,   \* immutable fragments, the source of every rebuild
    published,  \* the snapshots the public index shows
    accepted    \* the snapshots whose publisher got a success answer

vars == <<recorded, published, accepted>>

Init ==
    /\ recorded = {}
    /\ published = {}
    /\ accepted = {}

Record(snapshot) ==
    /\ \A other \in recorded : other.tag # snapshot.tag
    /\ recorded' = recorded \cup {snapshot}
    /\ UNCHANGED <<published, accepted>>

(* One write of the inventory may bring in what others recorded meanwhile. *)
Publish(inventory) ==
    /\ published \subseteq inventory
    /\ inventory \subseteq recorded
    /\ published' = inventory
    /\ UNCHANGED <<recorded, accepted>>

Accept(snapshot) ==
    /\ snapshot \in published
    /\ accepted' = accepted \cup {snapshot}
    /\ UNCHANGED <<recorded, published>>

Next ==
    \/ \E snapshot \in recorded' : Record(snapshot)
    \/ Publish(published')
    \/ \E snapshot \in published : Accept(snapshot)

Spec == Init /\ [][Next]_vars

==============================================================================
