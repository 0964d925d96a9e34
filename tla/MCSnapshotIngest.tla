--------------------------- MODULE MCSnapshotIngest ---------------------------
(* Small instances of SnapshotIngest.                                      *)
EXTENDS SnapshotIngestInv, TLC

CONSTANTS r1, r2, r3, pg17, pg18, good, other

Three == {r1, r2, r3}

Symmetry == Permutations(Requests)

Primary(name, coordinate, digest) ==
    [name |-> name, coordinate |-> coordinate, role |-> "primary-archive", sha256 |-> digest]

Dbgsym(name, coordinate, digest) ==
    [name |-> name, coordinate |-> coordinate, role |-> "dbgsym", sha256 |-> digest]

Bytes(digest) == [name \in Names |-> digest]

Published(tag, time, files) ==
    [tag |-> tag, public |-> TRUE, defect |-> "none", published_at |-> time,
     files |-> files, content |-> Bytes(good)]

(* What a coordinate makes public: an archive and its debug symbols, which *)
(* come first in name order.                                               *)
Pair(name, coordinate, digest) ==
    {Dbgsym(name, coordinate, digest), Primary(name + 1, coordinate, digest)}

(* Valid releases of the same coordinate; publication time and tag order   *)
(* them differently.                                                       *)
Build(tag, time) == Published(tag, time, Pair(1, pg17, good))
TwoBuilds == {Build(1, 2), Build(2, 1)}

(* The same without debug symbols.                                         *)
TwoSolo == {[b EXCEPT !.files = {Primary(1, pg17, good)}] : b \in TwoBuilds}

(* A release of two coordinates, its replacement under the same tag, and   *)
(* releases that must not get through: damaged files, still a draft, an    *)
(* invalid manifest, an invalid fragment.                                  *)
Full == Published(1, 1, Pair(1, pg17, good) \cup Pair(3, pg18, good))
Rebuilt == [Published(1, 2, Pair(1, pg17, other)) EXCEPT !.content = Bytes(other)]
DamagedDbgsym == [Full EXCEPT !.published_at = 2, !.content[1] = other]
Damaged == [Full EXCEPT !.published_at = 2, !.content[4] = other]
Draft == [Full EXCEPT !.public = FALSE]
Malformed == [Full EXCEPT !.defect = "manifest"]
Misdated == [Full EXCEPT !.defect = "fragment"]
Replaced == {Build(2, 1), Full, Rebuilt, Damaged, DamagedDbgsym, Draft, Malformed, Misdated}

===============================================================================
