--------------------------- MODULE MCReadinessGate ---------------------------
(* Small instances of ReadinessGate.                                       *)
EXTENDS ReadinessGate, TLC

Symmetry == Permutations(Shas)

Budget(push, rerun, toggle, failure) ==
    [push |-> push, rerun |-> rerun, toggle |-> toggle, failure |-> failure]

(* The head moves while a workflow is rerun; a head that stays meets all   *)
(* the rest.                                                               *)
PushOrNot == {Budget(1, 1, 0, 0), Budget(0, 2, 1, 1)}

PushAndRerun == {Budget(1, 1, 0, 0)}

===============================================================================
