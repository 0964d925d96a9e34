--------------------------- MODULE MCReleaseListing ---------------------------
(* Small instances of ReleaseListing.                                      *)
EXTENDS ReleaseListing

(* Six releases in any order, one more than the limit, and three.          *)
MCInitial == UNION {{f \in [1 .. n -> 1 .. 6] : IsInjective(f)} : n \in {3, 6}}

===============================================================================
