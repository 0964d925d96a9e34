----------------------------- MODULE MCHookSync -----------------------------
(* Small instances of HookSync.                                            *)
EXTENDS HookSync

CONSTANTS r1, r2

Budget(edit, meddle, crash, failure) ==
    [edit |-> edit, meddle |-> meddle, crash |-> crash, failure |-> failure]

Plan(runs, bounds) == [runs |-> runs, budget |-> bounds]

(* One run meets all that may happen between and during its commands; two  *)
(* overlap, over what users have left or with users among them.            *)
OneOrTwo ==
    {Plan({r1}, Budget(2, 0, 1, 1)),
     Plan({r1}, Budget(1, 1, 1, 1)),
     Plan({r1, r2}, Budget(1, 0, 1, 1)),
     Plan({r1, r2}, Budget(0, 1, 0, 1))}

=============================================================================
