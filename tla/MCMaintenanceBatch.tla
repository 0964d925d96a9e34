------------------------- MODULE MCMaintenanceBatch -------------------------
(* Small instances of MaintenanceBatch: a server with two major versions,  *)
(* which pins two libraries that happen to have versions of the same name. *)
EXTENDS MaintenanceBatch

MCPackages == {"server", "lib", "tool"}

MCOffers == [p \in MCPackages |->
    CASE p = "server" -> {{141, 151}, {142, 151}, {142, 152}, {152}}
      [] p = "lib" -> {{11}, {12}, {13}, {21}}
      [] p = "tool" -> {{11}, {13}}]

MCFirst == [p \in MCPackages |-> IF p = "server" THEN {141, 151} ELSE {11}]

MCPins == {<<"server", "lib">>, <<"server", "tool">>}

=============================================================================
