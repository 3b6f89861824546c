----------------------------- MODULE MCAiClient -----------------------------
(***************************************************************************)
(* A small instance of AiClient: three by three grids of side 2, and       *)
(* robots that move by at most one.                                        *)
(***************************************************************************)
EXTENDS AiClientInvariant

Spawns == {[X |-> 3, Z |-> 3], [X |-> 4, Z |-> 2]}
=============================================================================
