------------------------------ MODULE MCWorld ------------------------------
(***************************************************************************)
(* Small instances of World: grids of side 2, in one or two rows.          *)
(***************************************************************************)
EXTENDS OneLoopInvariant, MeetingInvariant, TLC

At(x, z) == [X |-> x, Z |-> z]

\* One grid: everyone always sees everyone.
OneGrid == {At(0, 0), At(1, 1)}
\* Two grids next to each other.
TwoGrids == {At(0, 0), At(2, 1)}
\* Grids in both rows: two that touch at a corner and one far from the first.
Diagonal == {At(0, 0), At(2, 3)}
TwoRows == {At(0, 0), At(2, 3), At(7, 2)}
\* The ends of a strip of three grids, out of each other's sight.
EndGrids == {At(0, 0), At(4, 0)}
Corner == {At(0, 0)}

ThreadSymmetry == Permutations(IoThreads)
=============================================================================
