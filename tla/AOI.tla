-------------------------------- MODULE AOI --------------------------------
(***************************************************************************)
(* The area-of-interest map of the MMO server: class AOI_Manager and the   *)
(* part of Player::HandleCrossedGrid that compares two neighbourhoods.     *)
(*                                                                         *)
(* A grid is named by its place <<row, col>> in worldMap_.  A position     *)
(* keeps the two coordinates the map looks at, X (length) and Z (width);   *)
(* the height and the view angle are never read by the map.  The vectors   *)
(* of grids the code builds hold no grid twice and are used as sets.       *)
(***************************************************************************)
EXTENDS Integers

CONSTANTS
  WorldLength,   \* world_length: extent along X
  WorldWidth,    \* world_width:  extent along Z
  CellSize       \* cell_size:    side of a grid

ASSUME WorldAssumption ==
  /\ CellSize \in Nat \ {0}
  /\ WorldLength \in Nat
  /\ WorldWidth \in Nat

Coordinates == [X : Int, Z : Int]

\* static_cast<int>(a / b) rounds towards zero, for a negative a as well.
TruncatedDiv(a, b) == IF a >= 0 THEN a \div b ELSE -((-a) \div b)

countX == WorldLength \div CellSize
countY == WorldWidth \div CellSize

GetColumnIndex(p) == TruncatedDiv(p.X, CellSize)
GetRowIndex(p)    == TruncatedDiv(p.Z, CellSize)

\* Mutant: the bounds are taken as inclusive.
IsValidGridInclusive(row, col) == row \in 0 .. countY /\ col \in 0 .. countX

IsValidGrid(row, col) == row \in 0 .. countY - 1 /\ col \in 0 .. countX - 1

\* worldMap_: every grid the constructor allocates.
Grids == (0 .. countY - 1) \X (0 .. countX - 1)

GetGridByPosition(p) == <<GetRowIndex(p), GetColumnIndex(p)>>

\* The condition GetGridByPosition asserts.
OnMap(p) == IsValidGrid(GetRowIndex(p), GetColumnIndex(p))

\* Mutant: the loops start at 0 instead of -1.
HalfSudoku(p) ==
  {g \in {<<GetRowIndex(p) + x, GetColumnIndex(p) + y>> : x, y \in 0 .. 1} :
     IsValidGrid(g[1], g[2])}

\* Mutant: the centre is left out.
SudokuWithoutCentre(p) ==
  {g \in {<<GetRowIndex(p) + x, GetColumnIndex(p) + y>> : x, y \in -1 .. 1} :
     IsValidGrid(g[1], g[2]) /\ g # GetGridByPosition(p)}

\* The grid of p and the up to eight grids around it.
GetSudokuByPosition(p) ==
  {g \in {<<GetRowIndex(p) + x, GetColumnIndex(p) + y>> : x, y \in -1 .. 1} :
     IsValidGrid(g[1], g[2])}

\* The order in which GetSudokuByPosition lists its grids.
Precedes(g, h) == g[1] < h[1] \/ (g[1] = h[1] /\ g[2] < h[2])

\* The map of counters HandleCrossedGrid fills: ++ for every grid of the old
\* neighbourhood, -- for every grid of the new one.
CrossingCount(from, to) ==
  LET old == GetSudokuByPosition(from)
      new == GetSudokuByPosition(to)
  IN  [g \in old \cup new |->
         (IF g \in old THEN 1 ELSE 0) - (IF g \in new THEN 1 ELSE 0)]

\* Mutant: the two signs are mixed up.
DisappearedSwapped(from, to) ==
  LET count == CrossingCount(from, to)
  IN  {g \in DOMAIN count : count[g] = -1}

\* disappeared_grids and nascent_grids of HandleCrossedGrid.
DisappearedGrids(from, to) ==
  LET count == CrossingCount(from, to)
  IN  {g \in DOMAIN count : count[g] = 1}

NascentGrids(from, to) ==
  LET count == CrossingCount(from, to)
  IN  {g \in DOMAIN count : count[g] = -1}

=============================================================================
