----------------------------- MODULE AOIProofs -----------------------------
(***************************************************************************)
(* Facts about the map, for worlds and grids of every size: what           *)
(* GetSudokuByPosition and HandleCrossedGrid compute.                      *)
(***************************************************************************)
EXTENDS AOI, TLAPS

\* The grid of a position on the map is one of the grids allocated.
LEMMA GridOnMap ==
  ASSUME NEW p, OnMap(p)
  PROVE  GetGridByPosition(p) \in Grids
BY DEF OnMap, IsValidGrid, GetGridByPosition, Grids

\* A neighbourhood consists of allocated grids, and so does what a crossing
\* changes of it.
LEMMA SudokuType ==
  ASSUME NEW p
  PROVE  GetSudokuByPosition(p) \subseteq Grids
<1> SUFFICES ASSUME NEW g \in GetSudokuByPosition(p) PROVE g \in Grids
  OBVIOUS
<1>1. PICK x \in -1 .. 1, y \in -1 .. 1 :
        g = <<GetRowIndex(p) + x, GetColumnIndex(p) + y>>
  BY DEF GetSudokuByPosition
<1>2. IsValidGrid(g[1], g[2])
  BY DEF GetSudokuByPosition
<1> QED
  BY <1>1, <1>2 DEF IsValidGrid, Grids

\* The counters of HandleCrossedGrid compute the two set differences.
LEMMA CrossingDifference ==
  ASSUME NEW a, NEW b
  PROVE  /\ DisappearedGrids(a, b) = GetSudokuByPosition(a) \ GetSudokuByPosition(b)
         /\ NascentGrids(a, b) = GetSudokuByPosition(b) \ GetSudokuByPosition(a)
BY DEF DisappearedGrids, NascentGrids, CrossingCount

\* The neighbourhood of a position is that of its grid.
LEMMA SudokuOfGrid ==
  ASSUME NEW a, NEW b, GetGridByPosition(a) = GetGridByPosition(b)
  PROVE  GetSudokuByPosition(a) = GetSudokuByPosition(b)
<1>1. GetRowIndex(a) = GetRowIndex(b) /\ GetColumnIndex(a) = GetColumnIndex(b)
  BY DEF GetGridByPosition
<1> QED
  BY <1>1 DEF GetSudokuByPosition

\* The grid of a position on the map is in its own neighbourhood.
LEMMA SudokuHasCentre ==
  ASSUME NEW p \in Coordinates, OnMap(p)
  PROVE  GetGridByPosition(p) \in GetSudokuByPosition(p)
<1> DEFINE row == GetRowIndex(p)
           col == GetColumnIndex(p)
<1>1. row \in Int /\ col \in Int
  BY DEF OnMap, IsValidGrid
<1>2. <<row, col>> = <<row + 0, col + 0>> /\ 0 \in -1 .. 1
  BY <1>1
<1>3. IsValidGrid(<<row, col>>[1], <<row, col>>[2])
  BY DEF OnMap
<1>4. <<row, col>> \in {<<row + x, col + y>> : x, y \in -1 .. 1}
  BY <1>2
<1> QED
  BY <1>3, <1>4 DEF GetSudokuByPosition, GetGridByPosition

-----------------------------------------------------------------------------
(***************************************************************************)
(* How far a neighbourhood reaches.                                        *)
(***************************************************************************)

\* Multiplication by a natural number is monotone.
LEMMA TimesMonotone ==
  ASSUME NEW c \in Nat, NEW x \in Int, NEW y \in Int, x <= y
  PROVE  c * x <= c * y
<1>1. y - x \in Nat
  OBVIOUS
<1>2. c * (y - x) \in Nat
  BY <1>1
<1>3. c * y = c * x + c * (y - x)
  OBVIOUS
<1> QED
  BY <1>2, <1>3

\* The quotient of a natural number is the number of times the divisor fits.
LEMMA QuotientBounds ==
  ASSUME NEW a \in Nat, NEW c \in Nat \ {0}
  PROVE  /\ a \div c \in Nat
         /\ c * (a \div c) <= a
         /\ a < c * (a \div c) + c
<1>1. a \div c \in Int /\ a % c \in 0 .. c - 1 /\ a = c * (a \div c) + (a % c)
  OBVIOUS
<1> QED
  BY <1>1

\* Two coordinates that are no further apart than a grid is long lie in the
\* same or in neighbouring columns (or rows).
LEMMA NearQuotients ==
  ASSUME NEW a \in Nat, NEW b \in Nat, NEW c \in Nat \ {0}, a <= b, b <= a + c
  PROVE  (b \div c) - (a \div c) \in {0, 1}
<1> DEFINE p == a \div c
           q == b \div c
<1>1. p \in Nat /\ c * p <= a /\ a < c * p + c
  BY QuotientBounds
<1>2. q \in Nat /\ c * q <= b /\ b < c * q + c
  BY QuotientBounds
<1> HIDE DEF p, q
<1>3. ~(q <= p - 1)
  <2> SUFFICES ASSUME q <= p - 1 PROVE FALSE
    OBVIOUS
  <2>1. c * q <= c * (p - 1)
    BY <1>1, <1>2, TimesMonotone
  <2>2. c * (p - 1) = c * p - c
    BY <1>1
  <2> QED
    BY <1>1, <1>2, <2>1, <2>2
<1>4. ~(p + 2 <= q)
  <2> SUFFICES ASSUME p + 2 <= q PROVE FALSE
    OBVIOUS
  <2>1. c * (p + 2) <= c * q
    BY <1>1, <1>2, TimesMonotone
  <2>2. c * (p + 2) = c * p + c + c
    BY <1>1
  <2> QED
    BY <1>1, <1>2, <2>1, <2>2
<1>5. q - p \in {0, 1}
  BY <1>1, <1>2, <1>3, <1>4
<1> QED
  BY <1>5 DEF p, q

\* The same on both sides of zero, where the conversion to int rounds up.
LEMMA NearIndices ==
  ASSUME NEW a \in Int, NEW b \in Int, NEW c \in Nat \ {0}, a <= b, b <= a + c
  PROVE  TruncatedDiv(b, c) - TruncatedDiv(a, c) \in {0, 1}
<1>1. CASE a >= 0
  <2>1. a \in Nat /\ b \in Nat /\ b >= 0
    BY <1>1
  <2>2. (b \div c) - (a \div c) \in {0, 1}
    BY <2>1, NearQuotients
  <2> QED
    BY <1>1, <2>1, <2>2 DEF TruncatedDiv
<1>2. CASE b < 0
  <2> DEFINE x == -a
             y == -b
  <2>1. x \in Nat /\ y \in Nat /\ y <= x /\ x <= y + c /\ ~(a >= 0) /\ ~(b >= 0)
    BY <1>2
  <2>2. (x \div c) - (y \div c) \in {0, 1}
    BY <2>1, NearQuotients
  <2>3. x \div c \in Int /\ y \div c \in Int
    BY <2>1
  <2>4. TruncatedDiv(a, c) = -(x \div c) /\ TruncatedDiv(b, c) = -(y \div c)
    BY <2>1 DEF TruncatedDiv
  <2> QED
    BY <2>2, <2>3, <2>4
<1>3. CASE a < 0 /\ b >= 0
  <2> DEFINE x == -a
             p == b \div c
             q == x \div c
  <2>1. b \in Nat /\ x \in Nat /\ b + x <= c /\ ~(a >= 0)
    BY <1>3
  <2>2. p \in Nat /\ c * p <= b
    BY <2>1, QuotientBounds
  <2>3. q \in Nat /\ c * q <= x
    BY <2>1, QuotientBounds
  <2>4. TruncatedDiv(b, c) = p /\ TruncatedDiv(a, c) = -q
    BY <1>3, <2>1 DEF TruncatedDiv
  <2> HIDE DEF p, q, x
  <2>5. ~(2 <= p + q)
    <3> SUFFICES ASSUME 2 <= p + q PROVE FALSE
      OBVIOUS
    <3>1. c * 2 <= c * (p + q)
      BY <2>2, <2>3, TimesMonotone
    <3>2. c * (p + q) = c * p + c * q
      BY <2>2, <2>3
    <3>3. c * p \in Int /\ c * q \in Int
      BY <2>2, <2>3
    <3> QED
      BY <2>1, <2>2, <2>3, <3>1, <3>2, <3>3
  <2> QED
    BY <2>2, <2>3, <2>4, <2>5
<1> QED
  BY <1>1, <1>2, <1>3

\* A position is on the row and in the column of integers.
LEMMA IndexType ==
  ASSUME NEW p \in Coordinates
  PROVE  GetRowIndex(p) \in Int /\ GetColumnIndex(p) \in Int
BY WorldAssumption DEF Coordinates, GetRowIndex, GetColumnIndex, TruncatedDiv

\* A position lies in the neighbourhood of another one exactly if it is on the
\* map and at most one row and one column away.
LEMMA InSudoku ==
  ASSUME NEW p \in Coordinates, NEW q \in Coordinates
  PROVE  GetGridByPosition(q) \in GetSudokuByPosition(p) <=>
           /\ OnMap(q)
           /\ GetRowIndex(q) - GetRowIndex(p) \in -1 .. 1
           /\ GetColumnIndex(q) - GetColumnIndex(p) \in -1 .. 1
<1> DEFINE r == GetRowIndex(p)
           k == GetColumnIndex(p)
           s == GetRowIndex(q)
           l == GetColumnIndex(q)
<1>1. r \in Int /\ k \in Int /\ s \in Int /\ l \in Int
  BY IndexType
<1>2. GetGridByPosition(q) = <<s, l>>
  BY DEF GetGridByPosition
<1>3. OnMap(q) <=> IsValidGrid(s, l)
  BY DEF OnMap
<1>4. GetSudokuByPosition(p) =
        {g \in {<<r + x, k + y>> : x, y \in -1 .. 1} : IsValidGrid(g[1], g[2])}
  BY DEF GetSudokuByPosition
<1> HIDE DEF r, k, s, l
<1>5. ASSUME GetGridByPosition(q) \in GetSudokuByPosition(p)
      PROVE  IsValidGrid(s, l) /\ s - r \in -1 .. 1 /\ l - k \in -1 .. 1
  <2>1. PICK x \in -1 .. 1, y \in -1 .. 1 : <<s, l>> = <<r + x, k + y>>
    BY <1>2, <1>4, <1>5
  <2>2. s = r + x /\ l = k + y
    BY <2>1
  <2>3. IsValidGrid(<<s, l>>[1], <<s, l>>[2])
    BY <1>2, <1>4, <1>5
  <2> QED
    BY <1>1, <2>2, <2>3
<1>6. ASSUME IsValidGrid(s, l), s - r \in -1 .. 1, l - k \in -1 .. 1
      PROVE  GetGridByPosition(q) \in GetSudokuByPosition(p)
  <2>1. <<s, l>> = <<r + (s - r), k + (l - k)>>
    BY <1>1
  <2>2. <<s, l>> \in {<<r + x, k + y>> : x, y \in -1 .. 1}
    BY <1>6, <2>1
  <2> QED
    BY <1>2, <1>4, <1>6, <2>2
<1> QED
  BY <1>3, <1>5, <1>6 DEF r, k, s, l

\* Sight is mutual: of two players on the map, one is in the neighbourhood of
\* the other exactly if the other is in that of the one.  What SyncWithSurrounding
\* and HandleCrossedGrid send in pairs rests on it.
THEOREM SightIsMutual ==
  ASSUME NEW p \in Coordinates, NEW q \in Coordinates, OnMap(p), OnMap(q)
  PROVE  GetGridByPosition(q) \in GetSudokuByPosition(p) <=>
         GetGridByPosition(p) \in GetSudokuByPosition(q)
<1>1. /\ GetRowIndex(p) \in Int /\ GetColumnIndex(p) \in Int
      /\ GetRowIndex(q) \in Int /\ GetColumnIndex(q) \in Int
  BY IndexType
<1>2. \A a \in Int, b \in Int : a - b \in -1 .. 1 <=> b - a \in -1 .. 1
  OBVIOUS
<1> QED
  BY <1>1, <1>2, InSudoku

\* A move by no more than the side of a grid along each axis does not lead out
\* of the player's own sight: the new grid is none of the nascent ones, and
\* HandleCrossedGrid does not announce the player to itself.
THEOREM ShortMovesStayInSight ==
  ASSUME NEW p \in Coordinates, NEW q \in Coordinates, OnMap(q),
         q.X - p.X \in -CellSize .. CellSize,
         q.Z - p.Z \in -CellSize .. CellSize
  PROVE  GetGridByPosition(q) \notin NascentGrids(p, q)
<1> DEFINE near(a, b) == TruncatedDiv(b, CellSize) - TruncatedDiv(a, CellSize)
<1>1. ASSUME NEW a \in Int, NEW b \in Int, b - a \in -CellSize .. CellSize
      PROVE  near(a, b) \in -1 .. 1
  <2>0. /\ TruncatedDiv(a, CellSize) \in Int /\ TruncatedDiv(b, CellSize) \in Int
        /\ CellSize \in Nat \ {0}
    BY WorldAssumption DEF TruncatedDiv
  <2>1. CASE a <= b
    <3>1. near(a, b) \in {0, 1}
      BY <1>1, <2>0, <2>1, NearIndices
    <3> QED
      BY <3>1
  <2>2. CASE b <= a
    <3>1. near(b, a) \in {0, 1}
      BY <1>1, <2>0, <2>2, NearIndices
    <3> QED
      BY <2>0, <3>1
  <2> QED
    BY <2>1, <2>2
<1>2. p.X \in Int /\ p.Z \in Int /\ q.X \in Int /\ q.Z \in Int
  BY DEF Coordinates
<1>3. near(p.X, q.X) \in -1 .. 1 /\ near(p.Z, q.Z) \in -1 .. 1
  BY <1>1, <1>2
<1>4. GetGridByPosition(q) \in GetSudokuByPosition(p)
  BY <1>3, InSudoku DEF GetRowIndex, GetColumnIndex
<1> QED
  BY <1>4, CrossingDifference

=============================================================================
