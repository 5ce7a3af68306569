---------------------------- MODULE TilingProofs ----------------------------
(***************************************************************************)
(* Two things. The arithmetic of the arrangements, for every number of     *)
(* views, every screen and every layout data: cells that have any extent   *)
(* lie inside the region they share out and apart from each other. Overlap *)
(* can only come from rounding, so it all rests on two facts about         *)
(* truncated division: n quotients do not exceed the dividend, and i of    *)
(* them end where the next ones begin. A third one, that they leave less   *)
(* than one unit each, says that nothing is lost (last sections).          *)
(*                                                                         *)
(* And the handler: the layout of a workspace is well formed and shares    *)
(* out the screen under every sequence of changes, loads and restarts. The *)
(* invariant adds to the type of the state that the data of each layout    *)
(* form a cycle with an active place: that is what ActiveData,             *)
(* *data.active_element() in the code, relies on, and what the Cycle       *)
(* lemmas preserve.                                                        *)
(***************************************************************************)
EXTENDS Tiling, CycleLemmas


RegionType == [x : Int, y : Int, w : Int, h : Int]

\* A cell with no extent covers nothing.
Extended(r) == r.w > 0 /\ r.h > 0

----------------------------------------------------------------------------
(* Division.                                                               *)

LEMMA Multiples ==
  ASSUME NEW q \in Nat, NEW i \in Int, NEW j \in Int, i <= j
  PROVE  i * q <= j * q
OBVIOUS

LEMMA Products == \A a, b \in Int : a * b \in Int
OBVIOUS

LEMMA QuotNat ==
  ASSUME NEW a \in Nat, NEW n \in Nat \ {0}
  PROVE  /\ Quot(a, n) \in Nat /\ Quot(a, n) = a \div n
         /\ n * Quot(a, n) <= a /\ Quot(a, n) <= a
<1>1. Quot(a, n) = a \div n BY DEF Quot
<1>2. a \div n \in Nat OBVIOUS
<1>3. n * (a \div n) <= a OBVIOUS
<1>4. 1 * (a \div n) <= n * (a \div n) BY <1>2, Multiples
<1> QED BY <1>1, <1>2, <1>3, <1>4

LEMMA QuotNegative ==
  ASSUME NEW a \in Int, NEW n \in Nat \ {0}, a <= 0
  PROVE  Quot(a, n) \in Int /\ Quot(a, n) <= 0
<1>1. CASE a = 0 BY <1>1, QuotNat
<1>2. CASE a < 0
  <2>1. -a \in Nat BY <1>2
  <2>2. (-a) \div n \in Nat BY <2>1
  <2> QED BY <1>2, <2>2 DEF Quot
<1> QED BY <1>1, <1>2

LEMMA QuotInt ==
  ASSUME NEW a \in Int, NEW n \in Nat \ {0}
  PROVE  Quot(a, n) \in Int
BY QuotNat, QuotNegative

\* A share of a length is a part of it; a share of nothing is nothing.
LEMMA ShareBounds ==
  ASSUME NEW length \in Int, NEW percent \in 0..100
  PROVE  /\ Share(length, percent) \in Int
         /\ length >= 0 => Share(length, percent) \in 0..length
         /\ length <= 0 => Share(length, percent) \in length..0
<1>1. length * percent \in Int BY Products
<1>2. CASE length >= 0
  <2>1. length * percent \in Nat BY <1>2
  <2>2. length * percent <= length * 100 BY <1>2
  <2>3. Share(length, percent) = (length * percent) \div 100 BY <2>1 DEF Share, Quot
  <2>4. (length * percent) \div 100 \in 0..length BY <2>1, <2>2
  <2> QED BY <2>3, <2>4, <1>2
<1>3. CASE length < 0
  <2>1. (-length) * percent \in Nat /\ (-length) * percent <= (-length) * 100 BY <1>3
  <2>2. -(length * percent) = (-length) * percent BY Products
  <2>3. ((-length) * percent) \div 100 \in 0..(-length) BY <2>1, <1>3
  <2>4. length * percent <= 0 BY <2>1, <2>2, <1>1
  <2>5. Share(length, percent) = -(((-length) * percent) \div 100)
    <3>1. CASE length * percent = 0 BY <3>1, <2>2 DEF Share, Quot
    <3>2. CASE length * percent < 0 BY <3>2, <2>2 DEF Share, Quot
    <3> QED BY <3>1, <3>2, <2>4, <1>1
  <2> QED BY <2>3, <2>5, <1>3
<1> QED BY <1>2, <1>3

----------------------------------------------------------------------------
(* Sharing out a region.                                                   *)

\* The cells share out the region r: each that has any extent lies in it, and
\* apart from the others.
Apart(p, q) == Extended(p) /\ Extended(q) => Disjoint(p, q)
SharesOut(cells, n, r) ==
  \A i \in 1..n :
    /\ cells[i] \in RegionType
    /\ Extended(cells[i]) => Extended(r) /\ Inside(cells[i], r)
    /\ \A j \in 1..n : i < j => Apart(cells[i], cells[j])

LEMMA InsideTransitive ==
  ASSUME NEW p \in RegionType, NEW q \in RegionType, NEW r \in RegionType, Inside(p, q), Inside(q, r)
  PROVE  Inside(p, r)
BY DEF Inside, RegionType

LEMMA InsideApart ==
  ASSUME NEW p \in RegionType, NEW q \in RegionType, NEW a \in RegionType, NEW b \in RegionType,
         Inside(p, a), Inside(q, b), Disjoint(a, b)
  PROVE  Disjoint(p, q)
BY DEF Inside, Disjoint, RegionType

LEMMA InsideItself == ASSUME NEW r \in RegionType PROVE Inside(r, r)
BY DEF Inside, RegionType

LEMMA PiledCell ==
  ASSUME NEW r \in RegionType, NEW n \in Nat \ {0}, NEW i \in 1..n
  PROVE  /\ Piled(r, i, n) \in RegionType
         /\ Piled(r, i, n).x = r.x /\ Piled(r, i, n).w = r.w
         /\ Piled(r, i, n).y = r.y + (i - 1) * Quot(r.h, n)
         /\ Piled(r, i, n).h = Quot(r.h, n)
         /\ Extended(Piled(r, i, n)) => Extended(r) /\ Inside(Piled(r, i, n), r)
<1>1. Quot(r.h, n) \in Int /\ r.h \in Int BY QuotInt DEF RegionType
<1>2. (i - 1) * Quot(r.h, n) \in Int BY <1>1, Products
<1> DEFINE q == Quot(r.h, n)
<1> DEFINE p == (i - 1) * Quot(r.h, n)
<1>3. /\ Piled(r, i, n) \in RegionType
      /\ Piled(r, i, n).x = r.x /\ Piled(r, i, n).w = r.w
      /\ Piled(r, i, n).y = r.y + (i - 1) * Quot(r.h, n)
      /\ Piled(r, i, n).h = Quot(r.h, n)
  <2>1. Piled(r, i, n) = [r EXCEPT !.y = r.y + p, !.h = q]
    <3>1. Piled(r, i, n) = [r EXCEPT !.y = @ + p, !.h = Quot(@, n)] BY DEF Piled
    <3> QED BY <3>1
  <2>2. q \in Int /\ p \in Int BY <1>1, <1>2
  <2>3. Piled(r, i, n).y = r.y + p /\ Piled(r, i, n).h = q
    <3> HIDE DEF q, p
    <3> QED BY <2>1, <2>2 DEF RegionType
  <2>4. Piled(r, i, n) \in RegionType
    <3> HIDE DEF q, p
    <3>1. Piled(r, i, n) = [x |-> r.x, y |-> r.y + p, w |-> r.w, h |-> q] BY <2>1 DEF RegionType
    <3>2. r.x \in Int /\ r.y \in Int /\ r.w \in Int /\ r.h \in Int BY DEF RegionType
    <3>3. r.x + p \in Int /\ r.y + p \in Int BY <2>2, <3>2
    <3> QED BY <3>1, <3>2, <3>3, <2>2 DEF RegionType
  <2>5. Piled(r, i, n).x = r.x /\ Piled(r, i, n).w = r.w
    <3> HIDE DEF q, p
    <3> QED BY <2>1 DEF RegionType
  <2> QED BY <2>3, <2>4, <2>5
<1>4. ASSUME Extended(Piled(r, i, n)) PROVE Extended(r) /\ Inside(Piled(r, i, n), r)
  <2>1. Quot(r.h, n) > 0 /\ r.w > 0 BY <1>3, <1>4 DEF Extended
  <2>2. r.h > 0 BY <2>1, <1>1, QuotNegative
  <2>3. Quot(r.h, n) \in Nat /\ n * Quot(r.h, n) <= r.h
    <3>1. r.h \in Nat BY <1>1, <2>2
    <3> QED BY <3>1, QuotNat
  <2>4. i * Quot(r.h, n) <= n * Quot(r.h, n) /\ 0 * Quot(r.h, n) <= (i - 1) * Quot(r.h, n)
    BY <2>3, Multiples
  <2>5. (i - 1) * Quot(r.h, n) >= 0 /\ (i - 1) * Quot(r.h, n) + Quot(r.h, n) = i * Quot(r.h, n)
    BY <2>3, <2>4
  <2> QED BY <1>1, <1>2, <1>3, <2>1, <2>2, <2>3, <2>4, <2>5 DEF Extended, Inside, RegionType
<1> QED BY <1>3, <1>4

LEMMA PiledApart ==
  ASSUME NEW r \in RegionType, NEW n \in Nat \ {0}, NEW i \in 1..n, NEW j \in 1..n, i < j
  PROVE  Apart(Piled(r, i, n), Piled(r, j, n))
<1> SUFFICES ASSUME Extended(Piled(r, i, n)) PROVE Disjoint(Piled(r, i, n), Piled(r, j, n))
  BY DEF Apart
<1> DEFINE q == Quot(r.h, n)
<1>1. q \in Nat BY PiledCell, QuotInt DEF Extended, RegionType
<1>2. i * q <= (j - 1) * q BY <1>1, Multiples
<1>3. (i - 1) * q + q = i * q BY <1>1
<1>4. (i - 1) * q \in Int /\ (j - 1) * q \in Int BY <1>1, Products
<1>5. /\ Piled(r, i, n).y = r.y + (i - 1) * q /\ Piled(r, i, n).h = q
      /\ Piled(r, j, n).y = r.y + (j - 1) * q
  BY PiledCell
<1> HIDE DEF q
<1> QED BY <1>1, <1>2, <1>3, <1>4, <1>5 DEF Disjoint, RegionType

LEMMA BesideCell ==
  ASSUME NEW r \in RegionType, NEW n \in Nat \ {0}, NEW i \in 1..n
  PROVE  /\ Beside(r, i, n) \in RegionType
         /\ Beside(r, i, n).y = r.y /\ Beside(r, i, n).h = r.h
         /\ Beside(r, i, n).x = r.x + (i - 1) * Quot(r.w, n)
         /\ Beside(r, i, n).w = Quot(r.w, n)
         /\ Extended(Beside(r, i, n)) => Extended(r) /\ Inside(Beside(r, i, n), r)
<1>1. Quot(r.w, n) \in Int /\ r.w \in Int BY QuotInt DEF RegionType
<1>2. (i - 1) * Quot(r.w, n) \in Int BY <1>1, Products
<1> DEFINE q == Quot(r.w, n)
<1> DEFINE p == (i - 1) * Quot(r.w, n)
<1>3. /\ Beside(r, i, n) \in RegionType
      /\ Beside(r, i, n).y = r.y /\ Beside(r, i, n).h = r.h
      /\ Beside(r, i, n).x = r.x + (i - 1) * Quot(r.w, n)
      /\ Beside(r, i, n).w = Quot(r.w, n)
  <2>1. Beside(r, i, n) = [r EXCEPT !.x = r.x + p, !.w = q]
    <3>1. Beside(r, i, n) = [r EXCEPT !.x = @ + p, !.w = Quot(@, n)] BY DEF Beside
    <3> QED BY <3>1
  <2>2. q \in Int /\ p \in Int BY <1>1, <1>2
  <2>3. Beside(r, i, n).x = r.x + p /\ Beside(r, i, n).w = q
    <3> HIDE DEF q, p
    <3> QED BY <2>1, <2>2 DEF RegionType
  <2>4. Beside(r, i, n) \in RegionType
    <3> HIDE DEF q, p
    <3>1. Beside(r, i, n) = [x |-> r.x + p, y |-> r.y, w |-> q, h |-> r.h] BY <2>1 DEF RegionType
    <3>2. r.x \in Int /\ r.y \in Int /\ r.w \in Int /\ r.h \in Int BY DEF RegionType
    <3>3. r.x + p \in Int /\ r.y + p \in Int BY <2>2, <3>2
    <3> QED BY <3>1, <3>2, <3>3, <2>2 DEF RegionType
  <2>5. Beside(r, i, n).y = r.y /\ Beside(r, i, n).h = r.h
    <3> HIDE DEF q, p
    <3> QED BY <2>1 DEF RegionType
  <2> QED BY <2>3, <2>4, <2>5
<1>4. ASSUME Extended(Beside(r, i, n)) PROVE Extended(r) /\ Inside(Beside(r, i, n), r)
  <2>1. Quot(r.w, n) > 0 /\ r.h > 0 BY <1>3, <1>4 DEF Extended
  <2>2. r.w > 0 BY <2>1, <1>1, QuotNegative
  <2>3. Quot(r.w, n) \in Nat /\ n * Quot(r.w, n) <= r.w
    <3>1. r.w \in Nat BY <1>1, <2>2
    <3> QED BY <3>1, QuotNat
  <2>4. i * Quot(r.w, n) <= n * Quot(r.w, n) /\ 0 * Quot(r.w, n) <= (i - 1) * Quot(r.w, n)
    BY <2>3, Multiples
  <2>5. (i - 1) * Quot(r.w, n) >= 0 /\ (i - 1) * Quot(r.w, n) + Quot(r.w, n) = i * Quot(r.w, n)
    BY <2>3, <2>4
  <2> QED BY <1>1, <1>2, <1>3, <2>1, <2>2, <2>3, <2>4, <2>5 DEF Extended, Inside, RegionType
<1> QED BY <1>3, <1>4

LEMMA BesideApart ==
  ASSUME NEW r \in RegionType, NEW n \in Nat \ {0}, NEW i \in 1..n, NEW j \in 1..n, i < j
  PROVE  Apart(Beside(r, i, n), Beside(r, j, n))
<1> SUFFICES ASSUME Extended(Beside(r, i, n)) PROVE Disjoint(Beside(r, i, n), Beside(r, j, n))
  BY DEF Apart
<1> DEFINE q == Quot(r.w, n)
<1>1. q \in Nat BY BesideCell, QuotInt DEF Extended, RegionType
<1>2. i * q <= (j - 1) * q BY <1>1, Multiples
<1>3. (i - 1) * q + q = i * q BY <1>1
<1>4. (i - 1) * q \in Int /\ (j - 1) * q \in Int BY <1>1, Products
<1>5. /\ Beside(r, i, n).x = r.x + (i - 1) * q /\ Beside(r, i, n).w = q
      /\ Beside(r, j, n).x = r.x + (j - 1) * q
  BY BesideCell
<1> HIDE DEF q
<1> QED BY <1>1, <1>2, <1>3, <1>4, <1>5 DEF Disjoint, RegionType

LEMMA VerticalStackShares ==
  ASSUME NEW r \in RegionType, NEW n \in Nat \ {0}
  PROVE  SharesOut(ArrangeVerticalStack(r, n), n, r)
BY PiledCell, PiledApart DEF SharesOut, ArrangeVerticalStack

LEMMA HorizontalStackShares ==
  ASSUME NEW r \in RegionType, NEW n \in Nat \ {0}
  PROVE  SharesOut(ArrangeHorizontalStack(r, n), n, r)
BY BesideCell, BesideApart DEF SharesOut, ArrangeHorizontalStack

----------------------------------------------------------------------------
(* Two columns.                                                            *)

\* What the arithmetic needs of a layout's data.
DataType == [margin : [Edges -> Int], gap : Nat, count : Nat, factor : 0..100]

LEMMA MainColumnCell ==
  ASSUME NEW d \in DataType, NEW s \in RegionType, NEW n \in Nat, d.count > 0, n > d.count
  PROVE  /\ MainColumn(d, s, n) = [x |-> s.x, y |-> s.y, w |-> Share(s.w, d.factor), h |-> s.h]
         /\ MainColumn(d, s, n) \in RegionType
         /\ Extended(MainColumn(d, s, n)) => Extended(s) /\ Inside(MainColumn(d, s, n), s)
<1> DEFINE q == Share(s.w, d.factor)
<1>1. /\ q \in Int
      /\ s.w >= 0 => q \in 0..s.w
      /\ s.w <= 0 => q \in s.w..0
  BY ShareBounds DEF DataType, RegionType
<1>2. MainColumn(d, s, n) = [s EXCEPT !.w = q] BY DEF MainColumn, DataType
<1> HIDE DEF q
<1>3. MainColumn(d, s, n) = [x |-> s.x, y |-> s.y, w |-> q, h |-> s.h] BY <1>2 DEF RegionType
<1>4. MainColumn(d, s, n) \in RegionType BY <1>1, <1>3 DEF RegionType
<1>5. Extended(MainColumn(d, s, n)) => Extended(s) /\ Inside(MainColumn(d, s, n), s)
  BY <1>1, <1>3 DEF Extended, Inside, RegionType
<1> QED BY <1>3, <1>4, <1>5 DEF q

LEMMA StackColumnCell ==
  ASSUME NEW d \in DataType, NEW s \in RegionType, d.count > 0
  PROVE  /\ StackColumn(d, s) = [x |-> s.x + Share(s.w, d.factor), y |-> s.y,
                                 w |-> s.w - Share(s.w, d.factor), h |-> s.h]
         /\ StackColumn(d, s) \in RegionType
         /\ Extended(StackColumn(d, s)) => Extended(s) /\ Inside(StackColumn(d, s), s)
<1> DEFINE q == Share(s.w, d.factor)
<1>1. /\ q \in Int
      /\ s.w >= 0 => q \in 0..s.w
      /\ s.w <= 0 => q \in s.w..0
  BY ShareBounds DEF DataType, RegionType
<1>2. StackColumn(d, s) = [s EXCEPT !.x = @ + q, !.w = @ - q] BY DEF StackColumn
<1> HIDE DEF q
<1>3. StackColumn(d, s) = [x |-> s.x + q, y |-> s.y, w |-> s.w - q, h |-> s.h] BY <1>2 DEF RegionType
<1>4. StackColumn(d, s) \in RegionType
  <2>1. s.x \in Int /\ s.y \in Int /\ s.w \in Int /\ s.h \in Int BY DEF RegionType
  <2> QED BY <1>1, <1>3, <2>1 DEF RegionType
<1>5. Extended(StackColumn(d, s)) => Extended(s) /\ Inside(StackColumn(d, s), s)
  BY <1>1, <1>3 DEF Extended, Inside, RegionType
<1> QED BY <1>3, <1>4, <1>5 DEF q

LEMMA ColumnsApart ==
  ASSUME NEW d \in DataType, NEW s \in RegionType, NEW n \in Nat, d.count > 0, n > d.count
  PROVE  Disjoint(MainColumn(d, s, n), StackColumn(d, s))
<1>1. Share(s.w, d.factor) \in Int BY ShareBounds DEF DataType, RegionType
<1> QED BY <1>1, MainColumnCell, StackColumnCell DEF Disjoint, RegionType

\* The main views share out the one column and the others the other.
LEMMA DoubleStackShares ==
  ASSUME NEW d \in DataType, NEW s \in RegionType, NEW n \in Nat \ {0}
  PROVE  SharesOut(ArrangeDoubleStack(d, s, n), n, s)
<1> DEFINE cells == ArrangeDoubleStack(d, s, n)
           a     == MainColumn(d, s, n)
           b     == StackColumn(d, s)
           c     == d.count
<1>0. c \in Nat BY DEF DataType
<1>1. CASE n <= c
  <2>1. a = s BY <1>1, <1>0 DEF MainColumn, RegionType
  <2>2. cells = ArrangeVerticalStack(s, n)
    BY <1>1, <1>0, <2>1 DEF ArrangeDoubleStack, ArrangeVerticalStack, MainCount
  <2> QED BY <2>2, VerticalStackShares
<1>2. CASE c = 0
  <2>1. b = s BY <1>2 DEF StackColumn
  <2>2. cells = ArrangeVerticalStack(s, n)
    <3>1. \A i \in 1..n : ~ (i <= c) /\ i - c = i BY <1>2
    <3>2. n - c = n BY <1>2
    <3> QED BY <2>1, <3>1, <3>2 DEF ArrangeDoubleStack, ArrangeVerticalStack
  <2> QED BY <2>2, VerticalStackShares
<1>3. CASE 0 < c /\ c < n
  <2>1. /\ a \in RegionType /\ b \in RegionType /\ Disjoint(a, b)
        /\ Extended(a) => Extended(s) /\ Inside(a, s)
        /\ Extended(b) => Extended(s) /\ Inside(b, s)
    BY <1>0, <1>3, MainColumnCell, StackColumnCell, ColumnsApart
  <2>2. \A i \in 1..n : i <= c => cells[i] = Piled(a, i, c) /\ i \in 1..c
    BY <1>0, <1>3 DEF ArrangeDoubleStack, MainCount
  <2>3. \A i \in 1..n : i > c => cells[i] = Piled(b, i - c, n - c) /\ i - c \in 1..(n - c)
    BY <1>0, <1>3 DEF ArrangeDoubleStack
  <2>4. n - c \in Nat \ {0} /\ c \in Nat \ {0} BY <1>0, <1>3
  <2> HIDE DEF cells, a, b, c
  <2>5. ASSUME NEW i \in 1..n, i <= c
      PROVE  /\ cells[i] \in RegionType
             /\ Extended(cells[i]) => Extended(a) /\ Inside(cells[i], a)
    <3>1. cells[i] = Piled(a, i, c) /\ i \in 1..c BY <2>2, <2>5
    <3> QED BY <2>1, <2>4, <3>1, PiledCell
  <2>6. ASSUME NEW i \in 1..n, i > c
      PROVE  /\ cells[i] \in RegionType
             /\ Extended(cells[i]) => Extended(b) /\ Inside(cells[i], b)
    <3>1. cells[i] = Piled(b, i - c, n - c) /\ i - c \in 1..(n - c) BY <2>3, <2>6
    <3> QED BY <2>1, <2>4, <3>1, PiledCell
  <2>7. \A i, j \in 1..n : i < j => Apart(cells[i], cells[j])
    <3> SUFFICES ASSUME NEW i \in 1..n, NEW j \in 1..n, i < j PROVE Apart(cells[i], cells[j])
      OBVIOUS
    <3>1. CASE j <= c
      <4>1. i <= c BY <1>0, <2>4, <3>1
      <4> QED BY <2>1, <2>2, <2>4, <3>1, <4>1, PiledApart
    <3>2. CASE i > c
      <4>1. j > c /\ i - c < j - c BY <1>0, <2>4, <3>2
      <4> QED BY <2>1, <2>3, <2>4, <3>2, <4>1, PiledApart
    <3>3. CASE i <= c /\ j > c
      BY <2>1, <2>5, <2>6, <3>3, InsideApart DEF Apart
    <3> QED BY <2>4, <3>1, <3>2, <3>3
  <2>8. \A i \in 1..n : Extended(cells[i]) => Extended(s) /\ Inside(cells[i], s)
    <3> SUFFICES ASSUME NEW i \in 1..n, Extended(cells[i]) PROVE Extended(s) /\ Inside(cells[i], s)
      OBVIOUS
    <3>1. i <= c \/ i > c BY <2>4
    <3> QED BY <2>1, <2>5, <2>6, <3>1, InsideTransitive
  <2>9. \A i \in 1..n : cells[i] \in RegionType
    <3>1. \A i \in 1..n : i <= c \/ i > c BY <2>4
    <3> QED BY <2>5, <2>6, <3>1
  <2> QED BY <2>7, <2>8, <2>9 DEF SharesOut, cells
<1> QED BY <1>0, <1>1, <1>2, <1>3

----------------------------------------------------------------------------
(* The paper layouts.                                                      *)

\* The spread view and the folded ones take no more than the width.
LEMMA PaperWidths ==
  ASSUME NEW d \in DataType, NEW s \in RegionType, NEW n \in Nat, n > 1
  PROVE  /\ LeadWidth(d, s) \in Int /\ FoldedWidth(d, s, n) \in Int
         /\ s.w <= 0 => LeadWidth(d, s) <= 0 /\ FoldedWidth(d, s, n) <= 0
         /\ s.w > 0 => /\ LeadWidth(d, s) \in Nat /\ FoldedWidth(d, s, n) \in Nat
                       /\ (n - 1) * FoldedWidth(d, s, n) + LeadWidth(d, s) <= s.w
<1> DEFINE p == IF d.factor > 50 THEN d.factor ELSE 50
           l == LeadWidth(d, s)
           rest == s.w - l
<1>1. p \in 0..100 /\ s.w \in Int BY DEF DataType, RegionType
<1>2. l = Share(s.w, p) BY DEF LeadWidth
<1>3. /\ l \in Int
      /\ s.w >= 0 => l \in 0..s.w
      /\ s.w <= 0 => l \in s.w..0
  <2> HIDE DEF p, l
  <2> QED BY <1>1, <1>2, ShareBounds
<1>4. FoldedWidth(d, s, n) = Quot(rest, n - 1) /\ n - 1 \in Nat \ {0} BY DEF FoldedWidth
<1> HIDE DEF p, l
<1>5. rest \in Int BY <1>1, <1>3
<1>6. CASE s.w <= 0
  <2>1. rest <= 0 BY <1>1, <1>3, <1>6
  <2>2. Quot(rest, n - 1) \in Int /\ Quot(rest, n - 1) <= 0
    <3> HIDE DEF rest
    <3> QED BY <1>4, <1>5, <2>1, QuotNegative
  <2> HIDE DEF rest
  <2> QED BY <1>1, <1>3, <1>4, <1>6, <2>2 DEF l
<1>7. CASE s.w > 0
  <2>1. rest \in Nat BY <1>1, <1>3, <1>7
  <2>2. Quot(rest, n - 1) \in Nat /\ (n - 1) * Quot(rest, n - 1) <= rest
    <3> HIDE DEF rest
    <3> QED BY <1>4, <2>1, QuotNat
  <2>3. l \in Nat BY <1>1, <1>3, <1>7
  <2>4. (n - 1) * FoldedWidth(d, s, n) \in Int /\ FoldedWidth(d, s, n) \in Nat
    BY <1>4, <2>2, Products
  <2>5. (n - 1) * FoldedWidth(d, s, n) <= rest BY <1>4, <2>2
  <2>6. (n - 1) * FoldedWidth(d, s, n) + l <= s.w
    <3> DEFINE f == (n - 1) * FoldedWidth(d, s, n)
    <3>1. f \in Int /\ f <= s.w - l BY <2>4, <2>5
    <3> HIDE DEF f
    <3>2. f + l <= s.w BY <1>1, <2>3, <3>1
    <3> QED BY <3>2 DEF f
  <2> QED BY <1>1, <1>7, <2>3, <2>4, <2>6 DEF l
<1> QED BY <1>1, <1>6, <1>7

LEMMA PaperShares ==
  ASSUME NEW d \in DataType, NEW s \in RegionType, NEW n \in Nat, n > 1, NEW lead \in 1..n
  PROVE  SharesOut(ArrangePaper(d, s, n, lead), n, s)
<1> DEFINE cells == ArrangePaper(d, s, n, lead)
           l == LeadWidth(d, s)
           f == FoldedWidth(d, s, n)
           begin(i) == IF i <= lead THEN (i - 1) * f ELSE (i - 2) * f + l
           finish(i) == IF i < lead THEN i * f ELSE (i - 1) * f + l
           wide(i) == IF i = lead THEN l ELSE f
<1>1. /\ l \in Int /\ f \in Int
      /\ s.w <= 0 => l <= 0 /\ f <= 0
      /\ s.w > 0 => l \in Nat /\ f \in Nat /\ (n - 1) * f + l <= s.w
  BY PaperWidths
<1>2. s.x \in Int /\ s.y \in Int /\ s.w \in Int /\ s.h \in Int BY DEF RegionType
<1>3. \A i \in 1..n : begin(i) \in Int /\ finish(i) \in Int
  <2> HIDE DEF l, f
  <2>1. \A i \in Int : i * f \in Int BY <1>1, Products
  <2>2. \A i \in 1..n : (i - 1) * f \in Int /\ (i - 2) * f \in Int /\ i * f \in Int BY <2>1
  <2> QED BY <1>1, <2>2
<1>4. \A i \in 1..n : cells[i] = [x |-> s.x + begin(i), y |-> s.y,
                                  w |-> wide(i), h |-> s.h]
  <2> SUFFICES ASSUME NEW i \in 1..n
               PROVE cells[i] = [x |-> s.x + begin(i), y |-> s.y,
                                  w |-> wide(i), h |-> s.h]
    OBVIOUS
  <2> DEFINE o == s.x + (i - 1) * f + (IF i > lead THEN l - f ELSE 0)
  <2>1. cells[i] = [s EXCEPT !.x = o, !.w = wide(i)] BY DEF ArrangePaper
  <2>2. o = s.x + begin(i)
    <3> HIDE DEF l, f
    <3>1. (i - 1) * f \in Int /\ (i - 2) * f \in Int BY <1>1, Products
    <3>2. (i - 1) * f = (i - 2) * f + f BY <1>1
    <3> QED BY <1>1, <1>2, <3>1, <3>2
  <2> HIDE DEF o, cells, l, f, begin, wide
  <2> QED BY <2>1, <2>2 DEF RegionType
<1>5. \A i \in 1..n : begin(i) + wide(i) = finish(i)
  <2> SUFFICES ASSUME NEW i \in 1..n
               PROVE begin(i) + wide(i) = finish(i)
    OBVIOUS
  <2> HIDE DEF l, f
  <2>1. (i - 1) * f \in Int /\ (i - 2) * f \in Int /\ i * f \in Int BY <1>1, Products
  <2>2. (i - 1) * f = (i - 2) * f + f /\ i * f = (i - 1) * f + f BY <1>1
  <2> QED BY <1>1, <2>1, <2>2
<1>6. ASSUME s.w > 0, NEW i \in 1..n
      PROVE begin(i) >= 0 /\ finish(i) <= s.w
  <2> HIDE DEF l, f
  <2>1. l \in Nat /\ f \in Nat /\ (n - 1) * f + l <= s.w BY <1>1, <1>6
  <2>2. /\ (i - 1) * f \in Int /\ (i - 2) * f \in Int /\ i * f \in Int /\ (n - 1) * f \in Int
        /\ 0 * f = 0
    BY <2>1, Products
  <2>3. (i - 1) * f >= 0 /\ (i - 1) * f <= (n - 1) * f
    BY <2>1, <2>2, Multiples
  <2>4. i > lead => (i - 2) * f >= 0
    <3> SUFFICES ASSUME i > lead PROVE (i - 2) * f >= 0 OBVIOUS
    <3>1. 0 <= i - 2 /\ i - 2 \in Int OBVIOUS
    <3> QED BY <2>1, <2>2, <3>1, Multiples
  <2>5. i < lead => i * f <= (n - 1) * f
    <3> SUFFICES ASSUME i < lead PROVE i * f <= (n - 1) * f OBVIOUS
    <3>1. i <= n - 1 OBVIOUS
    <3> QED BY <2>1, <3>1, Multiples
  <2> QED BY <1>2, <2>1, <2>2, <2>3, <2>4, <2>5
<1>7. ASSUME s.w > 0, NEW i \in 1..n, NEW j \in 1..n, i < j
      PROVE finish(i) <= begin(j)
  <2> HIDE DEF l, f
  <2>1. l \in Nat /\ f \in Nat BY <1>1, <1>7
  <2>2. /\ (i - 1) * f \in Int /\ i * f \in Int /\ (j - 2) * f \in Int /\ (j - 1) * f \in Int
    BY <2>1, Products
  <2>3. i * f <= (j - 1) * f /\ (i - 1) * f <= (j - 2) * f
    <3>1. i <= j - 1 /\ i - 1 <= j - 2 BY <1>7
    <3> QED BY <2>1, <3>1, Multiples
  <2>4. i < lead /\ j > lead => i * f <= (j - 2) * f
    <3> SUFFICES ASSUME i < lead, j > lead PROVE i * f <= (j - 2) * f OBVIOUS
    <3>1. i <= j - 2 OBVIOUS
    <3> QED BY <2>1, <3>1, Multiples
  <2> QED BY <1>7, <2>1, <2>2, <2>3, <2>4
<1>12. \A i \in 1..n : wide(i) \in Int /\ (s.w <= 0 => wide(i) <= 0)
  <2> HIDE DEF l, f
  <2> QED BY <1>1
<1> HIDE DEF cells, l, f, begin, finish, wide
<1>13. \A i \in 1..n : /\ cells[i].x = s.x + begin(i)
                      /\ cells[i].y = s.y
                      /\ cells[i].w = wide(i)
                      /\ cells[i].h = s.h
  <2> SUFFICES ASSUME NEW i \in 1..n
               PROVE  /\ cells[i].x = s.x + begin(i)
                      /\ cells[i].y = s.y
                      /\ cells[i].w = wide(i)
                      /\ cells[i].h = s.h
    OBVIOUS
  <2>1. cells[i] = [x |-> s.x + begin(i), y |-> s.y, w |-> wide(i), h |-> s.h] BY <1>4
  <2> QED BY <2>1
<1>8. ASSUME NEW i \in 1..n, Extended(cells[i]) PROVE s.w > 0 /\ s.h > 0
  BY <1>2, <1>12, <1>13, <1>8 DEF Extended
<1>9. \A i \in 1..n : cells[i] \in RegionType
  <2> SUFFICES ASSUME NEW i \in 1..n PROVE cells[i] \in RegionType OBVIOUS
  <2>1. cells[i] = [x |-> s.x + begin(i), y |-> s.y, w |-> wide(i), h |-> s.h] BY <1>4
  <2>2. s.x + begin(i) \in Int /\ wide(i) \in Int BY <1>2, <1>3, <1>12
  <2> QED BY <1>2, <2>1, <2>2 DEF RegionType
<1>10. \A i \in 1..n : Extended(cells[i]) => Extended(s) /\ Inside(cells[i], s)
  <2> SUFFICES ASSUME NEW i \in 1..n, Extended(cells[i])
               PROVE Extended(s) /\ Inside(cells[i], s)
    OBVIOUS
  <2>1. s.w > 0 /\ s.h > 0 BY <1>8
  <2>2. begin(i) >= 0 /\ finish(i) <= s.w BY <1>6, <2>1
  <2>3. begin(i) + wide(i) = finish(i) BY <1>5
  <2>4. begin(i) \in Int /\ wide(i) \in Int BY <1>3, <1>12
  <2>5. /\ cells[i].x = s.x + begin(i) /\ cells[i].y = s.y
        /\ cells[i].w = wide(i) /\ cells[i].h = s.h
    BY <1>13
  <2> QED BY <1>2, <2>1, <2>2, <2>3, <2>4, <2>5 DEF Extended, Inside
<1>11. \A i, j \in 1..n : i < j => Apart(cells[i], cells[j])
  <2> SUFFICES ASSUME NEW i \in 1..n, NEW j \in 1..n, i < j, Extended(cells[i])
               PROVE Disjoint(cells[i], cells[j])
    BY DEF Apart
  <2>1. finish(i) <= begin(j) BY <1>7, <1>8
  <2>2. cells[i].x = s.x + begin(i) /\ cells[i].w = wide(i) BY <1>13
  <2>3. cells[j].x = s.x + begin(j) BY <1>13
  <2>4. begin(i) + wide(i) = finish(i) /\ begin(i) \in Int /\ wide(i) \in Int BY <1>3, <1>5, <1>12
  <2>5. begin(j) \in Int BY <1>3
  <2> QED BY <1>2, <2>1, <2>2, <2>3, <2>4, <2>5 DEF Disjoint
<1> QED BY <1>9, <1>10, <1>11 DEF SharesOut, cells

----------------------------------------------------------------------------
(* All the layouts that do not overlap.                                    *)

LEMMA OneCellShares ==
  ASSUME NEW s \in RegionType PROVE SharesOut(<< s >>, 1, s)
<1>1. \A i \in 1..1 : << s >>[i] = s OBVIOUS
<1>2. \A i, j \in 1..1 : ~ i < j OBVIOUS
<1> QED BY <1>1, <1>2, InsideItself DEF SharesOut

\* Every layout that is not to overlap shares out the screen it is given,
\* whatever its data, the number of views and the one that leads: what
\* LayoutHandler::arrange passes to the arrange_* functions.
THEOREM NonOverlapping ==
  ASSUME NEW kind \in ApartKinds, NEW d \in DataType, NEW s \in RegionType,
         NEW n \in Nat \ {0}, NEW lead \in 1..n, NEW focus
  PROVE  SharesOut(Cells(kind, d, s, n, lead, focus), n, s)
<1>1. /\ Cells(kind, d, s, n, lead, focus) = TiledCells(kind, d, s, n, lead)
      /\ kind \notin {"MainDeck", "StackDeck", "DoubleDeck", "OverlappingPaper"}
  BY DEF ApartKinds, NonOverlappingKinds, SingleKinds, Cells
<1>2. CASE n = 1 BY <1>1, <1>2, OneCellShares DEF TiledCells
<1>3. CASE n # 1 /\ kind \in {"Paper", "CompactPaper"}
  <2>1. TiledCells(kind, d, s, n, lead) = ArrangePaper(d, s, n, lead) BY <1>3 DEF TiledCells
  <2>2. n \in Nat /\ n > 1 BY <1>3
  <2> QED BY <1>1, <2>1, <2>2, PaperShares
<1>4. CASE n # 1 /\ kind \in {"DoubleStack", "CompactDoubleStack"}
  <2>1. TiledCells(kind, d, s, n, lead) = ArrangeDoubleStack(d, s, n) BY <1>4 DEF TiledCells
  <2> QED BY <1>1, <2>1, DoubleStackShares
<1>5. CASE n # 1 /\ kind \in {"HorizontalStack", "CompactHorizontalStack"}
  <2>1. TiledCells(kind, d, s, n, lead) = ArrangeHorizontalStack(s, n) BY <1>5 DEF TiledCells
  <2> QED BY <1>1, <2>1, HorizontalStackShares
<1>6. CASE n # 1 /\ kind \in {"VerticalStack", "CompactVerticalStack"}
  <2>1. TiledCells(kind, d, s, n, lead) = ArrangeVerticalStack(s, n) BY <1>6 DEF TiledCells
  <2> QED BY <1>1, <2>1, VerticalStackShares
<1> QED BY <1>2, <1>3, <1>4, <1>5, <1>6 DEF ApartKinds, NonOverlappingKinds

\* A gap takes a tile off its cell, as long as a view still fits.
LEMMA GappedCell ==
  ASSUME NEW r \in RegionType, NEW gap \in Nat, Roomy(Gapped(r, gap))
  PROVE  Gapped(r, gap) \in RegionType /\ Extended(r) /\ Inside(Gapped(r, gap), r)
<1>1. r.x \in Int /\ r.y \in Int /\ r.w \in Int /\ r.h \in Int BY DEF RegionType
<1>2. 2 * gap \in Nat OBVIOUS
<1>3. /\ Gapped(r, gap).x = r.x + gap /\ Gapped(r, gap).y = r.y + gap
      /\ Gapped(r, gap).w = r.w - 2 * gap /\ Gapped(r, gap).h = r.h - 2 * gap
      /\ r.w - 2 * gap > 25 /\ r.h - 2 * gap > 10
  BY <1>1 DEF Gapped, Roomy, AtLeast, MinViewWidth, MinViewHeight
<1>4. Gapped(r, gap) \in RegionType
  BY <1>1 DEF Gapped, AtLeast, MinViewWidth, MinViewHeight, RegionType
<1> QED BY <1>1, <1>2, <1>3, <1>4 DEF Extended, Inside

LEMMA DisjointEither ==
  ASSUME NEW p, NEW q, Disjoint(p, q) PROVE Disjoint(q, p)
BY DEF Disjoint

LEMMA ArrangeApart ==
  ASSUME NEW kind \in ApartKinds, NEW d \in DataType, NEW screen \in RegionType,
         d.margin \in [Edges -> Int], NEW n \in Nat \ {0}, NEW lead \in 1..n, NEW focus
  PROVE  TilesLieApart(Arrange(kind, d, screen, n, lead, focus), Inset(screen, d.margin))
<1> DEFINE s     == Inset(screen, d.margin)
           cells == Cells(kind, d, s, n, lead, focus)
           tiles == Arrange(kind, d, screen, n, lead, focus)
<1>1. s \in RegionType
  <2>1. \A e \in Edges : d.margin[e] \in Int OBVIOUS
  <2> QED BY <2>1 DEF Inset, RegionType, Edges
<1>2. kind \notin FreeKinds BY DEF ApartKinds, NonOverlappingKinds, FreeKinds
<1>3. WithinMargin(kind, d, screen) = s BY <1>2 DEF WithinMargin, Config, TiledConfig
<1>4. tiles = WithGaps(kind, d, cells) BY <1>3 DEF Arrange
<1>5. SharesOut(cells, n, s) BY <1>1, NonOverlapping
<1>6. DOMAIN cells = 1..n
  <2>1. cells = TiledCells(kind, d, s, n, lead)
    BY DEF ApartKinds, NonOverlappingKinds, SingleKinds, Cells
  <2>2. CASE n = 1 BY <2>1, <2>2 DEF TiledCells
  <2>3. CASE n # 1
    BY <2>1, <2>3 DEF TiledCells, ArrangeMainDeck, ArrangeStackDeck, ArrangeDoubleDeck, ArrangePaper,
       ArrangeOverlappingPaper, ArrangeDoubleStack, ArrangeHorizontalStack, ArrangeVerticalStack
  <2> QED BY <2>2, <2>3
<1>7. d.gap \in Nat BY DEF DataType
<1> HIDE DEF cells, tiles, s
<1>8. ASSUME NEW i \in 1..n, Roomy(tiles[i])
      PROVE  /\ tiles[i] \in RegionType /\ cells[i] \in RegionType
             /\ Extended(cells[i]) /\ Inside(tiles[i], cells[i])
  <2>1. cells[i] \in RegionType BY <1>5 DEF SharesOut
  <2>2. CASE Config(kind).gap
    <3>1. tiles[i] = Gapped(cells[i], d.gap) BY <1>4, <1>6, <2>2 DEF WithGaps
    <3> QED BY <1>7, <1>8, <2>1, <3>1, GappedCell
  <2>3. CASE ~ Config(kind).gap
    <3>1. tiles[i] = cells[i] BY <1>4, <2>3 DEF WithGaps
    <3>2. Extended(cells[i])
      BY <1>8, <2>1, <3>1 DEF Roomy, Extended, MinViewWidth, MinViewHeight, RegionType
    <3> QED BY <2>1, <3>1, <3>2, InsideItself
  <2> QED BY <2>2, <2>3
<1>9. DOMAIN tiles = 1..n BY <1>4, <1>6 DEF WithGaps
<1>10. ASSUME NEW i \in 1..n, Roomy(tiles[i]) PROVE Inside(tiles[i], s)
  <2>1. Inside(cells[i], s) BY <1>5, <1>8, <1>10 DEF SharesOut
  <2> QED BY <1>1, <1>8, <1>10, <2>1, InsideTransitive
<1>11. ASSUME NEW i \in 1..n, NEW j \in 1..n, i < j, Roomy(tiles[i]), Roomy(tiles[j])
       PROVE  Disjoint(tiles[i], tiles[j])
  <2>1. Disjoint(cells[i], cells[j]) BY <1>5, <1>8, <1>11 DEF SharesOut, Apart
  <2> QED BY <1>8, <1>11, <2>1, InsideApart
<1>12. ASSUME NEW i \in 1..n, NEW j \in (1..n) \ {i}, Roomy(tiles[i]), Roomy(tiles[j])
       PROVE  Disjoint(tiles[i], tiles[j])
  <2>1. j \in 1..n /\ (i < j \/ j < i) BY <1>12
  <2> QED BY <1>11, <1>12, <2>1, DisjointEither
<1> QED BY <1>9, <1>10, <1>12 DEF TilesLieApart, s, tiles

----------------------------------------------------------------------------
(* The layout handler.                                                     *)

DataSets == {c \in [elements : Seq(Places), index : Nat, stack : Seq(Places), unwindable : BOOLEAN] :
               IsCycle(c, Places) /\ Size(c) = 3}
HandlerType == [kind : Kinds, prevKind : Kinds, sets : [Kinds -> DataSets],
                data : [Kinds -> [Places -> LayoutData]]]
FileType    == [kind : Kinds, data : [Places -> LayoutData]]

HandlerInv == /\ handler \in HandlerType
              /\ saved \in [Slots -> {Null} \union FileType]

----------------------------------------------------------------------------
(* Cycles of data.                                                         *)

LEMMA DataSet ==
  ASSUME NEW c PROVE c \in DataSets <=> IsCycle(c, Places) /\ Size(c) = 3
BY DEF DataSets, IsCycle, Cycles

LEMMA ActiveOfSet ==
  ASSUME NEW c \in DataSets PROVE ActiveElement(c) \in Places
<1>1. IsCycle(c, Places) /\ Size(c) = 3 BY DataSet
<1>2. HasActive(c) /\ c \in Cycles(Places) BY <1>1, CycleParts DEF HasActive, IsCycle
<1> QED BY <1>2, ActiveIsElement

LEMMA PushSize ==
  ASSUME NEW c, IsCycle(c, Places)
  PROVE  PushActive(c).elements = c.elements /\ PushActive(c).index = c.index
<1>1. PushActive(c) = [c EXCEPT !.stack = PushActive(c).stack] BY PushKeepsCycle
<1>2. c \in [elements : Seq(Places), index : Nat, stack : Seq(Places), unwindable : BOOLEAN]
  BY DEF IsCycle, Cycles
<1> DEFINE t == PushActive(c).stack
<1>3. PushActive(c) = [c EXCEPT !.stack = t] BY <1>1
<1> HIDE DEF t
<1> QED BY <1>2, <1>3

LEMMA CycledSet ==
  ASSUME NEW c \in DataSets, NEW d \in Directions PROVE CycleActive(c, d) \in DataSets
<1>1. IsCycle(c, Places) /\ Size(c) = 3 BY DataSet
<1>2. IsCycle(CycleActive(c, d), Places) BY <1>1, CycleActiveKeepsCycle
<1>3. CycleActive(c, d).elements = c.elements
  <2> DEFINE p == PushActive(c)
             i == NextIndex(c, d)
  <2>1. p.elements = c.elements BY <1>1, PushSize
  <2>2. p \in [elements : Seq(Places), index : Nat, stack : Seq(Places), unwindable : BOOLEAN]
    BY <1>1, PushKeepsCycle DEF IsCycle, Cycles
  <2>3. CycleActive(c, d) = [p EXCEPT !.index = i] BY DEF CycleActive
  <2> HIDE DEF p, i
  <2> QED BY <2>1, <2>2, <2>3
<1> QED BY <1>1, <1>2, <1>3, DataSet DEF Size

LEMMA ActivatedSet ==
  ASSUME NEW c \in DataSets, NEW e PROVE ActivateElement(c, e) \in DataSets
<1>1. IsCycle(c, Places) /\ Size(c) = 3 BY DataSet
<1>2. IsCycle(ActivateElement(c, e), Places) BY <1>1, ActivateElementKeepsCycle
<1>3. ActivateElement(c, e).elements = c.elements
  <2> DEFINE p == PushActive(c)
             i == IndexOf(c.elements, e)
  <2>1. p.elements = c.elements BY <1>1, PushSize
  <2>2. p \in [elements : Seq(Places), index : Nat, stack : Seq(Places), unwindable : BOOLEAN]
    BY <1>1, PushKeepsCycle DEF IsCycle, Cycles
  <2>3. ActivateElement(c, e) = c \/ ActivateElement(c, e) = [p EXCEPT !.index = i]
    BY DEF ActivateElement, ActivateAtIndex
  <2> HIDE DEF p, i
  <2> QED BY <2>1, <2>2, <2>3
<1> QED BY <1>1, <1>2, <1>3, DataSet DEF Size

LEMMA InsertedElements ==
  ASSUME NEW c, IsCycle(c, Places), NEW e \in Places
  PROVE  InsertAtBack(c, e).elements = Append(c.elements, e)
<1> DEFINE p == PushActive(c)
           els == Append(p.elements, e)
           n == Size(c)
<1>1. p.elements = c.elements BY PushSize
<1>2. p \in [elements : Seq(Places), index : Nat, stack : Seq(Places), unwindable : BOOLEAN]
  BY PushKeepsCycle DEF IsCycle, Cycles
<1>3. InsertAtBack(c, e) = [p EXCEPT !.elements = els, !.index = n] BY DEF InsertAtBack
<1>4. InsertAtBack(c, e).elements = els
  <2> HIDE DEF p, els, n
  <2> QED BY <1>2, <1>3
<1> QED BY <1>1, <1>4

\* Three places inserted into a cycle that holds the first of them.
LEMMA TwoMorePlaces ==
  ASSUME NEW c, IsCycle(c, Places), c.elements = << 1 >>
  PROVE  InsertAtBack(InsertAtBack(c, 2), 3) \in DataSets
<1>1. 1 \in Places /\ 2 \in Places /\ 3 \in Places BY DEF Places
<1> DEFINE b == InsertAtBack(c, 2)
           t == InsertAtBack(b, 3)
<1>2. ~ Contains(c, 2) BY DEF Contains, Range
<1>3. IsCycle(b, Places) BY <1>1, <1>2, InsertKeepsCycle
<1>4. b.elements = << 1, 2 >> BY <1>1, InsertedElements, SMTT(30)
<1>5. ~ Contains(b, 3)
  <2> HIDE DEF b
  <2>1. \A i \in DOMAIN b.elements : b.elements[i] # 3 BY <1>4
  <2> QED BY <2>1 DEF Contains, Range
<1> HIDE DEF b
<1>6. IsCycle(t, Places) BY <1>1, <1>3, <1>5, InsertKeepsCycle
<1>7. t.elements = Append(b.elements, 3) BY <1>1, <1>3, InsertedElements
<1>8. Size(t) = 3 BY <1>4, <1>7 DEF Size
<1> QED BY <1>6, <1>8, DataSet DEF b

LEMMA RefilledSet ==
  ASSUME NEW c, IsCycle(c, Places) PROVE ThreePlaces(ClearCycle(c)) \in DataSets
<1> DEFINE z   == ClearCycle(c)
           nil == << >>
           one == Append(z.elements, 1)
           n   == Size(z)
<1>1. c \in [elements : Seq(Places), index : Nat, stack : Seq(Places), unwindable : BOOLEAN]
  BY DEF IsCycle, Cycles
<1>2. z.elements = << >> /\ z \in [elements : Seq(Places), index : Nat, stack : Seq(Places),
                                   unwindable : BOOLEAN]
  <2>1. nil \in Seq(Places) /\ z = [c EXCEPT !.elements = nil, !.stack = nil] BY DEF ClearCycle
  <2> HIDE DEF nil, z
  <2>2. z.elements = nil /\ z.stack = nil BY <1>1, <2>1
  <2>3. z \in [elements : Seq(Places), index : Nat, stack : Seq(Places), unwindable : BOOLEAN]
    BY <1>1, <2>1
  <2> QED BY <2>2, <2>3 DEF nil
<1>3. PushActive(z) = z
  <2> HIDE DEF z
  <2> QED BY <1>2 DEF PushActive, HasActive, Size
<1>4. InsertAtBack(z, 1) = [z EXCEPT !.elements = one, !.index = n] BY <1>3 DEF InsertAtBack
<1>5. InsertAtBack(z, 1).elements = one
  <2> HIDE DEF z, one, n
  <2> QED BY <1>2, <1>4
<1>6. one = << 1 >>
  <2> HIDE DEF z
  <2> QED BY <1>2
<1>7. IsCycle(InsertAtBack(z, 1), Places)
  <2>1. 1 \in Places BY DEF Places
  <2> QED BY <2>1, RefillKeepsCycle
<1>8. InsertAtBack(InsertAtBack(InsertAtBack(z, 1), 2), 3) \in DataSets
  <2> HIDE DEF z, one
  <2> QED BY <1>5, <1>6, <1>7, TwoMorePlaces
<1> QED BY <1>8 DEF ThreePlaces

LEMMA EmptySet == IsCycle(EmptyCycle(TRUE), Places) /\ ClearCycle(EmptyCycle(TRUE)) = EmptyCycle(TRUE)
<1> DEFINE nil == << >>
           c   == EmptyCycle(TRUE)
<1>1. nil \in Seq(Places) /\ IsDistinct(nil) /\ Range(nil) = {} /\ Len(nil) = 0
  BY DEF IsDistinct, Range
<1>2. c = [elements |-> nil, index |-> 0, stack |-> nil, unwindable |-> TRUE] BY DEF EmptyCycle
<1>3. ClearCycle(c) = [c EXCEPT !.elements = nil, !.stack = nil] BY DEF ClearCycle
<1> HIDE DEF nil, c
<1>4. IsCycle(c, Places)
  BY <1>1, <1>2 DEF IsCycle, Cycles, IndexBounded, LastIndex, LiveHistory, Size
<1>5. ClearCycle(c) = c BY <1>2, <1>3
<1> QED BY <1>4, <1>5 DEF c

----------------------------------------------------------------------------
(* The methods of the handler.                                             *)

LEMMA DefaultIsData == ASSUME NEW kind PROVE DefaultData(kind) \in LayoutData
<1>1. NoMargin \in [Edges -> Nat] /\ \A e \in Edges : NoMargin[e] <= MaxMargin[e]
  BY DEF NoMargin, MaxMargin
<1> HIDE DEF NoMargin
<1> QED BY <1>1 DEF DefaultData, LayoutData, MaxGapSize, MaxMainCount

LEMMA ActiveDatum ==
  ASSUME NEW h \in HandlerType, NEW kind \in Kinds
  PROVE  /\ ActivePlace(h, kind) \in Places
         /\ h.data[kind][ActivePlace(h, kind)] \in LayoutData
         /\ ActiveData(h) \in LayoutData
<1>1. \A k \in Kinds : h.sets[k] \in DataSets BY DEF HandlerType
<1>2. \A k \in Kinds : ActivePlace(h, k) \in Places BY <1>1, ActiveOfSet DEF ActivePlace
<1>3. \A k \in Kinds, p \in Places : h.data[k][p] \in LayoutData BY DEF HandlerType
<1>4. h.kind \in Kinds BY DEF HandlerType
<1> QED BY <1>2, <1>3, <1>4 DEF ActiveData

LEMMA DatumSet ==
  ASSUME NEW h \in HandlerType, NEW d \in LayoutData
  PROVE  WithData(h, d) \in HandlerType
<1> DEFINE k == h.kind
           p == ActivePlace(h, k)
           row == [h.data[k] EXCEPT ![p] = d]
           all == [h.data EXCEPT ![k] = row]
<1>1. k \in Kinds /\ h.data \in [Kinds -> [Places -> LayoutData]] BY DEF HandlerType
<1>2. row \in [Places -> LayoutData] BY <1>1
<1>3. all \in [Kinds -> [Places -> LayoutData]]
  <2> HIDE DEF row, k
  <2> QED BY <1>1, <1>2
<1>4. WithData(h, d) = [h EXCEPT !.data = all] BY <1>1 DEF WithData
<1> HIDE DEF all
<1> QED BY <1>3, <1>4 DEF HandlerType

LEMMA PlacesSet ==
  ASSUME NEW h \in HandlerType, NEW c \in DataSets
  PROVE  WithSet(h, c) \in HandlerType
<1> DEFINE all == [h.sets EXCEPT ![h.kind] = c]
<1>1. all \in [Kinds -> DataSets] BY DEF HandlerType
<1>2. WithSet(h, c) = [h EXCEPT !.sets = all] BY DEF WithSet
<1> HIDE DEF all
<1> QED BY <1>1, <1>2 DEF HandlerType

LEMMA ClampIn ==
  ASSUME NEW v \in Int, NEW a \in Nat, NEW b \in Nat, a <= b
  PROVE  Clamp(v, a, b) \in a..b
BY DEF Clamp

LEMMA MarginData ==
  ASSUME NEW d \in LayoutData, NEW m \in [Edges -> Nat], \A e \in Edges : m[e] <= MaxMargin[e]
  PROVE  [d EXCEPT !.margin = m] \in LayoutData
<1>1. m \in {x \in [Edges -> Nat] : \A e \in Edges : x[e] <= MaxMargin[e]} OBVIOUS
<1> QED BY <1>1 DEF LayoutData

LEMMA DatumFields ==
  ASSUME NEW d \in LayoutData
  PROVE  /\ d.gap \in Nat /\ d.count \in Nat /\ d.factor \in 5..95
         /\ d.margin \in [Edges -> Nat] /\ \A e \in Edges : d.margin[e] <= MaxMargin[e]
         /\ d.gap \in 0..MaxGapSize /\ d.count \in 0..MaxMainCount
BY DEF LayoutData, MaxGapSize, MaxMainCount

LEMMA MaxMarginNat == \A e \in Edges : MaxMargin[e] \in Nat
BY DEF MaxMargin

LEMMA KindSet ==
  ASSUME NEW h \in HandlerType, NEW kind \in Kinds
  PROVE  SetKind(h, kind) \in HandlerType /\ SetPrevKind(h) \in HandlerType
BY DEF SetKind, SetPrevKind, HandlerType

LEMMA Adjusted ==
  ASSUME NEW h \in HandlerType, NEW change \in Int
  PROVE  /\ ChangeGapSize(h, change) \in HandlerType
         /\ ChangeMainCount(h, change) \in HandlerType
         /\ ChangeMainFactor(h, change) \in HandlerType
<1> DEFINE d == ActiveData(h)
           gap    == Clamp(d.gap + change, 0, MaxGapSize)
           count  == Clamp(d.count + change, 0, MaxMainCount)
           factor == Clamp(d.factor + change, 5, 95)
<1>1. d \in LayoutData
  <2>1. h.kind \in Kinds BY DEF HandlerType
  <2> QED BY <2>1, ActiveDatum
<1>2. gap \in 0..MaxGapSize /\ count \in 0..MaxMainCount /\ factor \in 5..95
  <2> HIDE DEF d
  <2>1. d.gap + change \in Int /\ d.count + change \in Int /\ d.factor + change \in Int
    BY <1>1, DatumFields
  <2>2. 0 \in Nat /\ MaxGapSize \in Nat /\ MaxMainCount \in Nat /\ 5 \in Nat /\ 95 \in Nat
        /\ 0 <= MaxGapSize /\ 0 <= MaxMainCount
    BY DEF MaxGapSize, MaxMainCount
  <2> HIDE DEF d
  <2>3. gap \in 0..MaxGapSize BY <2>1, <2>2, ClampIn
  <2>4. count \in 0..MaxMainCount BY <2>1, <2>2, ClampIn
  <2>5. factor \in 5..95 BY <2>1 DEF Clamp
  <2> QED BY <2>3, <2>4, <2>5
<1>3. /\ ChangeGapSize(h, change) = WithData(h, [d EXCEPT !.gap = gap])
      /\ ChangeMainCount(h, change) = WithData(h, [d EXCEPT !.count = count])
      /\ ChangeMainFactor(h, change) = WithData(h, [d EXCEPT !.factor = factor])
  BY DEF ChangeGapSize, ChangeMainCount, ChangeMainFactor
<1> HIDE DEF d, gap, count, factor
<1>4. /\ [d EXCEPT !.gap = gap] \in LayoutData
      /\ [d EXCEPT !.count = count] \in LayoutData
      /\ [d EXCEPT !.factor = factor] \in LayoutData
  BY <1>1, <1>2 DEF LayoutData
<1> QED BY <1>3, <1>4, DatumSet

LEMMA MarginAdjusted ==
  ASSUME NEW h \in HandlerType, NEW change \in Int
  PROVE  /\ ChangeMargin(h, change) \in HandlerType
         /\ \A edge \in Edges : ChangeMarginAt(h, edge, change) \in HandlerType
<1> DEFINE d == ActiveData(h)
<1>1. d \in LayoutData
  <2>1. h.kind \in Kinds BY DEF HandlerType
  <2> QED BY <2>1, ActiveDatum
<1>2. ASSUME NEW v \in Int, NEW e \in Edges
      PROVE  Clamp(v, 0, MaxMargin[e]) \in Nat /\ Clamp(v, 0, MaxMargin[e]) <= MaxMargin[e]
  <2>1. MaxMargin[e] \in Nat BY MaxMarginNat
  <2>2. Clamp(v, 0, MaxMargin[e]) \in 0..MaxMargin[e]
    <3> DEFINE top == MaxMargin[e]
    <3>1. top \in Nat /\ 0 \in Nat /\ 0 <= top BY <2>1
    <3> HIDE DEF top
    <3>2. Clamp(v, 0, top) \in 0..top BY <3>1, ClampIn
    <3> QED BY <3>2 DEF top
  <2> QED BY <2>1, <2>2
<1>3. ChangeMargin(h, change) \in HandlerType
  <2> DEFINE by(e) == IF e \in {"left", "right"} THEN Quot(3 * change, 2) ELSE change
             m == [e \in Edges |-> Clamp(d.margin[e] + by(e), 0, MaxMargin[e])]
  <2>1. ChangeMargin(h, change) = WithData(h, [d EXCEPT !.margin = m]) BY DEF ChangeMargin
  <2>2. \A e \in Edges : d.margin[e] + by(e) \in Int
    <3> HIDE DEF d
    <3>1. 3 * change \in Int /\ 2 \in Nat \ {0} OBVIOUS
    <3>2. Quot(3 * change, 2) \in Int BY <3>1, QuotInt
    <3>3. \A e \in Edges : d.margin[e] \in Nat BY <1>1, DatumFields
    <3> QED BY <3>2, <3>3
  <2>3. m \in [Edges -> Nat] /\ \A e \in Edges : m[e] <= MaxMargin[e]
    <3> HIDE DEF d, by
    <3> QED BY <1>2, <2>2
  <2> HIDE DEF d, m
  <2>4. [d EXCEPT !.margin = m] \in LayoutData BY <1>1, <2>3, MarginData
  <2> QED BY <2>1, <2>4, DatumSet
<1>4. ASSUME NEW edge \in Edges PROVE ChangeMarginAt(h, edge, change) \in HandlerType
  <2> DEFINE v == Clamp(d.margin[edge] + change, 0, MaxMargin[edge])
             m == [d.margin EXCEPT ![edge] = v]
  <2>1. ChangeMarginAt(h, edge, change) = WithData(h, [d EXCEPT !.margin = m])
    BY <1>1 DEF ChangeMarginAt
  <2>2. d.margin \in [Edges -> Nat] /\ \A e \in Edges : d.margin[e] <= MaxMargin[e]
    <3> HIDE DEF d
    <3> QED BY <1>1, DatumFields
  <2>3. v \in Nat /\ v <= MaxMargin[edge]
    <3>1. d.margin[edge] + change \in Int BY <2>2
    <3> QED BY <1>2, <3>1
  <2> HIDE DEF d, v
  <2>4. m \in [Edges -> Nat] /\ \A e \in Edges : m[e] <= MaxMargin[e] BY <2>2, <2>3
  <2> HIDE DEF m
  <2>5. [d EXCEPT !.margin = m] \in LayoutData BY <1>1, <2>4, MarginData
  <2> QED BY <2>1, <2>5, DatumSet
<1> QED BY <1>3, <1>4

LEMMA ResetData ==
  ASSUME NEW h \in HandlerType
  PROVE  /\ ResetGapSize(h) \in HandlerType /\ ResetMargin(h) \in HandlerType
         /\ ResetLayoutData(h) \in HandlerType
<1> DEFINE d == ActiveData(h)
           e == DefaultData(h.kind)
<1>1. d \in LayoutData /\ e \in LayoutData
  <2>1. h.kind \in Kinds BY DEF HandlerType
  <2> QED BY <2>1, ActiveDatum, DefaultIsData
<1>2. /\ ResetGapSize(h) = WithData(h, [d EXCEPT !.gap = e.gap])
      /\ ResetMargin(h) = WithData(h, [d EXCEPT !.margin = e.margin])
      /\ ResetLayoutData(h) = WithData(h, e)
  BY DEF ResetGapSize, ResetMargin, ResetLayoutData
<1> HIDE DEF d, e
<1>3. [d EXCEPT !.gap = e.gap] \in LayoutData
  <2>1. e.gap \in 0..MaxGapSize BY <1>1, DatumFields
  <2> QED BY <1>1, <2>1 DEF LayoutData
<1>4. [d EXCEPT !.margin = e.margin] \in LayoutData BY <1>1, DatumFields, MarginData
<1> QED BY <1>1, <1>2, <1>3, <1>4, DatumSet

LEMMA SwitchedData ==
  ASSUME NEW h \in HandlerType
  PROVE  /\ \A d \in Directions : CycleLayoutData(h, d) \in HandlerType
         /\ SetPrevLayoutData(h) \in HandlerType
         /\ CopyDataFromPrevLayout(h) \in HandlerType
<1>1. h.kind \in Kinds /\ h.prevKind \in Kinds /\ h.sets[h.kind] \in DataSets BY DEF HandlerType
<1>2. \A d \in Directions : CycleLayoutData(h, d) \in HandlerType
  BY <1>1, CycledSet, PlacesSet DEF CycleLayoutData
<1>3. SetPrevLayoutData(h) \in HandlerType
  <2> DEFINE history == h.sets[h.kind].stack
             c == ActivateElement(h.sets[h.kind], history[Len(history)])
  <2>1. SetPrevLayoutData(h) = h \/ SetPrevLayoutData(h) = WithSet(h, c)
    BY DEF SetPrevLayoutData
  <2>2. c \in DataSets BY <1>1, ActivatedSet
  <2> QED BY <2>1, <2>2, PlacesSet
<1>4. CopyDataFromPrevLayout(h) \in HandlerType
  BY <1>1, ActiveDatum, DatumSet DEF CopyDataFromPrevLayout
<1> QED BY <1>2, <1>3, <1>4

LEMMA Saving == ASSUME NEW h \in HandlerType PROVE SavedLayout(h) \in FileType
<1> DEFINE els == h.sets[h.kind].elements
           row == h.data[h.kind]
           data == [i \in Places |-> row[els[i]]]
<1>1. h.kind \in Kinds /\ h.sets[h.kind] \in DataSets /\ row \in [Places -> LayoutData]
  BY DEF HandlerType
<1>2. els \in Seq(Places) /\ Len(els) = 3
  <2>1. IsCycle(h.sets[h.kind], Places) /\ Size(h.sets[h.kind]) = 3 BY <1>1, DataSet
  <2> QED BY <2>1, CycleParts
<1>3. SavedLayout(h) = [kind |-> h.kind, data |-> data] BY DEF SavedLayout
<1> HIDE DEF els, row
<1>4. \A i \in Places : els[i] \in Places
  <2>1. Places = 1..Len(els) BY <1>2 DEF Places
  <2>2. \A i \in 1..Len(els) : els[i] \in Places BY <1>2, ElementOfSeq
  <2> QED BY <2>1, <2>2
<1>5. data \in [Places -> LayoutData] BY <1>1, <1>4
<1> HIDE DEF data
<1> QED BY <1>1, <1>3, <1>5 DEF FileType

LEMMA Loading ==
  ASSUME NEW h \in HandlerType, NEW file \in FileType
  PROVE  LoadLayout(h, file) \in HandlerType
<1> DEFINE g == SetKind(h, file.kind)
           c == ThreePlaces(ClearCycle(g.sets[file.kind]))
           sets == [g.sets EXCEPT ![file.kind] = c]
           data == [g.data EXCEPT ![file.kind] = file.data]
<1>1. file.kind \in Kinds /\ file.data \in [Places -> LayoutData] BY DEF FileType
<1>2. g \in HandlerType BY <1>1, KindSet
<1>3. LoadLayout(h, file) = [g EXCEPT !.sets = sets, !.data = data] BY DEF LoadLayout
<1> HIDE DEF g
<1>4. c \in DataSets
  <2>1. IsCycle(g.sets[file.kind], Places) BY <1>1, <1>2, DataSet DEF HandlerType
  <2> QED BY <2>1, RefilledSet
<1> HIDE DEF c
<1>5. sets \in [Kinds -> DataSets] /\ data \in [Kinds -> [Places -> LayoutData]]
  BY <1>1, <1>2, <1>4 DEF HandlerType
<1> HIDE DEF sets, data
<1> QED BY <1>2, <1>3, <1>5 DEF HandlerType

LEMMA Fresh == NewHandler(Kinds) \in HandlerType
<1> DEFINE c == ThreePlaces(EmptyCycle(TRUE))
           sets == [k \in Kinds |-> c]
           data == [k \in Kinds |-> [p \in Places |-> DefaultData(k)]]
<1>1. c \in DataSets BY EmptySet, RefilledSet
<1>2. "Float" \in Kinds BY DEF Kinds
<1>3. NewHandler(Kinds) = [kind |-> "Float", prevKind |-> "Float", sets |-> sets, data |-> data]
  BY DEF NewHandler
<1>4. sets \in [Kinds -> DataSets]
  <2> HIDE DEF c
  <2> QED BY <1>1
<1>5. data \in [Kinds -> [Places -> LayoutData]]
  <2>1. \A k \in Kinds : DefaultData(k) \in LayoutData BY DefaultIsData
  <2> QED BY <2>1
<1> HIDE DEF sets, data
<1> QED BY <1>2, <1>3, <1>4, <1>5 DEF HandlerType

----------------------------------------------------------------------------
(* The handler under every change.                                         *)

LEMMA KindsKnown == Choices \subseteq Kinds /\ "Float" \in Kinds
BY DEF Kinds

LEMMA StepsAreInt ==
  /\ \A change \in GapSteps : change \in Int
  /\ \A change \in CountSteps : change \in Int
  /\ \A change \in FactorSteps : change \in Int
  /\ \A change \in MarginSteps : change \in Int
BY TilingAssumption

\* Every change of layout or data is one of the handler's methods.
LEMMA Changing ==
  ASSUME handler \in HandlerType,
         \/ ChooseLayout \/ ToggleLayout \/ AdjustGap \/ AdjustCount \/ AdjustFactor
         \/ AdjustMargin \/ Reset \/ SwitchData \/ CopyData
  PROVE  handler' \in HandlerType /\ UNCHANGED << views, saved >>
<1>1. CASE ChooseLayout
  BY <1>1, KindsKnown, KindSet DEF ChooseLayout, Change
<1>2. CASE ToggleLayout
  BY <1>2, KindsKnown, KindSet DEF ToggleLayout, Change
<1>3. CASE AdjustGap
  BY <1>3, StepsAreInt, Adjusted DEF AdjustGap, Change
<1>4. CASE AdjustCount
  BY <1>4, StepsAreInt, Adjusted DEF AdjustCount, Change
<1>5. CASE AdjustFactor
  BY <1>5, StepsAreInt, Adjusted DEF AdjustFactor, Change
<1>6. CASE AdjustMargin
  BY <1>6, StepsAreInt, MarginAdjusted DEF AdjustMargin, Change
<1>7. CASE Reset
  BY <1>7, ResetData DEF Reset, Change
<1>8. CASE SwitchData
  BY <1>8, SwitchedData DEF SwitchData, Change
<1>9. CASE CopyData
  BY <1>9, SwitchedData DEF CopyData, Change
<1> QED BY <1>1, <1>2, <1>3, <1>4, <1>5, <1>6, <1>7, <1>8, <1>9

LEMMA InitHandler == Init => HandlerInv
BY Fresh DEF Init, HandlerInv

LEMMA NextHandler == HandlerInv /\ [Next]_vars => HandlerInv'
<1> SUFFICES ASSUME HandlerInv, [Next]_vars PROVE HandlerInv'
  OBVIOUS
<1> USE DEF HandlerInv
<1>1. CASE ViewsChange
  <2>1. UNCHANGED << handler, saved >>
    BY <1>1 DEF ViewsChange, MapView, UnmapView, ToggleFloating, ToggleFullscreen, FocusView, Regroup
  <2> QED BY <2>1
<1>2. CASE \/ ChooseLayout \/ ToggleLayout \/ AdjustGap \/ AdjustCount \/ AdjustFactor
           \/ AdjustMargin \/ Reset \/ SwitchData \/ CopyData
  BY <1>2, Changing
<1>3. CASE SaveLayout
  <2>1. PICK slot \in Slots : saved' = [saved EXCEPT ![slot] = SavedLayout(handler)]
    BY <1>3 DEF SaveLayout
  <2>2. SavedLayout(handler) \in FileType BY Saving
  <2> QED BY <1>3, <2>1, <2>2 DEF SaveLayout
<1>4. CASE LoadSaved
  <2>1. PICK slot \in Slots : saved[slot] # Null /\ handler' = LoadLayout(handler, saved[slot])
    BY <1>4 DEF LoadSaved
  <2>2. saved[slot] \in FileType BY <2>1
  <2> QED BY <1>4, <2>1, <2>2, Loading DEF LoadSaved
<1>5. CASE Restart
  BY <1>5, Fresh DEF Restart
<1>6. CASE UNCHANGED vars
  BY <1>6 DEF vars
<1> QED BY <1>1, <1>2, <1>3, <1>4, <1>5, <1>6 DEF Next, LayoutChange

THEOREM HandlerInvariant == Spec => []HandlerInv
BY InitHandler, NextHandler, PTL DEF Spec

----------------------------------------------------------------------------
(* The type of the state.                                                  *)

ViewsInv == /\ views.tiled \in Nat
            /\ views \in Regrouped(views.fulls, views.floats, views.tiled, views.focus)
            /\ up \in BOOLEAN /\ edits \in 0..MaxEdits

LEMMA RegroupedIs ==
  ASSUME NEW fulls, NEW floats, NEW tiled, NEW focus, NEW v \in Regrouped(fulls, floats, tiled, focus)
  PROVE  v.tiled = tiled /\ v \in Regrouped(v.fulls, v.floats, v.tiled, v.focus)
BY DEF Regrouped

LEMMA PlaceUp == ASSUME NEW h, NEW v, Place(h, v) PROVE up' \in BOOLEAN
BY DEF Place

LEMMA RegroupKeeps ==
  ASSUME ViewsInv, NEW fulls, NEW floats, NEW tiled \in Nat, NEW focus,
         NEW v \in Regrouped(fulls, floats, tiled, focus), Regroup(v)
  PROVE  ViewsInv'
<1>1. views' = v /\ up' \in BOOLEAN /\ edits' = edits BY PlaceUp DEF Regroup
<1>2. v.tiled = tiled /\ v \in Regrouped(v.fulls, v.floats, v.tiled, v.focus) BY RegroupedIs
<1> QED BY <1>1, <1>2 DEF ViewsInv

LEMMA InitViews == Init => ViewsInv
<1>1. MaxEdits \in Nat BY TilingAssumption
<1> QED BY <1>1 DEF Init, ViewsInv, NoViews, Regrouped

LEMMA NextViews == ViewsInv /\ [Next]_vars => ViewsInv'
<1> SUFFICES ASSUME ViewsInv, [Next]_vars PROVE ViewsInv'
  OBVIOUS
<1>1. CASE MapView
  <2>1. views.tiled + 1 \in Nat BY DEF ViewsInv
  <2> QED BY <1>1, <2>1, RegroupKeeps DEF MapView
<1>2. CASE UnmapView
  <2>1. PICK f \in 0..1, m \in 0..1, t \in 0..1 :
          /\ f + m + t = 1 /\ f <= views.fulls /\ m <= views.floats /\ t <= views.tiled
          /\ \E focus \in Focuses(views.fulls - f, views.floats - m, views.tiled - t) :
               \E v \in Regrouped(views.fulls - f, views.floats - m, views.tiled - t, focus) :
                 Regroup(v)
    BY <1>2 DEF UnmapView
  <2>2. views.tiled - t \in Nat BY <2>1 DEF ViewsInv
  <2> QED BY <2>1, <2>2, RegroupKeeps
<1>3. CASE ToggleFloating
  <2>1. CASE FocusTiled
    <3>1. views.tiled - 1 \in Nat BY <2>1 DEF FocusTiled, ViewsInv
    <3>2. views.tiled + 1 \in Nat BY DEF ViewsInv
    <3> QED BY <1>3, <3>1, <3>2, RegroupKeeps DEF ToggleFloating
  <2>2. CASE ~ FocusTiled
    <3>1. views.tiled + 1 \in Nat BY DEF ViewsInv
    <3> QED BY <1>3, <2>2, <3>1, RegroupKeeps DEF ToggleFloating
  <2> QED BY <2>1, <2>2
<1>4. CASE ToggleFullscreen
  <2>1. CASE FocusTiled
    <3>1. views.tiled - 1 \in Nat BY <2>1 DEF FocusTiled, ViewsInv
    <3>2. views.tiled + 1 \in Nat BY DEF ViewsInv
    <3> QED BY <1>4, <3>1, <3>2, RegroupKeeps DEF ToggleFullscreen
  <2>2. CASE ~ FocusTiled
    <3>1. views.tiled + 1 \in Nat BY DEF ViewsInv
    <3> QED BY <1>4, <2>2, <3>1, RegroupKeeps DEF ToggleFullscreen
  <2> QED BY <2>1, <2>2
<1>5. CASE FocusView
  <2>1. PICK focus \in Focuses(views.fulls, views.floats, views.tiled) \ {views.focus} :
          views' = [views EXCEPT !.focus = focus,
                                 !.lead  = IF focus \in 1..views.tiled THEN focus ELSE @]
    BY <1>5 DEF FocusView
  <2>2. PICK lead \in (IF views.focus \in 1..views.tiled THEN {views.focus}
                       ELSE IF views.tiled = 0 THEN {0} ELSE 1..views.tiled) :
          views = [fulls |-> views.fulls, floats |-> views.floats, tiled |-> views.tiled,
                   lead |-> lead, focus |-> views.focus]
    BY DEF ViewsInv, Regrouped
  <2> DEFINE to == IF focus \in 1..views.tiled THEN focus ELSE lead
  <2>3. views' = [fulls |-> views.fulls, floats |-> views.floats, tiled |-> views.tiled,
                  lead |-> to, focus |-> focus]
    <3>1. views.lead = lead BY <2>2
    <3>2. views' = [views EXCEPT !.focus = focus, !.lead = to]
      <4>1. views' = [views EXCEPT !.focus = focus,
                                   !.lead = IF focus \in 1..views.tiled THEN focus ELSE views.lead]
        BY <2>1, <2>2
      <4> QED BY <3>1, <4>1
    <3> HIDE DEF to
    <3> QED BY <2>2, <3>2
  <2>4. views.tiled \in Nat BY DEF ViewsInv
  <2>5. to \in (IF focus \in 1..views.tiled THEN {focus}
                ELSE IF views.tiled = 0 THEN {0} ELSE 1..views.tiled)
    BY <2>2, <2>4
  <2> HIDE DEF to
  <2>6. views' \in Regrouped(views.fulls, views.floats, views.tiled, focus)
    BY <2>3, <2>5 DEF Regrouped
  <2>7. views'.tiled = views.tiled /\ views' \in Regrouped(views'.fulls, views'.floats, views'.tiled, views'.focus)
    BY <2>6, RegroupedIs
  <2>8. up' \in BOOLEAN /\ edits' = edits
    BY <1>5, PlaceUp DEF FocusView, ViewsInv
  <2> QED BY <2>4, <2>7, <2>8 DEF ViewsInv
<1>6. CASE \E h : Change(h)
  <2>1. PICK h : Change(h) BY <1>6
  <2>2. views' = views /\ up' \in BOOLEAN /\ edits' = edits + 1 /\ edits < MaxEdits
    BY <2>1, PlaceUp DEF Change
  <2>3. MaxEdits \in Nat BY TilingAssumption
  <2> QED BY <2>2, <2>3 DEF ViewsInv
<1>7. CASE SaveLayout
  BY <1>7 DEF SaveLayout, ViewsInv
<1>8. CASE LoadSaved
  BY <1>8, PlaceUp DEF LoadSaved, ViewsInv
<1>9. CASE Restart
  BY <1>9 DEF Restart, ViewsInv, NoViews, Regrouped
<1>10. CASE UNCHANGED vars
  BY <1>10 DEF vars, ViewsInv
<1>11. ASSUME \/ ChooseLayout \/ ToggleLayout \/ AdjustGap \/ AdjustCount \/ AdjustFactor
              \/ AdjustMargin \/ Reset \/ SwitchData \/ CopyData
       PROVE  \E h : Change(h)
  BY <1>11 DEF ChooseLayout, ToggleLayout, AdjustGap, AdjustCount, AdjustFactor, AdjustMargin,
     Reset, SwitchData, CopyData
<1> QED BY <1>1, <1>2, <1>3, <1>4, <1>5, <1>6, <1>7, <1>8, <1>9, <1>10, <1>11
        DEF Next, ViewsChange, LayoutChange

LEMMA TypeFollows == HandlerInv /\ ViewsInv => LayoutTypeOK
<1> SUFFICES ASSUME HandlerInv, ViewsInv PROVE LayoutTypeOK
  OBVIOUS
<1>1. handler.kind \in Kinds /\ handler.prevKind \in Kinds BY DEF HandlerInv, HandlerType
<1>2. ASSUME NEW k \in Kinds
      PROVE  /\ IsCycle(handler.sets[k], Places)
             /\ ActivePlace(handler, k) \in Places
             /\ \A p \in Places : /\ handler.data[k][p].gap \in 0..MaxGapSize
                                  /\ handler.data[k][p].count \in 0..MaxMainCount
                                  /\ handler.data[k][p].factor \in 5..95
                                  /\ \A e \in Edges : handler.data[k][p].margin[e] \in 0..MaxMargin[e]
  <2>1. handler.sets[k] \in DataSets /\ \A p \in Places : handler.data[k][p] \in LayoutData
    BY DEF HandlerInv, HandlerType
  <2>2. IsCycle(handler.sets[k], Places) BY <2>1, DataSet
  <2>3. ActivePlace(handler, k) \in Places BY <2>1, ActiveOfSet DEF ActivePlace
  <2>4. ASSUME NEW p \in Places
        PROVE  /\ handler.data[k][p].gap \in 0..MaxGapSize
               /\ handler.data[k][p].count \in 0..MaxMainCount
               /\ handler.data[k][p].factor \in 5..95
               /\ \A e \in Edges : handler.data[k][p].margin[e] \in 0..MaxMargin[e]
    <3> DEFINE d == handler.data[k][p]
    <3>1. d \in LayoutData BY <2>1
    <3> HIDE DEF d
    <3>2. \A e \in Edges : d.margin[e] \in Nat /\ d.margin[e] <= MaxMargin[e] /\ MaxMargin[e] \in Nat
      BY <3>1, DatumFields, MaxMarginNat
    <3>3. \A e \in Edges : d.margin[e] \in 0..MaxMargin[e] BY <3>2
    <3> QED BY <3>1, <3>3, DatumFields DEF d
  <2> QED BY <2>2, <2>3, <2>4
<1>3. \A slot \in Slots : saved[slot] = Null \/ saved[slot].kind \in Kinds
  BY DEF HandlerInv, FileType
<1> QED BY <1>1, <1>2, <1>3 DEF LayoutTypeOK, ViewsInv

\* Whatever the layouts, the views and the files, each layout keeps three data
\* within the limits of layout.hh, and one of them is active.
THEOREM TypeCorrect == Spec => []LayoutTypeOK
<1>1. Spec => []ViewsInv BY InitViews, NextViews, PTL DEF Spec
<1> QED BY <1>1, HandlerInvariant, TypeFollows, PTL

----------------------------------------------------------------------------
(* The tiles.                                                              *)

LEMMA ApartFollows == HandlerInv => TilesApart
<1> SUFFICES ASSUME HandlerInv, NEW kind \in ApartKinds,
                    NEW tiles \in Arrangements(kind, ActiveData(handler))
             PROVE  TilesLieApart(tiles, Inset(Screen, ActiveData(handler).margin))
  BY DEF TilesApart
<1> DEFINE d == ActiveData(handler)
<1>1. d \in LayoutData
  <2>1. handler \in HandlerType /\ handler.kind \in Kinds BY DEF HandlerInv, HandlerType
  <2> QED BY <2>1, ActiveDatum
<1>2. PICK n \in 1..MaxTiled : tiles \in {Arrange(kind, d, Screen, n, lead, lead) : lead \in 1..n}
  BY DEF Arrangements
<1>8. PICK lead \in 1..n : tiles = Arrange(kind, d, Screen, n, lead, lead)
  BY <1>2
<1> HIDE DEF d
<1>3. d.margin \in [Edges -> Int]
  <2>1. d.margin \in [Edges -> Nat] BY <1>1, DatumFields
  <2> QED BY <2>1
<1>4. d \in DataType
  <2>1. /\ d = [margin |-> d.margin, gap |-> d.gap, count |-> d.count, factor |-> d.factor]
        /\ d.gap \in Nat /\ d.count \in Nat /\ d.factor \in 0..100
    BY <1>1, DatumFields DEF LayoutData
  <2> QED BY <1>3, <2>1 DEF DataType
<1>5. Screen \in RegionType BY TilingAssumption DEF RegionType
<1>6. n \in Nat \ {0} BY TilingAssumption
<1>7. TilesLieApart(Arrange(kind, d, Screen, n, lead, lead), Inset(Screen, d.margin))
  BY <1>3, <1>4, <1>5, <1>6, ArrangeApart
<1> QED BY <1>8, <1>7 DEF d

\* No two tiles of a layout that is not to overlap do, on any screen, with any
\* number of views and after any changes of the layout data.
THEOREM Sharing == Spec => []TilesApart
BY HandlerInvariant, ApartFollows, PTL

----------------------------------------------------------------------------
(* What is on the screen.                                                  *)

\* A layout that is not arranged again when the focus moves does not depend
\* on the focus.
LEMMA FocusFree ==
  ASSUME NEW kind, ~ Config(kind).persistent, ~ Config(kind).single, NEW d, NEW v, NEW w,
         v.fulls = w.fulls, v.floats = w.floats, v.tiled = w.tiled
  PROVE  ArrangeWorkspace(kind, d, v) = ArrangeWorkspace(kind, d, w)
<1>1. kind \notin PersistentKinds
  <2>1. CASE kind \in FreeKinds BY <2>1 DEF Config, FreeConfig, PersistentKinds, PaperKinds, FreeKinds
  <2>2. CASE kind \notin FreeKinds BY <2>2 DEF Config, TiledConfig
  <2> QED BY <2>1, <2>2
<1>2. kind \notin SingleKinds /\ kind \notin {"Paper", "CompactPaper", "OverlappingPaper"}
  BY <1>1 DEF PersistentKinds, PaperKinds
<1>3. Handed(kind, v) = Handed(kind, w) /\ FloatRegions(kind, v) = FloatRegions(kind, w)
  BY DEF Handed, FloatRegions
<1>4. \A n, s : Cells(kind, d, s, n, v.lead, v.focus) = Cells(kind, d, s, n, w.lead, w.focus)
  <2> SUFFICES ASSUME NEW n, NEW s
               PROVE Cells(kind, d, s, n, v.lead, v.focus) = Cells(kind, d, s, n, w.lead, w.focus)
    OBVIOUS
  <2>1. TiledCells(kind, d, s, n, v.lead) = TiledCells(kind, d, s, n, w.lead)
    BY <1>2 DEF TiledCells
  <2> QED BY <1>2, <2>1 DEF Cells
<1>5. Arrange(kind, d, Screen, Handed(kind, v), v.lead, v.focus)
        = Arrange(kind, d, Screen, Handed(kind, w), w.lead, w.focus)
  BY <1>3, <1>4 DEF Arrange
<1>6. ShownFullscreen(kind, FullscreenRegions(kind, d, v), v.focus)
        = ShownFullscreen(kind, FullscreenRegions(kind, d, w), w.focus)
  BY DEF ShownFullscreen, FullscreenRegions
<1> QED BY <1>3, <1>5, <1>6 DEF ArrangeWorkspace

LEMMA NothingPlaced == ASSUME NEW d PROVE ArrangeWorkspace("Float", d, NoViews) = << >>
<1>1. [i \in 1..0 |-> Screen] = << >> /\ [i \in 1..0 |-> FreeRegion] = << >> OBVIOUS
<1>2. /\ Config("Float").free /\ ~ Config("Float").gap /\ ~ Config("Float").single
      /\ NoViews.fulls = 0 /\ NoViews.floats = 0 /\ NoViews.tiled = 0
  BY DEF Config, FreeConfig, FreeKinds, SingleKinds, NoViews
<1>3. FullscreenRegions("Float", d, NoViews) = << >> BY <1>1, <1>2 DEF FullscreenRegions, WithGaps
<1>4. FloatRegions("Float", NoViews) = << >> BY <1>1, <1>2 DEF FloatRegions
<1>5. Arrange("Float", d, Screen, Handed("Float", NoViews), NoViews.lead, NoViews.focus) = << >>
  <2>1. Handed("Float", NoViews) = 0 BY <1>2 DEF Handed
  <2>2. \A s, lead, focus : Cells("Float", d, s, 0, lead, focus) = << >> BY DEF Cells
  <2> QED BY <1>2, <2>1, <2>2 DEF Arrange, WithGaps
<1>6. ShownFullscreen("Float", << >>, NoViews.focus) = << >> BY <1>2 DEF ShownFullscreen
<1> QED BY <1>3, <1>4, <1>5, <1>6 DEF ArrangeWorkspace

LEMMA InitPlaced == Init => PlacedIsCurrent
BY NothingPlaced DEF Init, PlacedIsCurrent, NewHandler

LEMMA PlacedAnew ==
  ASSUME Place(handler', views') PROVE PlacedIsCurrent'
BY DEF Place, PlacedIsCurrent

LEMMA NextPlaced == ViewsInv /\ PlacedIsCurrent /\ [Next]_vars => PlacedIsCurrent'
<1> SUFFICES ASSUME ViewsInv, PlacedIsCurrent, [Next]_vars PROVE PlacedIsCurrent'
  OBVIOUS
<1>1. CASE MapView \/ UnmapView \/ ToggleFloating \/ ToggleFullscreen
  <2>1. \E v : Regroup(v) BY <1>1 DEF MapView, UnmapView, ToggleFloating, ToggleFullscreen
  <2>2. Place(handler', views') BY <2>1 DEF Regroup
  <2> QED BY <2>2, PlacedAnew
<1>2. CASE FocusView
  <2>1. CASE Config(handler.kind).persistent \/ Config(handler.kind).single
    <3>1. Place(handler', views') BY <1>2, <2>1 DEF FocusView
    <3> QED BY <3>1, PlacedAnew
  <2>2. CASE ~ (Config(handler.kind).persistent \/ Config(handler.kind).single)
    <3>1. UNCHANGED << handler, placed, up >> BY <1>2, <2>2 DEF FocusView
    <3>2. PICK focus, lead : views' = [views EXCEPT !.focus = focus, !.lead = lead]
      BY <1>2 DEF FocusView
    <3>3. views'.fulls = views.fulls /\ views'.floats = views.floats /\ views'.tiled = views.tiled
      BY <3>2 DEF ViewsInv, Regrouped
    <3>4. ArrangeWorkspace(handler.kind, ActiveData(handler), views')
            = ArrangeWorkspace(handler.kind, ActiveData(handler), views)
      BY <2>2, <3>3, FocusFree
    <3>5. placed' = placed /\ up' = up /\ handler' = handler BY <3>1
    <3> QED BY <3>4, <3>5 DEF PlacedIsCurrent
  <2> QED BY <2>1, <2>2
<1>3. CASE \/ ChooseLayout \/ ToggleLayout \/ AdjustGap \/ AdjustCount \/ AdjustFactor
           \/ AdjustMargin \/ Reset \/ SwitchData \/ CopyData
  <2>1. \E h : Change(h)
    BY <1>3 DEF ChooseLayout, ToggleLayout, AdjustGap, AdjustCount, AdjustFactor, AdjustMargin,
       Reset, SwitchData, CopyData
  <2>2. Place(handler', views') BY <2>1 DEF Change
  <2> QED BY <2>2, PlacedAnew
<1>4. CASE LoadSaved
  <2>1. Place(handler', views') BY <1>4 DEF LoadSaved
  <2> QED BY <2>1, PlacedAnew
<1>5. CASE Restart
  <2>1. handler'.kind = "Float" BY <1>5 DEF Restart, NewHandler
  <2>2. placed' = << >> /\ views' = NoViews BY <1>5 DEF Restart
  <2> QED BY <2>1, <2>2, NothingPlaced DEF PlacedIsCurrent
<1>6. CASE SaveLayout \/ UNCHANGED vars
  <2>1. UNCHANGED << handler, views, placed, up >> BY <1>6 DEF SaveLayout, vars
  <2> QED BY <2>1 DEF PlacedIsCurrent, ActiveData, ActivePlace
<1> QED BY <1>1, <1>2, <1>3, <1>4, <1>5, <1>6 DEF Next, ViewsChange, LayoutChange

\* The regions on the screen are those the layout gives to the views of the
\* moment, whether or not focus_view arranged them again.
THEOREM Placement == Spec => []PlacedIsCurrent
<1>1. Spec => []ViewsInv BY InitViews, NextViews, PTL DEF Spec
<1> QED BY <1>1, InitPlaced, NextPlaced, PTL DEF Spec

----------------------------------------------------------------------------
(* What a change leaves alone.                                             *)

\* The data of two handlers differ at the active place of the first at most.
Local(h, g) == \A k \in Kinds, p \in Places :
                 g.data[k][p] # h.data[k][p] => k = h.kind /\ p = ActivePlace(h, k)

LEMMA DatumIsLocal == ASSUME NEW h \in HandlerType, NEW d PROVE Local(h, WithData(h, d))
<1>1. h.kind \in Kinds /\ h.data \in [Kinds -> [Places -> LayoutData]] BY DEF HandlerType
<1>2. ActivePlace(h, h.kind) \in Places BY <1>1, ActiveDatum
<1>3. WithData(h, d).data = [h.data EXCEPT ![h.kind][ActivePlace(h, h.kind)] = d]
  BY DEF WithData, HandlerType
<1> HIDE DEF ActivePlace
<1> QED BY <1>1, <1>2, <1>3 DEF Local

\* A change of the kind, and one of the active place, leaves all data alone.
LEMMA KindIsLocal ==
  ASSUME NEW h \in HandlerType, NEW x
  PROVE  Local(h, SetKind(h, x)) /\ Local(h, SetPrevKind(h)) /\ Local(h, WithSet(h, x))
BY DEF Local, SetKind, SetPrevKind, WithSet, HandlerType

LEMMA ChangesAreLocal ==
  ASSUME handler \in HandlerType,
         \/ ChooseLayout \/ ToggleLayout \/ AdjustGap \/ AdjustCount \/ AdjustFactor
         \/ AdjustMargin \/ Reset \/ SwitchData \/ CopyData
  PROVE  Local(handler, handler') /\ edits' = edits + 1
<1>1. CASE ChooseLayout BY <1>1, KindIsLocal DEF ChooseLayout, Change
<1>2. CASE ToggleLayout BY <1>2, KindIsLocal DEF ToggleLayout, Change
<1>3. CASE AdjustGap BY <1>3, DatumIsLocal DEF AdjustGap, Change, ChangeGapSize
<1>4. CASE AdjustCount BY <1>4, DatumIsLocal DEF AdjustCount, Change, ChangeMainCount
<1>5. CASE AdjustFactor BY <1>5, DatumIsLocal DEF AdjustFactor, Change, ChangeMainFactor
<1>6. CASE AdjustMargin
  BY <1>6, DatumIsLocal DEF AdjustMargin, Change, ChangeMargin, ChangeMarginAt
<1>7. CASE Reset BY <1>7, DatumIsLocal DEF Reset, Change, ResetGapSize, ResetMargin, ResetLayoutData
<1>8. CASE SwitchData
  <2>1. Local(handler, handler) BY DEF Local
  <2> QED BY <1>8, <2>1, KindIsLocal DEF SwitchData, Change, CycleLayoutData, SetPrevLayoutData
<1>9. CASE CopyData BY <1>9, DatumIsLocal DEF CopyData, Change, CopyDataFromPrevLayout
<1> QED BY <1>1, <1>2, <1>3, <1>4, <1>5, <1>6, <1>7, <1>8, <1>9

\* A file replaces the data of the kind it names.
LEMMA LoadingIsLocal ==
  ASSUME NEW h \in HandlerType, NEW file \in FileType, NEW k \in Kinds, NEW p \in Places,
         LoadLayout(h, file).data[k][p] # h.data[k][p]
  PROVE  file.kind = k /\ file.data = LoadLayout(h, file).data[k]
<1>1. file.kind \in Kinds /\ h.data \in [Kinds -> [Places -> LayoutData]] BY DEF HandlerType, FileType
<1>2. SetKind(h, file.kind) \in HandlerType /\ SetKind(h, file.kind).data = h.data
  BY <1>1, KindSet DEF SetKind, HandlerType
<1>3. LoadLayout(h, file).data = [h.data EXCEPT ![file.kind] = file.data]
  BY <1>2 DEF LoadLayout, HandlerType
<1> QED BY <1>1, <1>3

LEMMA StepsStayLocal ==
  ASSUME HandlerInv, ViewsInv, [Next]_vars, ~ Restart,
         NEW k \in Kinds, NEW p \in Places, handler'.data[k][p] # handler.data[k][p]
  PROVE  \/ edits' > edits /\ k = handler.kind /\ p = ActivePlace(handler, k)
         \/ \E slot \in Slots : /\ saved[slot] # Null
                                /\ saved[slot].kind = k
                                /\ saved[slot].data = handler'.data[k]
<1>0. handler \in HandlerType BY DEF HandlerInv
<1>1. handler' # handler OBVIOUS
<1>2. ~ ViewsChange /\ ~ SaveLayout /\ ~ UNCHANGED vars
  BY <1>1 DEF ViewsChange, MapView, UnmapView, ToggleFloating, ToggleFullscreen, FocusView, Regroup,
              SaveLayout, vars
<1>3. CASE LoadSaved
  <2>1. PICK slot \in Slots : saved[slot] # Null /\ handler' = LoadLayout(handler, saved[slot])
    BY <1>3 DEF LoadSaved
  <2>2. saved[slot] \in FileType BY <2>1 DEF HandlerInv
  <2> QED BY <1>0, <2>1, <2>2, LoadingIsLocal
<1>4. CASE ~ LoadSaved
  <2>1. Local(handler, handler') /\ edits' = edits + 1
    BY <1>0, <1>2, <1>4, ChangesAreLocal DEF Next, LayoutChange
  <2>2. edits' > edits BY <2>1 DEF ViewsInv
  <2> QED BY <2>1, <2>2 DEF Local
<1> QED BY <1>3, <1>4

\* A change touches the active data of the layout in use and nothing else that
\* any layout keeps, and loading a file only the data of the layout it names.
THEOREM Locality == Spec => EditsStayLocal
<1>1. HandlerInv /\ ViewsInv /\ [Next]_vars =>
        [up /\ ~ Restart =>
           \A k \in Kinds, p \in Places :
             handler'.data[k][p] # handler.data[k][p] =>
               \/ edits' > edits /\ k = handler.kind /\ p = ActivePlace(handler, k)
               \/ \E slot \in Slots : /\ saved[slot] # Null
                                      /\ saved[slot].kind = k
                                      /\ saved[slot].data = handler'.data[k]]_vars
  BY StepsStayLocal
<1> QED BY <1>1, InitViews, NextViews, HandlerInvariant, PTL DEF Spec, EditsStayLocal
----------------------------------------------------------------------------
(* The sum of numbers that have one of two values.                         *)

Pick(t) == CHOOSE x \in t : TRUE
Added(f, g, t) == IF t = {} THEN 0 ELSE f[Pick(t)] + g[t \ {Pick(t)}]
IsTotal(f, g, S) == g = [t \in SUBSET S |-> Added(f, g, t)]

\* What a nonempty set has as soon as the sets of one element less have it, all
\* subsets of a finite set have: a least counterexample has a lesser one.
LEMMA SubsetInduction ==
  ASSUME NEW S, IsFiniteSet(S), NEW G, {} \in G,
         \A t \in SUBSET S : t # {} /\ (\A x \in t : t \ {x} \in G) => t \in G
  PROVE  \A t \in SUBSET S : t \in G
<1> DEFINE R == OpToRel(<, Nat)
           D == {k \in Nat : \E t \in SUBSET S : t \notin G /\ Cardinality(t) = k}
<1>1. SUFFICES ASSUME NEW t \in SUBSET S, t \notin G PROVE FALSE OBVIOUS
<1>2. \A u \in SUBSET S : IsFiniteSet(u) /\ Cardinality(u) \in Nat
  BY FS_Subset, FS_CardinalityType
<1>3. Cardinality(t) \in D /\ D \subseteq Nat BY <1>1, <1>2
<1>4. IsWellFoundedOn(R, Nat) BY NatLessThanWellFounded
<1> HIDE DEF R, D
<1>5. PICK k \in D : \A j \in D : << j, k >> \notin R BY <1>3, <1>4, WFMin
<1>6. PICK u \in SUBSET S : u \notin G /\ Cardinality(u) = k BY <1>5 DEF D
<1>7. PICK x \in u : u \ {x} \notin G BY <1>6
<1>8. u \ {x} \in SUBSET S /\ Cardinality(u \ {x}) = k - 1 BY <1>2, <1>6, FS_RemoveElement
<1>9. k - 1 \in Nat /\ k \in Nat BY <1>2, <1>3, <1>8
<1>10. k - 1 \in D BY <1>7, <1>8, <1>9 DEF D
<1>11. << k - 1, k >> \in R BY <1>9 DEF R, OpToRel
<1> QED BY <1>5, <1>10, <1>11

LEMMA TotalUnique ==
  ASSUME NEW f, NEW S, IsFiniteSet(S), NEW g, IsTotal(f, g, S), NEW h, IsTotal(f, h, S)
  PROVE  g[S] = h[S]
<1> DEFINE G == {t \in SUBSET S : g[t] = h[t]}
<1>1. \A t \in SUBSET S : g[t] = Added(f, g, t) /\ h[t] = Added(f, h, t) BY DEF IsTotal
<1>2. {} \in G BY <1>1 DEF Added
<1>3. ASSUME NEW t \in SUBSET S, t # {}, \A x \in t : t \ {x} \in G PROVE t \in G
  <2>1. Pick(t) \in t BY <1>3 DEF Pick
  <2>2. t \ {Pick(t)} \in G BY <1>3, <2>1
  <2> QED BY <1>1, <1>3, <2>2 DEF Added
<1> HIDE DEF G
<1>4. \A t \in SUBSET S : t \in G BY <1>2, <1>3, SubsetInduction
<1> QED BY <1>4 DEF G

\* One element less.
Lessens(t, A, x) ==
  /\ Cardinality((t \ {x}) \intersect A) \in Nat /\ Cardinality((t \ {x}) \ A) \in Nat
  /\ x \in A => /\ Cardinality(t \intersect A) = Cardinality((t \ {x}) \intersect A) + 1
                /\ Cardinality(t \ A) = Cardinality((t \ {x}) \ A)
  /\ x \notin A => /\ Cardinality(t \intersect A) = Cardinality((t \ {x}) \intersect A)
                   /\ Cardinality(t \ A) = Cardinality((t \ {x}) \ A) + 1

LEMMA OneLess ==
  ASSUME NEW t, IsFiniteSet(t), NEW A, NEW x \in t
  PROVE  Lessens(t, A, x)
<1> DEFINE u == t \intersect A
           v == t \ A
<1>1. IsFiniteSet(u) /\ IsFiniteSet(v) /\ IsFiniteSet(u \ {x}) /\ IsFiniteSet(v \ {x})
  BY FS_Subset
<1>2. /\ Cardinality(u) \in Nat /\ Cardinality(v) \in Nat
      /\ Cardinality(u \ {x}) \in Nat /\ Cardinality(v \ {x}) \in Nat
      /\ x \in u => Cardinality(u \ {x}) = Cardinality(u) - 1
      /\ x \in v => Cardinality(v \ {x}) = Cardinality(v) - 1
  BY <1>1, FS_CardinalityType, FS_RemoveElement
<1>3. (t \ {x}) \intersect A = u \ {x} /\ (t \ {x}) \ A = v \ {x} OBVIOUS
<1>4. CASE x \in A
  <2>1. x \in u /\ v \ {x} = v BY <1>4
  <2> HIDE DEF u, v
  <2>2. Cardinality(u) = Cardinality(u \ {x}) + 1 /\ Cardinality(v) = Cardinality(v \ {x})
    BY <1>2, <2>1
  <2> QED BY <1>2, <1>3, <1>4, <2>2 DEF u, v, Lessens
<1>5. CASE x \notin A
  <2>1. x \in v /\ u \ {x} = u BY <1>5
  <2> HIDE DEF u, v
  <2>2. Cardinality(u) = Cardinality(u \ {x}) /\ Cardinality(v) = Cardinality(v \ {x}) + 1
    <3>1. Cardinality(u) = Cardinality(u \ {x}) BY <2>1
    <3>2. Cardinality(v \ {x}) = Cardinality(v) - 1 BY <1>2, <2>1
    <3> QED BY <1>2, <3>1, <3>2
  <2> QED BY <1>2, <1>3, <1>5, <2>2 DEF u, v, Lessens
<1> QED BY <1>4, <1>5

LEMMA OneMore == ASSUME NEW k \in Nat, NEW a \in Int PROVE (k + 1) * a = a + k * a /\ k * a \in Int
OBVIOUS

LEMMA IntervalSize ==
  ASSUME NEW n \in Nat
  PROVE  IsFiniteSet(1..n) /\ Cardinality(1..n) = n
<1>1. n \in Int /\ 1 \in Int OBVIOUS
<1>2. n - 1 + 1 = n OBVIOUS
<1> QED BY <1>1, <1>2, FS_Interval

Total(f) == FoldFunction(+, 0, f)
OfTwo(f, n, A, a, b) == DOMAIN f = 1..n /\ \A i \in 1..n : f[i] = IF i \in A THEN a ELSE b

LEMMA TwoSizes ==
  ASSUME NEW n \in Nat, NEW A \in SUBSET (1..n), NEW a \in Int, NEW b \in Int,
         NEW f, OfTwo(f, n, A, a, b)
  PROVE  Total(f) = Cardinality(A) * a + (n - Cardinality(A)) * b
<1> DEFINE S == 1..n
           value(t) == Cardinality(t \intersect A) * a + Cardinality(t \ A) * b
           g == [t \in SUBSET S |-> value(t)]
           h == CHOOSE e : IsTotal(f, e, S)
<1>1. IsFiniteSet(S) /\ Cardinality(S) = n BY IntervalSize
<1>0. DOMAIN f = 1..n /\ \A i \in 1..n : f[i] = IF i \in A THEN a ELSE b BY DEF OfTwo
<1>2. Total(f) = h[S]
  BY <1>0 DEF Total, FoldFunction, FoldFunctionOnSet, MapThenFoldSet, IsTotal, Added, Pick
<1>3. IsTotal(f, g, S)
  <2>1. ASSUME NEW t \in SUBSET S PROVE value(t) = Added(f, g, t)
    <3>1. CASE t = {}
      <4>1. Cardinality(t \intersect A) = 0 /\ Cardinality(t \ A) = 0
        <5>1. t \intersect A = {} /\ t \ A = {} BY <3>1
        <5> QED BY <5>1, FS_EmptySet
      <4> QED BY <3>1, <4>1 DEF Added
    <3>2. CASE t # {}
      <4> DEFINE x == Pick(t)
                 k == Cardinality((t \ {x}) \intersect A)
                 j == Cardinality((t \ {x}) \ A)
      <4>1. x \in t BY <3>2 DEF Pick
      <4>2. IsFiniteSet(t) BY <1>1, FS_Subset
      <4>3. Added(f, g, t) = f[x] + (k * a + j * b)
        <5>1. t \ {x} \in SUBSET S OBVIOUS
        <5> QED BY <3>2, <5>1 DEF Added
      <4> HIDE DEF x
      <4>4. /\ k \in Nat /\ j \in Nat
            /\ x \in A => Cardinality(t \intersect A) = k + 1 /\ Cardinality(t \ A) = j
            /\ x \notin A => Cardinality(t \intersect A) = k /\ Cardinality(t \ A) = j + 1
        <5>1. Lessens(t, A, x) BY <4>1, <4>2, OneLess
        <5> QED BY <5>1 DEF Lessens
      <4>5. f[x] = IF x \in A THEN a ELSE b BY <1>0, <4>1
      <4> HIDE DEF k, j, g
      <4>6. /\ (k + 1) * a = a + k * a /\ k * a \in Int
            /\ (j + 1) * b = b + j * b /\ j * b \in Int
        BY <4>4, OneMore
      <4>7. CASE x \in A
        <5>1. value(t) = (k + 1) * a + j * b BY <4>4, <4>7
        <5>2. Added(f, g, t) = a + (k * a + j * b) BY <4>3, <4>5, <4>7
        <5> HIDE DEF value
        <5> QED BY <4>6, <5>1, <5>2
      <4>8. CASE x \notin A
        <5>1. value(t) = k * a + (j + 1) * b BY <4>4, <4>8
        <5>2. Added(f, g, t) = b + (k * a + j * b) BY <4>3, <4>5, <4>8
        <5> HIDE DEF value
        <5> QED BY <4>6, <5>1, <5>2
      <4> QED BY <4>7, <4>8
    <3> QED BY <3>1, <3>2
  <2> HIDE DEF value
  <2>2. g = [t \in SUBSET S |-> Added(f, g, t)] BY <2>1
  <2> QED BY <2>2 DEF IsTotal
<1>4. IsTotal(f, h, S) BY <1>3
<1>5. g[S] = value(S) OBVIOUS
<1>6. S \intersect A = A /\ Cardinality(S \ A) = n - Cardinality(A)
  <2>1. S \intersect A = A /\ S \ (S \ A) = A OBVIOUS
  <2>2. Cardinality(S \ A) = Cardinality(S) - Cardinality(S \intersect A) BY <1>1, FS_Difference
  <2> QED BY <1>1, <2>1, <2>2
<1> HIDE DEF S, g, h
<1>7. h[S] = g[S] BY <1>1, <1>3, <1>4, TotalUnique
<1> QED BY <1>2, <1>5, <1>6, <1>7

----------------------------------------------------------------------------
(* What the divisions round off.                                           *)

Area(cells, n) == Total([i \in 1..n |-> cells[i].w * cells[i].h])

\* Less than a line for each cell is left of s.
Fills(cells, n, s) == s.w * s.h - Area(cells, n) <= (n - 1) * Longest(s)

\* A region that has an extent.
Room(s) == s \in RegionType /\ s.w \in Nat \ {0} /\ s.h \in Nat \ {0}

LEMMA LongestNat ==
  ASSUME NEW s, Room(s)
  PROVE  Longest(s) \in Nat /\ s.w <= Longest(s) /\ s.h <= Longest(s)
BY DEF Longest, Room

LEMMA Remainder ==
  ASSUME NEW a \in Nat, NEW n \in Nat \ {0}
  PROVE  /\ Quot(a, n) \in Nat /\ n * Quot(a, n) \in Nat
         /\ a - n * Quot(a, n) \in 0..(n - 1)
<1>1. Quot(a, n) = a \div n BY DEF Quot
<1>2. a \div n \in Nat /\ a % n \in 0..(n - 1) OBVIOUS
<1>3. a = n * (a \div n) + (a % n) OBVIOUS
<1>4. n * (a \div n) \in Nat BY <1>2
<1> QED BY <1>1, <1>2, <1>3, <1>4

\* A rest of at most k lines is not more than k times a longer line.
LEMMA LinesBound ==
  ASSUME NEW l \in Nat, NEW w \in Nat, w <= l, NEW k \in Nat, NEW r \in 0..k
  PROVE  w * r \in Nat /\ w * r <= k * l
<1>1. w * r <= w * k BY Multiples
<1>2. w * k <= l * k BY Multiples
<1>3. w * k \in Int /\ l * k \in Int /\ l * k = k * l /\ w * r \in Nat BY Products
<1> QED BY <1>1, <1>2, <1>3

\* The area of cells of which those in A have one size and the others another.
CellsOfTwo(cells, n, A, a, b) ==
  \A i \in 1..n : cells[i].w * cells[i].h = IF i \in A THEN a ELSE b

LEMMA CellsOfTwoSizes ==
  ASSUME NEW n \in Nat, NEW A \in SUBSET (1..n), NEW a \in Int, NEW b \in Int, NEW cells,
         CellsOfTwo(cells, n, A, a, b)
  PROVE  Area(cells, n) = Cardinality(A) * a + (n - Cardinality(A)) * b
<1> DEFINE f == [i \in 1..n |-> cells[i].w * cells[i].h]
<1>1. OfTwo(f, n, A, a, b) BY DEF OfTwo, CellsOfTwo
<1>2. Area(cells, n) = Total(f) BY DEF Area
<1> HIDE DEF f
<1> QED BY <1>1, <1>2, TwoSizes

LEMMA AllOfOneSize ==
  ASSUME NEW n \in Nat \ {0}, NEW w \in Nat, NEW h \in Nat, NEW cells,
         \A i \in 1..n : cells[i].w = w /\ cells[i].h = h
  PROVE  Area(cells, n) = n * (w * h)
<1> DEFINE A == 1..n
           a == w * h
<1>1. A \in SUBSET (1..n) /\ Cardinality(A) = n
  <2>1. Cardinality(1..n) = n BY IntervalSize
  <2> QED BY <2>1
<1>2. a \in Int BY Products
<1>3. CellsOfTwo(cells, n, A, a, a) BY DEF CellsOfTwo
<1> HIDE DEF a, A
<1>4. Area(cells, n) = n * a + (n - n) * a BY <1>1, <1>2, <1>3, CellsOfTwoSizes
<1>5. n * a \in Int /\ (n - n) * a = 0 BY <1>2
<1> QED BY <1>4, <1>5 DEF a

LEMMA VerticalStackFills ==
  ASSUME NEW s, Room(s), NEW n \in Nat \ {0}
  PROVE  Fills(ArrangeVerticalStack(s, n), n, s)
<1> DEFINE q == Quot(s.h, n)
           r == s.h - n * q
           w == s.w
<1>1. s \in RegionType /\ w \in Nat /\ s.h \in Nat BY DEF Room
<1>2. q \in Nat /\ n * q \in Nat /\ r \in 0..(n - 1) BY <1>1, Remainder
<1>3. \A i \in 1..n : /\ ArrangeVerticalStack(s, n)[i].w = w
                      /\ ArrangeVerticalStack(s, n)[i].h = q
  BY <1>1, PiledCell DEF ArrangeVerticalStack
<1>4. s.h = n * q + r BY <1>1, <1>2
<1> HIDE DEF q, r, w
<1>5. Area(ArrangeVerticalStack(s, n), n) = n * (w * q) BY <1>1, <1>2, <1>3, AllOfOneSize
<1>6. w * s.h = n * (w * q) + w * r
  <2>1. w * (n * q + r) = w * (n * q) + w * r BY <1>1, <1>2
  <2>2. w * (n * q) = n * (w * q) BY <1>1, <1>2
  <2> QED BY <1>4, <2>1, <2>2
<1>7. Longest(s) \in Nat /\ w <= Longest(s) BY LongestNat DEF w
<1>8. w * r \in Nat /\ w * r <= (n - 1) * Longest(s) BY <1>1, <1>2, <1>7, LinesBound
<1>9. n * (w * q) \in Int BY <1>1, <1>2, Products
<1>10. s.w * s.h = n * (w * q) + w * r BY <1>6 DEF w
<1>11. (n - 1) * Longest(s) \in Int BY <1>7, Products
<1> QED BY <1>5, <1>8, <1>9, <1>10, <1>11 DEF Fills

LEMMA HorizontalStackFills ==
  ASSUME NEW s, Room(s), NEW n \in Nat \ {0}
  PROVE  Fills(ArrangeHorizontalStack(s, n), n, s)
<1> DEFINE q == Quot(s.w, n)
           r == s.w - n * q
           h == s.h
<1>1. s \in RegionType /\ h \in Nat /\ s.w \in Nat BY DEF Room
<1>2. q \in Nat /\ n * q \in Nat /\ r \in 0..(n - 1) BY <1>1, Remainder
<1>3. \A i \in 1..n : /\ ArrangeHorizontalStack(s, n)[i].w = q
                      /\ ArrangeHorizontalStack(s, n)[i].h = h
  BY <1>1, BesideCell DEF ArrangeHorizontalStack
<1>4. s.w = n * q + r BY <1>1, <1>2
<1> HIDE DEF q, r, h
<1>5. Area(ArrangeHorizontalStack(s, n), n) = n * (q * h) BY <1>1, <1>2, <1>3, AllOfOneSize
<1>6. s.w * h = n * (q * h) + h * r
  <2>1. (n * q + r) * h = (n * q) * h + h * r BY <1>1, <1>2
  <2>2. (n * q) * h = n * (q * h) BY <1>1, <1>2
  <2> QED BY <1>4, <2>1, <2>2
<1>7. Longest(s) \in Nat /\ h <= Longest(s) BY LongestNat DEF h
<1>8. h * r \in Nat /\ h * r <= (n - 1) * Longest(s) BY <1>1, <1>2, <1>7, LinesBound
<1>9. n * (q * h) \in Int BY <1>1, <1>2, Products
<1>10. s.w * s.h = n * (q * h) + h * r BY <1>6 DEF h
<1>11. (n - 1) * Longest(s) \in Int BY <1>7, Products
<1> QED BY <1>5, <1>8, <1>9, <1>10, <1>11 DEF Fills

\* Of two columns both lose less than a line for each of their cells.
LEMMA DoubleStackFills ==
  ASSUME NEW d \in DataType, NEW s, Room(s), NEW n \in Nat \ {0}
  PROVE  Fills(ArrangeDoubleStack(d, s, n), n, s)
<1> DEFINE cells == ArrangeDoubleStack(d, s, n)
           a == MainColumn(d, s, n)
           b == StackColumn(d, s)
           c == d.count
<1>0. c \in Nat /\ s \in RegionType BY DEF DataType, Room
<1>1. CASE n <= c
  <2>1. a = s BY <1>1, <1>0 DEF MainColumn, RegionType
  <2>2. cells = ArrangeVerticalStack(s, n)
    BY <1>1, <1>0, <2>1 DEF ArrangeDoubleStack, ArrangeVerticalStack, MainCount
  <2> QED BY <2>2, VerticalStackFills
<1>2. CASE c = 0
  <2>1. b = s BY <1>2 DEF StackColumn
  <2>2. cells = ArrangeVerticalStack(s, n)
    <3>1. \A i \in 1..n : ~ (i <= c) /\ i - c = i BY <1>2
    <3>2. n - c = n BY <1>2
    <3> QED BY <2>1, <3>1, <3>2 DEF ArrangeDoubleStack, ArrangeVerticalStack
  <2> QED BY <2>2, VerticalStackFills
<1>3. CASE 0 < c /\ c < n
  <2> DEFINE p == Share(s.w, d.factor)
             e == s.w - p
             k == n - c
             q == Quot(s.h, c)
             u == Quot(s.h, k)
             r == s.h - c * q
             t == s.h - k * u
             A == 1..c
  <2>1. s.w \in Nat /\ s.h \in Nat /\ s.w \in Int BY DEF Room
  <2>2. p \in 0..s.w
    <3>1. d.factor \in 0..100 BY DEF DataType
    <3>2. s.w \in Int /\ s.w >= 0 BY <2>1
    <3> QED BY <3>1, <3>2, ShareBounds
  <2>3. p \in Nat /\ e \in Nat /\ p + e = s.w BY <2>1, <2>2
  <2>4. c \in Nat \ {0} /\ k \in Nat \ {0} /\ c + k = n /\ c \in Int BY <1>0, <1>3
  <2>5. /\ a \in RegionType /\ a.w = p /\ a.h = s.h
        /\ b \in RegionType /\ b.w = e /\ b.h = s.h
    BY <1>0, <1>3, MainColumnCell, StackColumnCell
  <2>6. ASSUME NEW i \in 1..n
        PROVE  /\ i \in A => cells[i].w = p /\ cells[i].h = q
               /\ i \notin A => cells[i].w = e /\ cells[i].h = u
    <3>1. CASE i \in A
      <4>1. cells[i] = Piled(a, i, c) /\ i \in 1..c
        BY <1>0, <1>3, <3>1 DEF ArrangeDoubleStack, MainCount
      <4> HIDE DEF cells, a, c, p
      <4> QED BY <2>4, <2>5, <3>1, <4>1, PiledCell
    <3>2. CASE i \notin A
      <4> DEFINE j == i - c
      <4>1. cells[i] = Piled(b, j, k) /\ j \in 1..k
        BY <1>0, <1>3, <3>2 DEF ArrangeDoubleStack
      <4> HIDE DEF cells, b, c, k, e, j
      <4>2. Piled(b, j, k).w = b.w /\ Piled(b, j, k).h = Quot(b.h, k)
        BY <2>4, <2>5, <4>1, PiledCell
      <4> QED BY <2>5, <3>2, <4>1, <4>2
    <3> QED BY <3>1, <3>2
  <2>7. /\ q \in Nat /\ c * q \in Nat /\ r \in 0..(c - 1)
        /\ u \in Nat /\ k * u \in Nat /\ t \in 0..(k - 1)
    <3> HIDE DEF c, k
    <3> QED BY <2>1, <2>4, Remainder
  <2>8. s.h = c * q + r /\ s.h = k * u + t
    <3> HIDE DEF q, u, c, k
    <3> QED BY <2>1, <2>7
  <2>9. A \in SUBSET (1..n) /\ Cardinality(A) = c
    <3>1. A \in SUBSET (1..n) BY <2>4
    <3>2. Cardinality(1..c) = c
      <4> HIDE DEF c
      <4> QED BY <2>4, IntervalSize
    <3> QED BY <3>1, <3>2
  <2> HIDE DEF cells, a, b, p, e, k, q, u, r, t, A, c
  <2>10. p * q \in Int /\ e * u \in Int BY <2>3, <2>7, Products
  <2>11. CellsOfTwo(cells, n, A, p * q, e * u)
    <3>1. ASSUME NEW i \in 1..n
          PROVE  cells[i].w * cells[i].h = IF i \in A THEN p * q ELSE e * u
      <4>1. CASE i \in A
        <5>1. cells[i].w = p /\ cells[i].h = q BY <2>6, <4>1
        <5> QED BY <4>1, <5>1
      <4>2. CASE i \notin A
        <5>1. cells[i].w = e /\ cells[i].h = u BY <2>6, <4>2
        <5> QED BY <4>2, <5>1
      <4> QED BY <4>1, <4>2
    <3> QED BY <3>1 DEF CellsOfTwo
  <2>12. Area(cells, n) = c * (p * q) + k * (e * u)
    <3>1. Area(cells, n) = c * (p * q) + (n - c) * (e * u)
      BY <2>9, <2>10, <2>11, CellsOfTwoSizes
    <3>2. n - c = k BY <2>4
    <3> QED BY <3>1, <3>2
  <2>13. p * s.h = c * (p * q) + p * r
    <3>1. p * (c * q + r) = p * (c * q) + p * r BY <2>3, <2>7
    <3>2. p * (c * q) = c * (p * q) BY <2>3, <2>4, <2>7
    <3> QED BY <2>8, <3>1, <3>2
  <2>14. e * s.h = k * (e * u) + e * t
    <3>1. e * (k * u + t) = e * (k * u) + e * t BY <2>3, <2>7
    <3>2. e * (k * u) = k * (e * u) BY <2>3, <2>4, <2>7
    <3> QED BY <2>8, <3>1, <3>2
  <2>15. s.w * s.h = p * s.h + e * s.h
    <3>1. (p + e) * s.h = p * s.h + e * s.h BY <2>1, <2>3
    <3> QED BY <2>3, <3>1
  <2>16. /\ p * r \in Nat /\ p * r <= (n - 1) * p /\ e * t \in Nat /\ e * t <= (n - 1) * e
    <3>1. r \in 0..(n - 1) /\ t \in 0..(n - 1) /\ n - 1 \in Nat BY <2>4, <2>7
    <3>2. p <= p /\ e <= e BY <2>3
    <3> QED BY <2>3, <3>1, <3>2, LinesBound
  <2>17. (n - 1) * p + (n - 1) * e = (n - 1) * s.w
    <3>1. (n - 1) * (p + e) = (n - 1) * p + (n - 1) * e BY <2>3
    <3> QED BY <2>3, <3>1
  <2>18. (n - 1) * s.w <= (n - 1) * Longest(s)
    <3>1. Longest(s) \in Nat /\ s.w <= Longest(s) BY LongestNat
    <3>2. n - 1 \in Nat /\ s.w \in Int /\ Longest(s) \in Int BY <2>1, <3>1
    <3>3. s.w * (n - 1) <= Longest(s) * (n - 1) BY <3>1, <3>2, Multiples
    <3> QED BY <3>2, <3>3
  <2>19. /\ c * (p * q) \in Int /\ k * (e * u) \in Int
         /\ (n - 1) * p \in Int /\ (n - 1) * e \in Int /\ (n - 1) * s.w \in Int
         /\ (n - 1) * Longest(s) \in Int
    BY <2>1, <2>3, <2>4, <2>10, LongestNat, Products
  <2>20. s.w * s.h - Area(cells, n) = p * r + e * t
    BY <2>12, <2>13, <2>14, <2>15, <2>16, <2>19
  <2>21. Fills(cells, n, s) BY <2>16, <2>17, <2>18, <2>19, <2>20 DEF Fills
  <2> QED BY <2>21 DEF cells
<1> QED BY <1>0, <1>1, <1>2, <1>3

\* Only the folded views lose what their widths round off.
LEMMA PaperFills ==
  ASSUME NEW d \in DataType, NEW s, Room(s), NEW n \in Nat, n > 1, NEW lead \in 1..n
  PROVE  Fills(ArrangePaper(d, s, n, lead), n, s)
<1> DEFINE cells == ArrangePaper(d, s, n, lead)
           l == LeadWidth(d, s)
           f == FoldedWidth(d, s, n)
           k == n - 1
           rest == s.w - l
           r == rest - k * f
           h == s.h
           A == {lead}
<1>1. s \in RegionType /\ s.w \in Nat /\ h \in Nat /\ s.w > 0 /\ s.w \in Int BY DEF Room
<1>2. l \in 0..s.w
  <2> DEFINE p == IF d.factor > 50 THEN d.factor ELSE 50
  <2>1. p \in 0..100 BY DEF DataType
  <2>2. l = Share(s.w, p) BY DEF LeadWidth
  <2> HIDE DEF p, l
  <2>3. s.w \in Int /\ s.w >= 0 BY <1>1
  <2>4. Share(s.w, p) \in 0..s.w BY <2>1, <2>3, ShareBounds
  <2> QED BY <2>2, <2>4
<1>3. f = Quot(rest, k) /\ k \in Nat \ {0} /\ k + 1 = n BY DEF FoldedWidth
<1>4. \A i \in 1..n : /\ i \in A => cells[i].w = l /\ cells[i].h = h
                      /\ i \notin A => cells[i].w = f /\ cells[i].h = h
  <2> SUFFICES ASSUME NEW i \in 1..n
               PROVE  cells[i].w = (IF i = lead THEN l ELSE f) /\ cells[i].h = h
    OBVIOUS
  <2> DEFINE x == s.x + (i - 1) * f + (IF i > lead THEN l - f ELSE 0)
             w == IF i = lead THEN l ELSE f
  <2>1. cells[i] = [s EXCEPT !.x = x, !.w = w] BY DEF ArrangePaper
  <2> HIDE DEF x, w, cells
  <2>2. cells[i].w = w /\ cells[i].h = h BY <1>1, <2>1 DEF RegionType
  <2> QED BY <2>2 DEF w
<1>5. A \in SUBSET (1..n) /\ Cardinality(A) = 1 BY FS_Singleton
<1> HIDE DEF cells, l, k, h, A
<1>6. rest \in Nat BY <1>1, <1>2
<1>7. f \in Nat /\ k * f \in Nat /\ r \in 0..(k - 1)
  <2> HIDE DEF rest
  <2> QED BY <1>3, <1>6, Remainder
<1> HIDE DEF f
<1>8. s.w = l + k * f + r /\ l \in Nat BY <1>1, <1>2, <1>7
<1> HIDE DEF rest, r
<1>9. l * h \in Int /\ f * h \in Int BY <1>1, <1>7, <1>8, Products
<1>10. CellsOfTwo(cells, n, A, l * h, f * h)
  <2>1. ASSUME NEW i \in 1..n
        PROVE  cells[i].w * cells[i].h = IF i \in A THEN l * h ELSE f * h
    <3>1. CASE i \in A
      <4>1. cells[i].w = l /\ cells[i].h = h BY <1>4, <3>1
      <4> QED BY <3>1, <4>1
    <3>2. CASE i \notin A
      <4>1. cells[i].w = f /\ cells[i].h = h BY <1>4, <3>2
      <4> QED BY <3>2, <4>1
    <3> QED BY <3>1, <3>2
  <2> QED BY <2>1 DEF CellsOfTwo
<1>11. Area(cells, n) = l * h + k * (f * h)
  <2>1. Area(cells, n) = 1 * (l * h) + (n - 1) * (f * h)
    BY <1>5, <1>9, <1>10, CellsOfTwoSizes
  <2> QED BY <1>9, <2>1 DEF k
<1>12. s.w * h = l * h + k * (f * h) + h * r
  <2>1. (l + k * f + r) * h = l * h + (k * f) * h + h * r BY <1>1, <1>7, <1>8
  <2>2. (k * f) * h = k * (f * h) BY <1>1, <1>3, <1>7
  <2> QED BY <1>8, <2>1, <2>2
<1>13. Longest(s) \in Nat /\ h <= Longest(s) BY LongestNat DEF h
<1>14. h * r \in Nat /\ h * r <= (n - 1) * Longest(s)
  <2>1. r \in 0..(n - 1) /\ n - 1 \in Nat BY <1>3, <1>7
  <2> QED BY <1>1, <1>13, <2>1, LinesBound
<1>15. k * (f * h) \in Int BY <1>3, <1>9, Products
<1>16. s.w * s.h = l * h + k * (f * h) + h * r BY <1>12 DEF h
<1>17. (n - 1) * Longest(s) \in Int BY <1>13, Products
<1> QED BY <1>9, <1>11, <1>14, <1>15, <1>16, <1>17 DEF Fills, cells

LEMMA OneCellFills ==
  ASSUME NEW s, Room(s)
  PROVE  Fills(<< s >>, 1, s)
<1>1. \A i \in 1..1 : << s >>[i].w = s.w /\ << s >>[i].h = s.h OBVIOUS
<1>2. s.w \in Nat /\ s.h \in Nat BY DEF Room
<1>3. Area(<< s >>, 1) = 1 * (s.w * s.h) BY <1>1, <1>2, AllOfOneSize
<1>4. s.w * s.h \in Int BY <1>2, Products
<1>5. Longest(s) \in Nat BY LongestNat
<1> QED BY <1>3, <1>4, <1>5 DEF Fills

\* The cells of every layout that is not to overlap fill the screen.
LEMMA CellsFill ==
  ASSUME NEW kind \in ApartKinds, NEW d \in DataType, NEW s, Room(s),
         NEW n \in Nat \ {0}, NEW lead \in 1..n
  PROVE  Fills(TiledCells(kind, d, s, n, lead), n, s)
<1>1. kind \notin {"MainDeck", "StackDeck", "DoubleDeck", "OverlappingPaper"}
  BY DEF ApartKinds, NonOverlappingKinds
<1>2. CASE n = 1 BY <1>2, OneCellFills DEF TiledCells
<1>3. CASE n # 1 /\ kind \in {"Paper", "CompactPaper"}
  <2>1. TiledCells(kind, d, s, n, lead) = ArrangePaper(d, s, n, lead) BY <1>3 DEF TiledCells
  <2>2. n \in Nat /\ n > 1 BY <1>3
  <2> QED BY <2>1, <2>2, PaperFills
<1>4. CASE n # 1 /\ kind \in {"DoubleStack", "CompactDoubleStack"}
  <2>1. TiledCells(kind, d, s, n, lead) = ArrangeDoubleStack(d, s, n) BY <1>4 DEF TiledCells
  <2> QED BY <2>1, DoubleStackFills
<1>5. CASE n # 1 /\ kind \in {"HorizontalStack", "CompactHorizontalStack"}
  <2>1. TiledCells(kind, d, s, n, lead) = ArrangeHorizontalStack(s, n) BY <1>5 DEF TiledCells
  <2> QED BY <2>1, HorizontalStackFills
<1>6. CASE n # 1 /\ kind \in {"VerticalStack", "CompactVerticalStack"}
  <2>1. TiledCells(kind, d, s, n, lead) = ArrangeVerticalStack(s, n) BY <1>6 DEF TiledCells
  <2> QED BY <2>1, VerticalStackFills
<1> QED BY <1>2, <1>3, <1>4, <1>5, <1>6 DEF ApartKinds, NonOverlappingKinds

\* Without a gap a tile that a view fits in is its cell.
LEMMA UngappedCell ==
  ASSUME NEW r \in RegionType, Roomy(Gapped(r, 0))
  PROVE  Gapped(r, 0).w = r.w /\ Gapped(r, 0).h = r.h
<1>1. r.w \in Int /\ r.h \in Int BY DEF RegionType
<1>2. r.w - 2 * 0 = r.w /\ r.h - 2 * 0 = r.h BY <1>1
<1>3. /\ Gapped(r, 0).w = AtLeast(r.w, MinViewWidth)
      /\ Gapped(r, 0).h = AtLeast(r.h, MinViewHeight)
  BY <1>2 DEF Gapped
<1> QED BY <1>1, <1>3 DEF Roomy, AtLeast, MinViewWidth, MinViewHeight

LEMMA ArrangeFills ==
  ASSUME NEW kind \in ApartKinds, NEW d \in DataType, d.gap = 0, NEW screen \in RegionType,
         d.margin \in [Edges -> Int], NEW n \in Nat \ {0}, NEW lead \in 1..n, NEW tiles,
         tiles = Arrange(kind, d, screen, n, lead, lead), \A i \in DOMAIN tiles : Roomy(tiles[i])
  PROVE  LET free == Inset(screen, d.margin) IN
         free.w * free.h - AreaOf(tiles) <= (Len(tiles) - 1) * Longest(free)
<1> DEFINE s     == Inset(screen, d.margin)
           cells == TiledCells(kind, d, s, n, lead)
<1>1. s \in RegionType
  <2>1. \A e \in Edges : d.margin[e] \in Int OBVIOUS
  <2> QED BY <2>1 DEF Inset, RegionType, Edges
<1>2. tiles = WithGaps(kind, d, cells)
  <2>1. kind \notin FreeKinds BY DEF ApartKinds, NonOverlappingKinds, FreeKinds
  <2>2. WithinMargin(kind, d, screen) = s BY <2>1 DEF WithinMargin, Config, TiledConfig
  <2>3. Cells(kind, d, s, n, lead, lead) = cells
    BY DEF ApartKinds, NonOverlappingKinds, SingleKinds, Cells
  <2> QED BY <2>2, <2>3 DEF Arrange
<1>3. SharesOut(cells, n, s)
  <2>1. Cells(kind, d, s, n, lead, lead) = cells
    BY DEF ApartKinds, NonOverlappingKinds, SingleKinds, Cells
  <2> HIDE DEF s, cells
  <2>2. SharesOut(Cells(kind, d, s, n, lead, lead), n, s) BY <1>1, NonOverlapping
  <2> QED BY <2>1, <2>2
<1>4. Len(cells) = n /\ DOMAIN cells = 1..n
  <2>1. CASE n = 1 BY <2>1 DEF TiledCells
  <2>2. CASE n # 1
    <3> DEFINE cell(i) == cells[i]
    <3>1. cells = [i \in 1..n |-> cell(i)]
      BY <2>2 DEF TiledCells, ArrangeMainDeck, ArrangeStackDeck, ArrangeDoubleDeck, ArrangePaper,
       ArrangeOverlappingPaper, ArrangeDoubleStack, ArrangeHorizontalStack, ArrangeVerticalStack
    <3> HIDE DEF cells, cell
    <3> QED BY <3>1
  <2> QED BY <2>1, <2>2
<1> HIDE DEF s, cells
<1>5. DOMAIN tiles = 1..n BY <1>2, <1>4 DEF WithGaps
<1>6. ASSUME NEW i \in 1..n
      PROVE  /\ cells[i] \in RegionType
             /\ tiles[i].w = cells[i].w /\ tiles[i].h = cells[i].h
  <2>1. cells[i] \in RegionType BY <1>3 DEF SharesOut
  <2>2. CASE Config(kind).gap
    <3>1. tiles[i] = Gapped(cells[i], 0) BY <1>2, <1>4, <2>2 DEF WithGaps
    <3>2. Roomy(Gapped(cells[i], 0)) BY <1>5, <3>1
    <3> QED BY <2>1, <3>1, <3>2, UngappedCell
  <2>3. CASE ~ Config(kind).gap
    <3>1. tiles[i] = cells[i] BY <1>2, <2>3 DEF WithGaps
    <3> QED BY <2>1, <3>1
  <2> QED BY <2>2, <2>3
<1>7. Room(s)
  <2>1. 1 \in 1..n /\ Roomy(tiles[1]) BY <1>5
  <2>2. cells[1] \in RegionType /\ cells[1].w > 25 /\ cells[1].h > 10
    BY <1>6, <2>1 DEF Roomy, MinViewWidth, MinViewHeight
  <2>3. Extended(cells[1]) BY <2>2 DEF Extended, RegionType
  <2>4. Extended(s) BY <1>3, <2>1, <2>3 DEF SharesOut
  <2> QED BY <1>1, <2>4 DEF Extended, Room, RegionType
<1>8. Fills(cells, n, s) BY <1>7, CellsFill DEF cells
<1>9. AreaOf(tiles) = Area(cells, n)
  <2>1. [i \in DOMAIN tiles |-> tiles[i].w * tiles[i].h] = [i \in 1..n |-> cells[i].w * cells[i].h]
    BY <1>5, <1>6
  <2> QED BY <2>1 DEF AreaOf, Area, Total
<1>10. Len(tiles) = n
  <2>1. CASE Config(kind).gap
    <3> DEFINE tile(i) == Gapped(cells[i], d.gap)
    <3>1. tiles = [i \in 1..n |-> tile(i)] BY <1>2, <1>4, <2>1 DEF WithGaps
    <3> HIDE DEF tile
    <3> QED BY <3>1
  <2>2. CASE ~ Config(kind).gap BY <1>2, <1>4, <2>2 DEF WithGaps
  <2> QED BY <2>1, <2>2
<1> QED BY <1>8, <1>9, <1>10 DEF Fills, s

LEMMA FilledFollows == HandlerInv => ScreenIsFilled
<1> DEFINE d == ActiveData(handler)
           e == [d EXCEPT !.gap = 0]
<1> SUFFICES ASSUME HandlerInv, NEW kind \in ApartKinds, NEW tiles \in Arrangements(kind, e),
                    \A i \in DOMAIN tiles : Roomy(tiles[i])
             PROVE  LET free == Inset(Screen, d.margin) IN
                    free.w * free.h - AreaOf(tiles) <= (Len(tiles) - 1) * Longest(free)
  BY DEF ScreenIsFilled
<1>1. d \in LayoutData
  <2>1. handler \in HandlerType /\ handler.kind \in Kinds BY DEF HandlerInv, HandlerType
  <2> QED BY <2>1, ActiveDatum
<1>2. PICK n \in 1..MaxTiled : tiles \in {Arrange(kind, e, Screen, n, lead, lead) : lead \in 1..n}
  BY DEF Arrangements
<1>3. PICK lead \in 1..n : tiles = Arrange(kind, e, Screen, n, lead, lead) BY <1>2
<1> HIDE DEF d
<1>4. e \in DataType /\ e.gap = 0 /\ e.margin = d.margin /\ e.margin \in [Edges -> Int]
  <2>1. d.margin \in [Edges -> Nat] BY <1>1, DatumFields
  <2>2. /\ d = [margin |-> d.margin, gap |-> d.gap, count |-> d.count, factor |-> d.factor]
        /\ d.gap \in Nat /\ d.count \in Nat /\ d.factor \in 0..100
    BY <1>1, DatumFields DEF LayoutData
  <2>3. e = [margin |-> d.margin, gap |-> 0, count |-> d.count, factor |-> d.factor] BY <2>2
  <2>4. d.margin \in [Edges -> Int] BY <2>1
  <2> HIDE DEF e
  <2> QED BY <2>2, <2>3, <2>4 DEF DataType
<1>5. Screen \in RegionType BY TilingAssumption DEF RegionType
<1>6. n \in Nat \ {0} BY TilingAssumption
<1> HIDE DEF e
<1>7. LET free == Inset(Screen, e.margin) IN
      free.w * free.h - AreaOf(tiles) <= (Len(tiles) - 1) * Longest(free)
  BY <1>3, <1>4, <1>5, <1>6, ArrangeFills
<1> QED BY <1>4, <1>7

\* Without a gap the tiles leave nothing of any screen but what the divisions
\* round off, with any number of views and after any changes of the layout data.
THEOREM Filling == Spec => []ScreenIsFilled
BY HandlerInvariant, FilledFollows, PTL
=============================================================================
