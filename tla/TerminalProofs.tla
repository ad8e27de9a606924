---------------------------- MODULE TerminalProofs ---------------------------
(***************************************************************************)
(* Theorems about Terminal, for screens of any size, any scrollback and    *)
(* any number of sequences, marks, frames and user's changes, in three     *)
(* parts.  The grid: each operator by what it leaves of rows, lines and    *)
(* cursor, then each step.  The command blocks: the list they make is kept *)
(* by every mark and frame.  The fold: the rows of the display, each laid  *)
(* below the one above it.                                                 *)
(***************************************************************************)
EXTENDS Terminal, FiniteSetTheorems, SequenceTheorems, TLAPS

(* A row of cells.                                                         *)

\* A row of n cells.
Cells(n) == [0 .. n - 1 -> Kinds]
\* What a cell asks of its neighbours.
Half(n, row, x) ==
  \/ row[x] = WideLead /\ ~(x + 1 < n /\ row[x + 1] = WideTail)
  \/ row[x] = WideTail /\ ~(x > 0 /\ row[x - 1] = WideLead)

\* The pairs of a row in terms of its cells.
LEMMA Halves ==
  ASSUME NEW n \in Nat, NEW row \in Cells(n)
  PROVE  /\ DOMAIN row = 0 .. n - 1
         /\ \A x \in 0 .. n - 1 : row[x] \in Kinds /\ (Orphan(row, x) <=> Half(n, row, x))
         /\ WholeRow(row) <=> \A x \in 0 .. n - 1 : ~Half(n, row, x)
         /\ \A x \in Int : IsPair(row, x) <=> x \in 0 .. n - 2 /\ row[x] = WideLead
              /\ row[x + 1] = WideTail
<1>1. DOMAIN row = 0 .. n - 1 /\ \A x \in 0 .. n - 1 : row[x] \in Kinds
  BY DEF Cells
<1>2. \A x \in Int : IsPair(row, x) <=> x \in 0 .. n - 2 /\ row[x] = WideLead
          /\ row[x + 1] = WideTail
  BY <1>1 DEF IsPair
<1>3. \A x \in 0 .. n - 1 : Orphan(row, x) <=> Half(n, row, x)
  BY <1>2 DEF Orphan, Half
<1> QED
  BY <1>1, <1>2, <1>3 DEF WholeRow

\* A blank row has no half of a pair.
LEMMA BlankRowWhole ==
  ASSUME NEW n \in Nat PROVE BlankRow(n) \in Cells(n) /\ WholeRow(BlankRow(n))
  BY DEF BlankRow, Cells, WholeRow, Orphan, IsPair, Kinds, Blank, WideLead, WideTail

\* HealOrphan changes one cell at most, and only one that is half of a pair.
LEMMA HealIs ==
  ASSUME NEW n \in Nat, NEW row \in Cells(n), NEW x \in Int
  PROVE  /\ HealOrphan(row, x) \in Cells(n)
         /\ \A y \in 0 .. n - 1 : HealOrphan(row, x)[y] = IF y = x /\ Half(n, row, x) THEN Blank
              ELSE row[y]
  BY Halves DEF Cells, HealOrphan, Kinds, Blank

\* ClearWideAt blanks the other half of the pair at x, and nothing else.
LEMMA ClearIs ==
  ASSUME NEW n \in Nat, NEW row \in Cells(n), NEW x \in 0 .. n - 1
  PROVE  /\ ClearWideAt(row, x) \in Cells(n)
         /\ \A y \in 0 .. n - 1 : ClearWideAt(row, x)[y] =
              IF (y = x + 1 /\ row[x] = WideLead /\ row[y] = WideTail)
                  \/ (y = x - 1 /\ row[x] = WideTail /\ row[y] = WideLead)
              THEN Blank ELSE row[y]
<1>1. /\ \A y \in 0 .. n - 1 : row[y] \in Kinds
      /\ \A y \in Int : IsPair(row, y) <=> y \in 0 .. n - 2 /\ row[y] = WideLead
           /\ row[y + 1] = WideTail
      /\ WideLead # WideTail /\ Blank \in Kinds /\ DOMAIN row = 0 .. n - 1
  BY Halves DEF Kinds, Blank, WideLead, WideTail
<1>2. CASE IsPair(row, x)
  <2>1. ClearWideAt(row, x) = [row EXCEPT ![x + 1] = Blank]
    BY <1>1, <1>2 DEF ClearWideAt
  <2> QED
    BY <1>1, <1>2, <2>1 DEF Cells
<1>3. CASE ~IsPair(row, x) /\ IsPair(row, x - 1)
  <2>1. ClearWideAt(row, x) = [row EXCEPT ![x - 1] = Blank]
    BY <1>1, <1>3 DEF ClearWideAt
  <2> QED
    BY <1>1, <1>3, <2>1 DEF Cells
<1>4. CASE ~IsPair(row, x) /\ ~IsPair(row, x - 1)
  <2>1. ClearWideAt(row, x) = row
    BY <1>1, <1>4 DEF ClearWideAt
  <2> QED
    BY <1>1, <1>4, <2>1 DEF Cells
<1> QED
  BY <1>2, <1>3, <1>4

\* A stretch erased and healed at both ends leaves no half.
LEMMA EraseKeeps ==
  ASSUME NEW n \in Nat, NEW row \in Cells(n), NEW a \in Int, NEW b \in Int
  PROVE  LET r == HealOrphan(HealOrphan(BlankBetween(row, a, b), a - 1), b + 1)
         IN  r \in Cells(n) /\ (WholeRow(row) => WholeRow(r))
<1> DEFINE r0 == BlankBetween(row, a, b)  r1 == HealOrphan(r0, a - 1)  r2 == HealOrphan(r1, b + 1)
<1>1. r0 \in Cells(n) /\ \A y \in 0 .. n - 1 : r0[y] = IF y \in a .. b THEN Blank ELSE row[y]
  BY DEF Cells, BlankBetween, Kinds, Blank
<1> HIDE DEF r0
<1>2. /\ r1 \in Cells(n)
      /\ \A y \in 0 .. n - 1 : r1[y] = IF y = a - 1 /\ Half(n, r0, a - 1) THEN Blank ELSE r0[y]
  BY <1>1, HealIs
<1> HIDE DEF r1
<1>3. /\ r2 \in Cells(n)
      /\ \A y \in 0 .. n - 1 : r2[y] = IF y = b + 1 /\ Half(n, r1, b + 1) THEN Blank ELSE r1[y]
  BY <1>2, HealIs
<1> HIDE DEF r2
<1>4. ASSUME WholeRow(row) PROVE WholeRow(r2)
  <2>1. \A x \in 0 .. n - 1 : ~Half(n, row, x)
    BY <1>4, Halves
  <2>2. \A x \in 0 .. n - 1 : ~Half(n, r2, x)
    BY <1>1, <1>2, <1>3, <2>1 DEF Half, Blank, WideLead, WideTail
  <2> QED
    BY <1>3, <2>2, Halves
<1> QED
  BY <1>3, <1>4 DEF r0, r1, r2

\* A row shifted right and healed leaves no half.
LEMMA InsertKeeps ==
  ASSUME NEW n \in Nat, NEW row \in Cells(n), NEW p \in 0 .. n - 1, NEW k \in 1 .. n - p
  PROVE  LET r0 == [x \in 0 .. n - 1 |-> IF x < p THEN row[x] ELSE IF x < p + k THEN Blank
      ELSE row[x - k]]
             r == HealOrphan(HealOrphan(HealOrphan(r0, p - 1), p + k), n - 1)
         IN  r \in Cells(n) /\ (WholeRow(row) => WholeRow(r))
<1> DEFINE r0 == [x \in 0 .. n - 1 |-> IF x < p THEN row[x] ELSE IF x < p + k THEN Blank
        ELSE row[x - k]]
           r1 == HealOrphan(r0, p - 1)  r2 == HealOrphan(r1, p + k)  r3 == HealOrphan(r2, n - 1)
<1>1. r0 \in Cells(n) /\ \A y \in 0 .. n - 1 : r0[y] = IF y < p THEN row[y]
          ELSE IF y < p + k THEN Blank ELSE row[y - k]
  BY DEF Cells, Kinds, Blank
<1> HIDE DEF r0
<1>2. /\ r1 \in Cells(n)
      /\ \A y \in 0 .. n - 1 : r1[y] = IF y = p - 1 /\ Half(n, r0, p - 1) THEN Blank ELSE r0[y]
  BY <1>1, HealIs
<1> HIDE DEF r1
<1>3. /\ r2 \in Cells(n)
      /\ \A y \in 0 .. n - 1 : r2[y] = IF y = p + k /\ Half(n, r1, p + k) THEN Blank ELSE r1[y]
  BY <1>2, HealIs
<1> HIDE DEF r2
<1>4. /\ r3 \in Cells(n)
      /\ \A y \in 0 .. n - 1 : r3[y] = IF y = n - 1 /\ Half(n, r2, n - 1) THEN Blank ELSE r2[y]
  BY <1>3, HealIs
<1> HIDE DEF r3
<1>5. ASSUME WholeRow(row) PROVE WholeRow(r3)
  <2>1. \A x \in 0 .. n - 1 : ~Half(n, row, x)
    BY <1>5, Halves
  <2>2. \A x \in 0 .. n - 1 : ~Half(n, r3, x)
    BY <1>1, <1>2, <1>3, <1>4, <2>1 DEF Half, Blank, WideLead, WideTail
  <2> QED
    BY <1>4, <2>2, Halves
<1> QED
  BY <1>4, <1>5 DEF r0, r1, r2, r3

\* A row shifted left and healed leaves no half.
LEMMA DeleteKeeps ==
  ASSUME NEW n \in Nat, NEW row \in Cells(n), NEW p \in 0 .. n - 1, NEW k \in 1 .. n - p
  PROVE  LET r0 == [x \in 0 .. n - 1 |-> IF x < p THEN row[x] ELSE IF x + k < n THEN row[x + k]
      ELSE Blank]
             r == HealOrphan(HealOrphan(r0, p - 1), p)
         IN  r \in Cells(n) /\ (WholeRow(row) => WholeRow(r))
<1> DEFINE r0 == [x \in 0 .. n - 1 |-> IF x < p THEN row[x] ELSE IF x + k < n THEN row[x + k]
        ELSE Blank]
           r1 == HealOrphan(r0, p - 1)  r2 == HealOrphan(r1, p)
<1>1. r0 \in Cells(n) /\ \A y \in 0 .. n - 1 : r0[y] = IF y < p THEN row[y]
          ELSE IF y + k < n THEN row[y + k] ELSE Blank
  BY DEF Cells, Kinds, Blank
<1> HIDE DEF r0
<1>2. /\ r1 \in Cells(n)
      /\ \A y \in 0 .. n - 1 : r1[y] = IF y = p - 1 /\ Half(n, r0, p - 1) THEN Blank ELSE r0[y]
  BY <1>1, HealIs
<1> HIDE DEF r1
<1>3. /\ r2 \in Cells(n)
      /\ \A y \in 0 .. n - 1 : r2[y] = IF y = p /\ Half(n, r1, p) THEN Blank ELSE r1[y]
  BY <1>2, HealIs
<1> HIDE DEF r2
<1>4. ASSUME WholeRow(row) PROVE WholeRow(r2)
  <2>1. \A x \in 0 .. n - 1 : ~Half(n, row, x)
    BY <1>4, Halves
  <2>2. \A x \in 0 .. n - 1 : ~Half(n, r2, x)
    BY <1>1, <1>2, <1>3, <2>1 DEF Half, Blank, WideLead, WideTail
  <2> QED
    BY <1>3, <2>2, Halves
<1> QED
  BY <1>3, <1>4 DEF r0, r1, r2

\* A cell written over what was there.
Written(row, p, kind) == [ClearWideAt(row, p) EXCEPT ![p] = kind]
\* One cell written over, the pair it was half of cleared first.
LEMMA WriteKeeps ==
  ASSUME NEW n \in Nat, NEW row \in Cells(n), NEW p \in 0 .. n - 1, NEW kind \in Kinds
  PROVE  LET r == Written(row, p, kind)
         IN  /\ r \in Cells(n) /\ r[p] = kind
             /\ WholeRow(row) =>
                  /\ kind \notin {WideLead, WideTail} => WholeRow(r)
                  /\ \A x \in 0 .. n - 1 : x # p => ~Half(n, r, x)
                  /\ p + 1 < n => r[p + 1] # WideTail
<1> DEFINE c == ClearWideAt(row, p)  r == Written(row, p, kind)
<1>1. /\ c \in Cells(n)
      /\ \A y \in 0 .. n - 1 : c[y] =
           IF (y = p + 1 /\ row[p] = WideLead /\ row[y] = WideTail)
               \/ (y = p - 1 /\ row[p] = WideTail /\ row[y] = WideLead)
           THEN Blank ELSE row[y]
  BY ClearIs
<1>2. r \in Cells(n) /\ \A y \in 0 .. n - 1 : r[y] = IF y = p THEN kind ELSE c[y]
  BY <1>1 DEF Cells, Written
<1> HIDE DEF c, r
<1>3. ASSUME WholeRow(row)
      PROVE  /\ kind \notin {WideLead, WideTail} => WholeRow(r)
             /\ \A x \in 0 .. n - 1 : x # p => ~Half(n, r, x)
             /\ p + 1 < n => r[p + 1] # WideTail
  <2>1. \A x \in 0 .. n - 1 : ~Half(n, row, x)
    BY <1>3, Halves
  <2>2. \A x \in 0 .. n - 1 : x # p => r[x] # WideTail \/ x - 1 # p
    BY <1>1, <1>2, <2>1 DEF Half, Blank, WideLead, WideTail
  <2>3. \A x \in 0 .. n - 1 : x # p => ~Half(n, r, x)
    BY <1>1, <1>2, <2>1, <2>2 DEF Half, Blank, WideLead, WideTail
  <2>4. kind \notin {WideLead, WideTail} => \A x \in 0 .. n - 1 : ~Half(n, r, x)
    BY <1>1, <1>2, <2>3 DEF Half
  <2> QED
    BY <1>2, <2>2, <2>3, <2>4, Halves
<1> QED
  BY <1>2, <1>3 DEF c, r

\* A wide character written in its two cells leaves no half.
LEMMA WidePairKeeps ==
  ASSUME NEW n \in Nat, NEW row \in Cells(n), NEW p \in 0 .. n - 2
  PROVE  LET both == Written(Written(row, p, WideLead), p + 1, WideTail)
         IN  both \in Cells(n) /\ (WholeRow(row) => WholeRow(both))
<1> DEFINE r == Written(row, p, WideLead)
           c == ClearWideAt(r, p + 1)  both == Written(r, p + 1, WideTail)
<1>1. /\ r \in Cells(n) /\ r[p] = WideLead
      /\ WholeRow(row) => /\ \A x \in 0 .. n - 1 : x # p => ~Half(n, r, x)
                          /\ r[p + 1] # WideTail
  <2>1. WideLead \in Kinds /\ p \in 0 .. n - 1 /\ p + 1 < n
    BY DEF Kinds
  <2> QED
    BY <2>1, WriteKeeps
<1> HIDE DEF r
<1>2. /\ c \in Cells(n)
      /\ \A y \in 0 .. n - 1 : c[y] =
           IF (y = p + 2 /\ r[p + 1] = WideLead /\ r[y] = WideTail)
               \/ (y = p /\ r[p + 1] = WideTail /\ r[y] = WideLead)
           THEN Blank ELSE r[y]
  BY <1>1, ClearIs
<1>3. both \in Cells(n) /\ \A y \in 0 .. n - 1 : both[y] = IF y = p + 1 THEN WideTail ELSE c[y]
  BY <1>1, <1>2 DEF Cells, Kinds, Written
<1> HIDE DEF c, both
<1>4. ASSUME WholeRow(row) PROVE WholeRow(both)
  <2>1. /\ WideLead # WideTail /\ WideLead # Blank /\ WideTail # Blank
        /\ both[p] = WideLead /\ both[p + 1] = WideTail
        /\ \A y \in 0 .. n - 1 : y # p + 1 =>
             both[y] = IF y = p + 2 /\ r[p + 1] = WideLead /\ r[y] = WideTail THEN Blank ELSE r[y]
    BY <1>1, <1>2, <1>3, <1>4 DEF Blank, WideLead, WideTail
  <2>2. \A x \in 0 .. n - 1 : x # p =>
          /\ r[x] = WideLead => x + 1 < n /\ r[x + 1] = WideTail
          /\ r[x] = WideTail => x > 0 /\ r[x - 1] = WideLead
    BY <1>1, <1>4 DEF Half
  <2>3. \A x \in 0 .. n - 1 : both[x] = WideLead => x + 1 < n /\ both[x + 1] = WideTail
    BY <1>1, <2>1, <2>2
  <2>4. \A x \in 0 .. n - 1 : both[x] = WideTail => x > 0 /\ both[x - 1] = WideLead
    BY <1>1, <2>1, <2>2
  <2>5. \A x \in 0 .. n - 1 : ~Half(n, both, x)
    BY <2>3, <2>4 DEF Half
  <2> QED
    BY <1>3, <2>5, Halves
<1> QED
  BY <1>3, <1>4 DEF both, c, r

\* The second half of a flag, where the cell it takes is not the first half of a pair.
LEMMA FlagKeeps ==
  ASSUME NEW n \in Nat, NEW row \in Cells(n), NEW p \in 0 .. n - 2, row[p] = Indicator
  PROVE  LET r == [row EXCEPT ![p] = WideLead, ![p + 1] = WideTail]
         IN  r \in Cells(n) /\ (WholeRow(row) /\ ~IsPair(row, p + 1) => WholeRow(r))
<1> DEFINE r == [row EXCEPT ![p] = WideLead, ![p + 1] = WideTail]
<1>1. r \in Cells(n) /\ \A y \in 0 .. n - 1 : r[y] = IF y = p + 1 THEN WideTail
          ELSE IF y = p THEN WideLead ELSE row[y]
  BY DEF Cells, Kinds
<1> HIDE DEF r
<1>2. ASSUME WholeRow(row), ~IsPair(row, p + 1) PROVE WholeRow(r)
  <2>1. (\A x \in 0 .. n - 1 : ~Half(n, row, x))
            /\ ~(p + 1 \in 0 .. n - 2 /\ row[p + 1] = WideLead /\ row[p + 2] = WideTail)
    BY <1>2, Halves
  <2>2. \A x \in 0 .. n - 1 : ~Half(n, r, x)
    BY <1>1, <2>1 DEF Half, Blank, Indicator, WideLead, WideTail
  <2> QED
    BY <1>1, <2>2, Halves
<1> QED
  BY <1>1, <1>2 DEF r

\* A row that loses no column stays whole.
LEMMA WidenKeeps ==
  ASSUME NEW n \in Nat, NEW row \in Cells(n), NEW m \in Nat, m >= n, WholeRow(row)
  PROVE  WholeRow([x \in 0 .. m - 1 |-> IF x < n THEN row[x] ELSE Blank])
<1> DEFINE r == [x \in 0 .. m - 1 |-> IF x < n THEN row[x] ELSE Blank]
<1>1. r \in Cells(m) /\ \A y \in 0 .. m - 1 : r[y] = IF y < n THEN row[y] ELSE Blank
  BY DEF Cells, Kinds, Blank
<1> HIDE DEF r
<1>2. \A x \in 0 .. n - 1 : ~Half(n, row, x)
  BY Halves
<1>3. \A x \in 0 .. m - 1 : ~Half(m, r, x)
  BY <1>1, <1>2 DEF Half, Blank, WideLead, WideTail
<1> QED
  BY <1>1, <1>3, Halves DEF r

\* A grid as a function of its fields, which is how the provers take an update of many of
\* them at once.
Fields == {"cols", "rows", "main", "alt", "altActive", "scrollback", "total", "view", "x", "y",
           "lastX", "lastY", "wrap", "top", "bot", "savedMain", "savedAlt"}
IsGrid(g) == DOMAIN g = Fields /\ g = [f \in Fields |-> g[f]]
SizeOK(g) == /\ g.cols \in Widths /\ g.cols \in Nat /\ g.cols >= 2
             /\ g.rows \in Heights /\ g.rows \in Nat /\ g.rows >= 2

\* The sizes and ranges of a grid: the invariant, but for the pending wrap.
Shape(g) ==
  /\ IsGrid(g) /\ SizeOK(g)
  /\ g.main \in [0 .. g.rows - 1 -> Cells(g.cols)] /\ g.alt \in [0 .. g.rows - 1 -> Cells(g.cols)]
  /\ g.altActive \in BOOLEAN /\ g.wrap \in BOOLEAN
  /\ g.scrollback \in Seq(Lines(Widths)) /\ Len(g.scrollback) <= ScrollbackMax
  /\ g.total \in Nat /\ g.view \in Nat /\ g.view <= Len(g.scrollback)
  /\ g.x \in 0 .. g.cols - 1 /\ g.y \in 0 .. g.rows - 1 /\ g.lastX \in Int /\ g.lastY \in Int
  /\ g.top \in 0 .. g.rows - 1 /\ g.bot \in 0 .. g.rows - 1 /\ g.top < g.bot
  /\ g.savedMain \in Cursors /\ g.savedAlt \in Cursors

\* A wrap is pending only at the last column.
Pending(g) == g.wrap => g.x = g.cols - 1

\* The type invariant of the grid is Shape and Pending.
LEMMA ShapeIsSound ==
  ASSUME NEW g, SizeOK(g)
  PROVE  Sound(g, Widths) <=> Shape(g) /\ Pending(g)
<1>1. ASSUME Sound(g, Widths) PROVE Shape(g) /\ Pending(g)
  <2>1. g \in Grids(g.cols, g.rows, Widths)
    BY <1>1 DEF Sound
  <2>2. IsGrid(g)
    BY <2>1 DEF Grids, IsGrid, Fields
  <2> QED
    BY <1>1, <2>1, <2>2 DEF Grids, Sound, Shape, Pending, Cells
<1>2. ASSUME Shape(g), Pending(g) PROVE Sound(g, Widths)
  <2>1. g = [cols |-> g.cols, rows |-> g.rows, main |-> g.main, alt |-> g.alt,
            altActive |-> g.altActive,
             scrollback |-> g.scrollback, total |-> g.total, view |-> g.view, x |-> g.x, y |-> g.y,
             lastX |-> g.lastX, lastY |-> g.lastY, wrap |-> g.wrap, top |-> g.top, bot |-> g.bot,
             savedMain |-> g.savedMain, savedAlt |-> g.savedAlt]
    BY <1>2 DEF Shape, IsGrid, Fields
  <2>2. g \in Grids(g.cols, g.rows, Widths)
    BY <1>2, <2>1 DEF Shape, Grids, Cells
  <2> QED
    BY <1>2, <2>2 DEF Sound, Shape, Pending
<1> QED
  BY <1>1, <1>2

\* What an edit of a screen leaves alone.
SameLines(g, h) ==
  /\ h.cols = g.cols /\ h.rows = g.rows /\ h.altActive = g.altActive
  /\ h.scrollback = g.scrollback /\ h.total = g.total /\ (g.altActive => h.savedMain = g.savedMain)

\* An edit of a screen: it pushes no line and cuts no pair.
Edits(g, h) == Shape(h) /\ SameLines(g, h) /\ (Whole(g) => Whole(h))
\* All but the cells.
SameElse(g, h) ==
  /\ h.cols = g.cols /\ h.rows = g.rows /\ h.altActive = g.altActive
  /\ h.scrollback = g.scrollback /\ h.total = g.total /\ h.view = g.view
  /\ h.x = g.x /\ h.y = g.y /\ h.lastX = g.lastX /\ h.lastY = g.lastY /\ h.wrap = g.wrap
  /\ h.top = g.top /\ h.bot = g.bot /\ h.savedMain = g.savedMain /\ h.savedAlt = g.savedAlt

\* The drawings a screen can hold, and when one has no half of a pair.
SameCells(g, h) == h.main = g.main /\ h.alt = g.alt
Drawings(g) == [0 .. g.rows - 1 -> Cells(g.cols)]
WholeScreenOf(g, s) == \A y \in 0 .. g.rows - 1 : WholeRow(s[y])

\* One edit after another is an edit.
LEMMA EditsCompose ==
  ASSUME NEW g, NEW h, NEW k, Edits(g, h), Edits(h, k) PROVE Edits(g, k)
  BY DEF Edits, SameLines

\* The screen in use is one of the two, of the size of the grid.
LEMMA ScreenIs ==
  ASSUME NEW g, Shape(g)
  PROVE  /\ Screen(g) \in Drawings(g) /\ Row(g) \in Cells(g.cols)
         /\ Whole(g) <=> WholeScreenOf(g, g.main) /\ WholeScreenOf(g, g.alt)
         /\ Whole(g) => WholeScreenOf(g, Screen(g)) /\ WholeRow(Row(g))
         /\ Columns(g) = 0 .. g.cols - 1 /\ Rows(g) = 0 .. g.rows - 1
  BY DEF Shape, Screen, Row, Drawings, Whole, WholeScreenOf, Rows, Columns

\* SetScreen replaces the screen in use and nothing else.
LEMMA SetScreenIs ==
  ASSUME NEW g, Shape(g), NEW s \in Drawings(g)
  PROVE  LET h == SetScreen(g, s)
         IN  /\ Shape(h) /\ SameElse(g, h) /\ Screen(h) = s
             /\ ~g.altActive => h.main = s /\ h.alt = g.alt
             /\ Whole(g) /\ WholeScreenOf(g, s) => Whole(h)
<1> DEFINE h == SetScreen(g, s)
<1>1. CASE g.altActive
  <2>1. h = [g EXCEPT !.alt = s]
    BY <1>1 DEF SetScreen
  <2> HIDE DEF h
  <2>2. IsGrid(h) /\ SameElse(g, h) /\ h.alt = s /\ h.main = g.main
    BY <2>1 DEF Shape, IsGrid, Fields, SameElse
  <2>3. Shape(h)
    BY <2>2 DEF Shape, SameElse, SizeOK, Drawings
  <2>4. Whole(g) /\ WholeScreenOf(g, s) => Whole(h)
    BY <2>2 DEF Whole, WholeScreenOf, Rows, SameElse
  <2>5. Screen(h) = s
    BY <1>1, <2>2 DEF SameElse, Screen
  <2> QED
    BY <1>1, <2>2, <2>3, <2>4, <2>5 DEF h
<1>2. CASE ~g.altActive
  <2>1. h = [g EXCEPT !.main = s]
    BY <1>2 DEF SetScreen
  <2> HIDE DEF h
  <2>2. IsGrid(h) /\ SameElse(g, h) /\ h.main = s /\ h.alt = g.alt
    BY <2>1 DEF Shape, IsGrid, Fields, SameElse
  <2>3. Shape(h)
    BY <2>2 DEF Shape, SameElse, SizeOK, Drawings
  <2>4. Whole(g) /\ WholeScreenOf(g, s) => Whole(h)
    BY <2>2 DEF Whole, WholeScreenOf, Rows, SameElse
  <2>5. Screen(h) = s
    BY <1>2, <2>2 DEF SameElse, Screen
  <2> QED
    BY <1>2, <2>2, <2>3, <2>4, <2>5 DEF h
<1> QED
  BY <1>1, <1>2

\* SetRow replaces the row of the cursor and nothing else.
LEMMA SetRowIs ==
  ASSUME NEW g, Shape(g), NEW row \in Cells(g.cols)
  PROVE  LET h == SetRow(g, row)
         IN  /\ Shape(h) /\ SameElse(g, h) /\ Row(h) = row
             /\ \A y \in 0 .. g.rows - 1 : y # g.y => h.main[y] = g.main[y]
             /\ Whole(g) /\ WholeRow(row) => Edits(g, h) /\ Whole(h)
             /\ (Whole(g) => WholeRow(row)) => Edits(g, h)
<1> DEFINE s == [Screen(g) EXCEPT ![g.y] = row]  h == SetRow(g, row)
<1>1. /\ s \in Drawings(g) /\ s[g.y] = row
      /\ \A y \in 0 .. g.rows - 1 : y # g.y => s[y] = Screen(g)[y]
      /\ Whole(g) /\ WholeRow(row) => WholeScreenOf(g, s)
  BY ScreenIs DEF Shape, Drawings, WholeScreenOf
<1>2. h = SetScreen(g, s)
  BY DEF SetRow
<1> HIDE DEF s, h
<1>3. /\ Shape(h) /\ SameElse(g, h) /\ Screen(h) = s
      /\ ~g.altActive => h.main = s /\ h.alt = g.alt
      /\ Whole(g) /\ WholeScreenOf(g, s) => Whole(h)
  BY <1>1, <1>2, SetScreenIs
<1>4. \A y \in 0 .. g.rows - 1 : y # g.y => h.main[y] = g.main[y]
  <2>1. CASE g.altActive
    <3>1. h = [g EXCEPT !.alt = s]
      BY <1>2, <2>1 DEF SetScreen
    <3> QED
      BY <3>1 DEF Shape, IsGrid, Fields
  <2>2. CASE ~g.altActive
    BY <1>1, <1>3, <2>2 DEF Screen
  <2> QED
    BY <2>1, <2>2
<1>5. Row(h) = row
  BY <1>1, <1>3 DEF Row, SameElse
<1>6. SameLines(g, h)
  BY <1>3 DEF SameLines, SameElse
<1> QED
  BY <1>1, <1>3, <1>4, <1>5, <1>6 DEF Edits, h

\* What moves only the cursor is an edit.
LEMMA CursorOnly ==
  ASSUME NEW g, NEW h, Shape(h), SameCells(g, h), SameLines(g, h) PROVE Edits(g, h)
  BY DEF Edits, SameCells, SameLines, Whole, Rows

\* What draws only on a screen, leaving pairs whole, is an edit.
LEMMA ElseEdits ==
  ASSUME NEW g, NEW h, Shape(h), SameElse(g, h), Whole(g) => Whole(h) PROVE Edits(g, h)
  BY DEF Edits, SameElse, SameLines

\* NoWrap drops the pending wrap and nothing else.
LEMMA NoWrapIs ==
  ASSUME NEW g, Shape(g)
  PROVE  LET h == NoWrap(g)
         IN  /\ Edits(g, h) /\ SameCells(g, h) /\ ~h.wrap /\ h.x = g.x /\ h.y = g.y
             /\ h.top = g.top /\ h.bot = g.bot
             /\ h.savedMain = g.savedMain /\ Screen(h) = Screen(g)
<1> DEFINE h == NoWrap(g)
<1>1. h = [g EXCEPT !.wrap = FALSE]
  BY DEF NoWrap
<1> HIDE DEF h
<1>2. /\ IsGrid(h) /\ SameCells(g, h) /\ SameLines(g, h) /\ ~h.wrap /\ h.wrap \in BOOLEAN
      /\ h.x = g.x /\ h.y = g.y
      /\ h.top = g.top /\ h.bot = g.bot /\ h.view = g.view /\ h.lastX = g.lastX /\ h.lastY = g.lastY
      /\ h.savedMain = g.savedMain /\ h.savedAlt = g.savedAlt
  BY <1>1 DEF Shape, IsGrid, Fields, SameCells, SameLines
<1>3. Shape(h)
  BY <1>2 DEF Shape, SameCells, SameLines, SizeOK
<1>4. Screen(h) = Screen(g)
  BY <1>2 DEF Screen, SameCells, SameLines
<1> QED
  BY <1>2, <1>3, <1>4, CursorOnly DEF h

\* Clamp stays within its bounds and leaves what is within them.
LEMMA ClampIs ==
  ASSUME NEW n \in Int, NEW lo \in Int, NEW hi \in Int, lo <= hi
  PROVE  Clamp(n, lo, hi) \in lo .. hi /\ (n \in lo .. hi => Clamp(n, lo, hi) = n)
  BY DEF Clamp

\* Rows moved within a region are rows of the screen or blank.
LEMMA MovedIs ==
  ASSUME NEW g, Shape(g), NEW top \in 0 .. g.rows - 1, NEW bot \in 0 .. g.rows - 1, NEW n \in Int
  PROVE  /\ Moved(g, top, bot, n) \in Drawings(g)
         /\ Whole(g) => WholeScreenOf(g, Moved(g, top, bot, n))
<1>1. /\ Screen(g) \in Drawings(g) /\ (Whole(g) => WholeScreenOf(g, Screen(g)))
           /\ Rows(g) = 0 .. g.rows - 1
      /\ BlankRow(g.cols) \in Cells(g.cols) /\ WholeRow(BlankRow(g.cols))
  BY ScreenIs, BlankRowWhole DEF Shape, SizeOK
<1>2. Moved(g, top, bot, n) \in Drawings(g)
  <2>1. g.rows \in Nat
    BY DEF Shape, SizeOK
  <2>2. \A y \in 0 .. g.rows - 1 : Screen(g)[y] \in Cells(g.cols)
    BY <1>1 DEF Drawings
  <2> QED
    BY <1>1, <2>1, <2>2 DEF Moved, Drawings
<1>3. ASSUME Whole(g) PROVE WholeScreenOf(g, Moved(g, top, bot, n))
  <2>1. \A y \in 0 .. g.rows - 1 : WholeRow(Screen(g)[y])
    BY <1>1, <1>3 DEF WholeScreenOf
  <2>2. g.rows \in Nat
    BY DEF Shape, SizeOK
  <2> SUFFICES ASSUME NEW y \in 0 .. g.rows - 1 PROVE WholeRow(Moved(g, top, bot, n)[y])
    BY DEF WholeScreenOf
  <2>3. Moved(g, top, bot, n)[y] = IF y \notin top .. bot THEN Screen(g)[y]
          ELSE IF y + n \in top .. bot THEN Screen(g)[y + n] ELSE BlankRow(g.cols)
    BY <1>1 DEF Moved
  <2>4. y + n \in top .. bot => y + n \in 0 .. g.rows - 1
    BY <2>2
  <2> QED
    BY <1>1, <2>1, <2>3, <2>4
<1> QED
  BY <1>2, <1>3

\* A region scrolled either way is an edit of the screen in use.
LEMMA RegionIs ==
  ASSUME NEW g, Shape(g), NEW top \in 0 .. g.rows - 1, NEW bot \in 0 .. g.rows - 1, NEW n \in Int,
      top <= bot
  PROVE  /\ Edits(g, ScrollUpRegion(g, top, bot, n)) /\ SameElse(g, ScrollUpRegion(g, top, bot, n))
         /\ Edits(g, ScrollDownRegion(g, top, bot, n))
         /\ SameElse(g, ScrollDownRegion(g, top, bot, n))
<1>0. Clamp(n, 0, bot - top + 1) \in Int
  BY DEF Clamp
<1> DEFINE up == Moved(g, top, bot, Clamp(n, 0, bot - top + 1))  dn == Moved(g, top, bot,
        -Clamp(n, 0, bot - top + 1))
<1>1. up \in Drawings(g) /\ (Whole(g) => WholeScreenOf(g, up))
          /\ ScrollUpRegion(g, top, bot, n) = SetScreen(g, up)
  BY <1>0, MovedIs DEF ScrollUpRegion
<1>2. dn \in Drawings(g) /\ (Whole(g) => WholeScreenOf(g, dn))
          /\ ScrollDownRegion(g, top, bot, n) = SetScreen(g, dn)
  <2>1. -Clamp(n, 0, bot - top + 1) \in Int
    BY <1>0
  <2> QED
    BY <2>1, MovedIs DEF ScrollDownRegion
<1> HIDE DEF up, dn
<1> QED
  BY <1>1, <1>2, SetScreenIs, ElseEdits

\* Rows blanked are an edit.
LEMMA BlankRowsIs ==
  ASSUME NEW g, Shape(g), NEW ys
  PROVE  Edits(g, BlankRows(g, ys)) /\ SameElse(g, BlankRows(g, ys))
<1> DEFINE s == [y \in Rows(g) |-> IF y \in ys THEN BlankRow(g.cols) ELSE Screen(g)[y]]
<1>1. s \in Drawings(g) /\ (Whole(g) => WholeScreenOf(g, s)) /\ BlankRows(g, ys) = SetScreen(g, s)
  <2>1. /\ Screen(g) \in Drawings(g) /\ (Whole(g) => WholeScreenOf(g, Screen(g)))
             /\ Rows(g) = 0 .. g.rows - 1
        /\ BlankRow(g.cols) \in Cells(g.cols) /\ WholeRow(BlankRow(g.cols))
    BY ScreenIs, BlankRowWhole DEF Shape, SizeOK
  <2> QED
    BY <2>1 DEF BlankRows, Drawings, WholeScreenOf
<1> HIDE DEF s
<1> QED
  BY <1>1, SetScreenIs, ElseEdits

\* Where the cursor is, nothing drawn.
LEMMA SetCursorIs ==
  ASSUME NEW g, Shape(g), NEW x \in Int, NEW y \in Int
  PROVE  LET h == SetCursor(g, x, y)
         IN  /\ Edits(g, h) /\ ~h.wrap /\ SameCells(g, h) /\ h.savedMain = g.savedMain
             /\ h.x = Clamp(x, 0, g.cols - 1) /\ h.y = Clamp(y, 0, g.rows - 1)
<1> DEFINE h == SetCursor(g, x, y)
<1>1. h = [g EXCEPT !.wrap = FALSE, !.x = Clamp(x, 0, g.cols - 1), !.y = Clamp(y, 0, g.rows - 1)]
  BY DEF SetCursor
<1> HIDE DEF h
<1>2. /\ IsGrid(h) /\ SameCells(g, h) /\ SameLines(g, h) /\ ~h.wrap /\ h.wrap \in BOOLEAN
      /\ h.x = Clamp(x, 0, g.cols - 1) /\ h.y = Clamp(y, 0, g.rows - 1)
      /\ h.top = g.top /\ h.bot = g.bot /\ h.view = g.view /\ h.lastX = g.lastX /\ h.lastY = g.lastY
      /\ h.savedMain = g.savedMain /\ h.savedAlt = g.savedAlt
  BY <1>1 DEF Shape, IsGrid, Fields, SameCells, SameLines
<1>3. h.x \in 0 .. g.cols - 1 /\ h.y \in 0 .. g.rows - 1
  <2>1. g.rows \in Nat /\ g.rows >= 2 /\ g.cols \in Nat /\ g.cols >= 2
    BY DEF Shape, SizeOK
  <2> QED
    BY <1>2, <2>1 DEF Clamp
<1>4. Shape(h)
  BY <1>2, <1>3 DEF Shape, SameCells, SameLines, SizeOK
<1> QED
  BY <1>2, <1>4, CursorOnly DEF h

\* New margins are an edit, and no wrap is pending after them.
LEMMA SetScrollRegionIs ==
  ASSUME NEW g, Shape(g), NEW top \in Rows(g), NEW bot \in Rows(g)
  PROVE  Edits(g, SetScrollRegion(g, top, bot)) /\ Pending(SetScrollRegion(g, top, bot))
<1> DEFINE t == IF top < 0 THEN 0 ELSE top
           b == IF bot <= 0 \/ bot >= g.rows THEN g.rows - 1 ELSE bot
           r == IF t >= b THEN [g EXCEPT !.top = 0, !.bot = g.rows - 1]
               ELSE [g EXCEPT !.top = t, !.bot = b]
<1>1. t \in 0 .. g.rows - 1 /\ b \in 0 .. g.rows - 1
          /\ SetScrollRegion(g, top, bot) = SetCursor(r, 0, r.top)
  <2>1. SetScrollRegion(g, top, bot) = SetCursor(r, 0, r.top)
    BY Zenon DEF SetScrollRegion
  <2> HIDE DEF r
  <2>2. t \in 0 .. g.rows - 1 /\ b \in 0 .. g.rows - 1
    BY DEF Shape, SizeOK, Rows
  <2> QED
    BY <2>1, <2>2
<1> HIDE DEF t, b
<1>2. /\ IsGrid(r) /\ SameCells(g, r) /\ SameLines(g, r) /\ r.wrap = g.wrap /\ r.x = g.x
      /\ r.y = g.y
      /\ (IF t >= b THEN r.top = 0 /\ r.bot = g.rows - 1 ELSE r.top = t /\ r.bot = b)
      /\ r.view = g.view /\ r.lastX = g.lastX /\ r.lastY = g.lastY
      /\ r.savedMain = g.savedMain /\ r.savedAlt = g.savedAlt
  BY DEF Shape, IsGrid, Fields, SameCells, SameLines
<1> HIDE DEF r
<1>3. Shape(r)
  <2>1. g.rows \in Nat /\ g.rows >= 2 /\ g.savedMain \in Cursors
    BY DEF Shape, SizeOK
  <2>2. r.top \in 0 .. g.rows - 1 /\ r.bot \in 0 .. g.rows - 1 /\ r.top < r.bot
    BY <1>1, <1>2, <2>1
  <2> QED
    BY <1>2, <2>2 DEF Shape, SameCells, SameLines, SizeOK
<1>4. Edits(g, r)
  BY <1>2, <1>3, CursorOnly
<1>5. r.top \in Int
  BY <1>3 DEF Shape
<1> QED
  BY <1>1, <1>3, <1>4, <1>5, SetCursorIs, EditsCompose DEF Pending

----------------------------------------------------------------------------
\* A wrap stays pending at the last column while the cursor does not move.
LEMMA PendingStays ==
  ASSUME NEW g, NEW h, Pending(g), SameElse(g, h) PROVE Pending(h)
  BY DEF Pending, SameElse

\* EraseLine is an edit that drops the pending wrap.
LEMMA EraseLineIs ==
  ASSUME NEW g, Shape(g), NEW mode
  PROVE  Edits(g, EraseLine(g, mode)) /\ ~EraseLine(g, mode).wrap
      /\ EraseLine(g, mode).cols = g.cols
<1> DEFINE a == IF mode = 0 THEN g.x ELSE 0
           b == IF mode = 1 THEN g.x ELSE g.cols - 1
           row == HealOrphan(HealOrphan(BlankBetween(Row(g), a, b), a - 1), b + 1)
           n == NoWrap(g)
<1>1. a \in Int /\ b \in Int /\ g.cols \in Nat
  BY DEF Shape, SizeOK
<1>2. EraseLine(g, mode) = SetRow(n, row)
  BY DEF EraseLine
<1> HIDE DEF a, b
<1>3. row \in Cells(g.cols) /\ (Whole(g) => WholeRow(row))
  BY <1>1, ScreenIs, EraseKeeps
<1> HIDE DEF row
<1>4. Edits(g, n) /\ SameCells(g, n) /\ ~n.wrap
  BY NoWrapIs
<1> HIDE DEF n
<1>5. Shape(n) /\ n.cols = g.cols /\ (Whole(n) => Whole(g))
  BY <1>4 DEF Edits, SameLines, SameCells, Whole, Rows
<1>6. Edits(n, SetRow(n, row)) /\ SameElse(n, SetRow(n, row))
  BY <1>3, <1>5, SetRowIs
<1> QED
  BY <1>2, <1>4, <1>5, <1>6, EditsCompose DEF SameElse

\* What EraseDisplay does to the screen is an edit that drops the pending wrap.
LEMMA EraseDisplayIs ==
  ASSUME NEW g, Shape(g), NEW mode \in 0 .. 2
  PROVE  Edits(g, EraseDisplay(g, mode)) /\ ~EraseDisplay(g, mode).wrap
<1> DEFINE h == EraseDisplay(g, mode)
<1>1. \E k, ys : h = BlankRows(k, ys) /\ Edits(g, k) /\ ~k.wrap
  <2>1. CASE mode = 0
    <3>1. h = BlankRows(EraseLine(g, 0), g.y + 1 .. g.rows - 1)
      BY <2>1 DEF EraseDisplay
    <3> QED
      BY <3>1, EraseLineIs
  <2>2. CASE mode = 1
    <3>1. h = BlankRows(EraseLine(g, 1), 0 .. g.y - 1)
      BY <2>2 DEF EraseDisplay
    <3> QED
      BY <3>1, EraseLineIs
  <2>3. CASE mode = 2
    <3>1. h = BlankRows(NoWrap(g), Rows(g))
      BY <2>3 DEF EraseDisplay
    <3> QED
      BY <3>1, NoWrapIs
  <2> QED
    BY <2>1, <2>2, <2>3
<1> HIDE DEF h
<1>2. PICK k, ys : h = BlankRows(k, ys) /\ Edits(g, k) /\ ~k.wrap
  BY <1>1
<1>3. Edits(k, h) /\ SameElse(k, h)
  BY <1>2, BlankRowsIs DEF Edits
<1> QED
  BY <1>2, <1>3, EditsCompose DEF h, SameElse

\* Everything is erased, the scrollback too.
LEMMA EraseAllIs ==
  ASSUME NEW g, Shape(g)
  PROVE  LET h == EraseDisplay(g, 3)
         IN  /\ Shape(h) /\ (Whole(g) => Whole(h)) /\ ~h.wrap /\ h.scrollback = <<>>
                  /\ h.total = g.total
             /\ h.cols = g.cols /\ h.rows = g.rows /\ h.altActive = g.altActive
             /\ (g.altActive => h.savedMain = g.savedMain)
<1> DEFINE k == BlankRows(NoWrap(g), Rows(g))  h == EraseDisplay(g, 3)
<1>1. h = [k EXCEPT !.scrollback = <<>>, !.view = 0]
  BY DEF EraseDisplay
<1>2. Edits(g, k) /\ ~k.wrap
  <2>1. Edits(g, NoWrap(g)) /\ ~NoWrap(g).wrap
    BY NoWrapIs
  <2>2. Edits(NoWrap(g), k) /\ SameElse(NoWrap(g), k)
    BY <2>1, BlankRowsIs DEF Edits
  <2> QED
    BY <2>1, <2>2, EditsCompose DEF SameElse
<1> HIDE DEF h, k
<1>3. Shape(k)
  BY <1>2 DEF Edits
<1>4. /\ IsGrid(h) /\ SameCells(k, h) /\ h.scrollback = <<>> /\ h.view = 0 /\ h.wrap = k.wrap
      /\ h.x = k.x /\ h.y = k.y
      /\ h.top = k.top /\ h.bot = k.bot /\ h.lastX = k.lastX /\ h.lastY = k.lastY
      /\ h.savedMain = k.savedMain /\ h.savedAlt = k.savedAlt
      /\ h.cols = k.cols /\ h.rows = k.rows /\ h.altActive = k.altActive /\ h.total = k.total
  BY <1>1, <1>3 DEF Shape, IsGrid, Fields, SameCells
<1>5. h.scrollback \in Seq(Lines(Widths)) /\ Len(h.scrollback) <= ScrollbackMax /\ h.view \in Nat
          /\ h.view <= Len(h.scrollback)
  BY <1>4, GridAssumption
<1>6. Shape(h)
  BY <1>3, <1>4, <1>5 DEF Shape, SameCells, SizeOK
<1>7. Whole(k) => Whole(h)
  BY <1>4 DEF Whole, Rows, SameCells
<1> QED
  BY <1>2, <1>4, <1>6, <1>7 DEF h, Edits, SameLines

\* What is shifted within the row is at least one cell and fits.
LEMMA RoomIs ==
  ASSUME NEW g, Shape(g), NEW n \in Int PROVE Room(g, n) \in 1 .. g.cols - g.x
<1>1. g.cols \in Nat /\ g.x \in 0 .. g.cols - 1
  BY DEF Shape, SizeOK
<1> QED
  BY <1>1 DEF Room, Clamp

\* Characters inserted, deleted and erased are edits of one row.
LEMMA ShiftCharsIs ==
  ASSUME NEW g, Shape(g), NEW n \in Int
  PROVE  /\ Edits(g, InsertChars(g, n)) /\ SameElse(g, InsertChars(g, n))
         /\ Edits(g, DeleteChars(g, n)) /\ SameElse(g, DeleteChars(g, n))
         /\ Edits(g, EraseChars(g, n)) /\ SameElse(g, EraseChars(g, n))
<1> DEFINE k == Room(g, n)
           i0 == [x \in 0 .. g.cols - 1 |-> IF x < g.x THEN Row(g)[x]
               ELSE IF x < g.x + k THEN Blank
                    ELSE Row(g)[x - k]]
           i == HealOrphan(HealOrphan(HealOrphan(i0, g.x - 1), g.x + k), g.cols - 1)
           d0 == [x \in 0 .. g.cols - 1 |-> IF x < g.x THEN Row(g)[x]
               ELSE IF x + k < g.cols THEN Row(g)[x + k]
                    ELSE Blank]
           d == HealOrphan(HealOrphan(d0, g.x - 1), g.x)
           e == HealOrphan(HealOrphan(BlankBetween(Row(g), g.x, g.x + k - 1), g.x - 1), g.x + k)
<1>1. k \in 1 .. g.cols - g.x /\ g.cols \in Nat /\ g.x \in 0 .. g.cols - 1
          /\ Row(g) \in Cells(g.cols) /\ (Whole(g) => WholeRow(Row(g)))
  BY RoomIs, ScreenIs DEF Shape, SizeOK
<1>2. InsertChars(g, n) = SetRow(g, i) /\ DeleteChars(g, n) = SetRow(g, d)
          /\ EraseChars(g, n) = SetRow(g, e)
  BY DEF InsertChars, DeleteChars, EraseChars, Columns
<1> HIDE DEF k
<1>3. i \in Cells(g.cols) /\ (Whole(g) => WholeRow(i))
  BY <1>1, InsertKeeps
<1>4. d \in Cells(g.cols) /\ (Whole(g) => WholeRow(d))
  BY <1>1, DeleteKeeps
<1>5. e \in Cells(g.cols) /\ (Whole(g) => WholeRow(e))
  <2>1. g.x + k - 1 \in Int /\ g.x + k = (g.x + k - 1) + 1
    BY <1>1
  <2> HIDE DEF e
  <2> QED
    BY <1>1, <2>1, EraseKeeps DEF e
<1> HIDE DEF i, d, e
<1> QED
  BY <1>2, <1>3, <1>4, <1>5, SetRowIs

\* Lines inserted, deleted and scrolled are edits.
LEMMA ShiftLinesIs ==
  ASSUME NEW g, Shape(g), NEW n \in Int
  PROVE  /\ Edits(g, InsertLines(g, n)) /\ (Pending(g) => Pending(InsertLines(g, n)))
         /\ Edits(g, DeleteLines(g, n)) /\ (Pending(g) => Pending(DeleteLines(g, n)))
         /\ Edits(g, ScrollUp(g, n)) /\ (Pending(g) => Pending(ScrollUp(g, n)))
         /\ Edits(g, ScrollDown(g, n)) /\ (Pending(g) => Pending(ScrollDown(g, n)))
<1>1. /\ g.top \in 0 .. g.rows - 1 /\ g.bot \in 0 .. g.rows - 1 /\ g.top <= g.bot
      /\ g.y \in g.top .. g.bot => g.y \in 0 .. g.rows - 1 /\ g.y <= g.bot
  BY DEF Shape, SizeOK
<1>2. Edits(g, g)
  BY DEF Edits, SameLines
<1>3. Edits(g, ScrollUp(g, n)) /\ SameElse(g, ScrollUp(g, n)) /\ Edits(g, ScrollDown(g, n))
          /\ SameElse(g, ScrollDown(g, n))
  BY <1>1, RegionIs DEF ScrollUp, ScrollDown
<1>4. CASE g.y \in g.top .. g.bot
  <2>1. InsertLines(g, n) = ScrollDownRegion(g, g.y, g.bot, n)
            /\ DeleteLines(g, n) = ScrollUpRegion(g, g.y, g.bot, n)
    BY <1>4 DEF InsertLines, DeleteLines
  <2>2. Edits(g, InsertLines(g, n)) /\ SameElse(g, InsertLines(g, n))
            /\ Edits(g, DeleteLines(g, n)) /\ SameElse(g, DeleteLines(g, n))
    BY <1>1, <1>4, <2>1, RegionIs
  <2> QED
    BY <1>3, <2>2, PendingStays
<1>5. CASE g.y \notin g.top .. g.bot
  BY <1>2, <1>3, <1>5, PendingStays DEF InsertLines, DeleteLines
<1> QED
  BY <1>4, <1>5

----------------------------------------------------------------------------
\* A line pushed, or none.
Pushed(g, h) == /\ ~g.altActive /\ h.total = g.total + 1
                /\ h.scrollback = Newest(Append(g.scrollback, g.main[0]), ScrollbackMax)

\* What printing may do besides: push one line.
Prints(g, h) ==
  /\ Shape(h) /\ (Whole(g) => Whole(h))
  /\ h.cols = g.cols /\ h.rows = g.rows /\ h.altActive = g.altActive
  /\ (g.altActive => h.savedMain = g.savedMain)
  /\ (h.scrollback = g.scrollback /\ h.total = g.total) \/ Pushed(g, h)

\* An edit prints nothing.
LEMMA EditPrints ==
  ASSUME NEW g, NEW h, Edits(g, h) PROVE Prints(g, h)
  BY DEF Edits, SameLines, Prints

\* A line pushed at most, and an edit after it.
LEMMA PrintThenEdit ==
  ASSUME NEW g, NEW h, NEW k, Prints(g, h), Edits(h, k) PROVE Prints(g, k)
  BY DEF Edits, SameLines, Prints, Pushed

\* An edit that leaves the top line alone may come before the line pushed.
LEMMA EditThenPrint ==
  ASSUME NEW g, NEW h, NEW k, Edits(g, h), Prints(h, k), Pushed(h, k) => h.main[0] = g.main[0]
  PROVE  Prints(g, k)
  BY DEF Edits, SameLines, Prints, Pushed

\* Newest keeps the end of a sequence.
LEMMA NewestIs ==
  ASSUME NEW S, NEW s \in Seq(S), NEW n \in Nat
  PROVE  Newest(s, n) \in Seq(S) /\ Len(Newest(s, n)) <= n
         /\ Len(Newest(s, n)) = (IF Len(s) > n THEN n ELSE Len(s))
         /\ \A k \in 1 .. Len(Newest(s, n)) : Newest(s, n)[k] = s[k + Len(s) - Len(Newest(s, n))]
<1>1. CASE Len(s) > n
  <2>1. Newest(s, n) = SubSeq(s, Len(s) - n + 1, Len(s)) /\ Len(s) \in Nat
    BY <1>1 DEF Newest
  <2>2. Len(s) - n + 1 \in 1 .. Len(s) + 1 /\ Len(s) \in Len(s) - n .. Len(s)
    BY <1>1, <2>1
  <2> DEFINE m == Len(s) - n + 1
  <2>3. /\ SubSeq(s, m, Len(s)) \in Seq(S) /\ Len(SubSeq(s, m, Len(s))) = Len(s) - m + 1
        /\ \A k \in 1 .. Len(s) - m + 1 : SubSeq(s, m, Len(s))[k] = s[m + k - 1]
    BY <2>1, <2>2, SubSeqProperties
  <2>4. Len(s) - m + 1 = n /\ \A k \in 1 .. n : m + k - 1 = k + Len(s) - n
    BY <2>1
  <2> HIDE DEF m
  <2> QED
    BY <1>1, <2>1, <2>3, <2>4 DEF m
<1>2. CASE ~(Len(s) > n)
  BY <1>2 DEF Newest
<1> QED
  BY <1>1, <1>2

\* What the scrollback is once the first row is pushed.
LEMMA PushIs ==
  ASSUME NEW g, Shape(g)
  PROVE  LET s == Newest(Append(g.scrollback, g.main[0]), ScrollbackMax)
         IN  s \in Seq(Lines(Widths)) /\ Len(s) <= ScrollbackMax /\ g.view <= Len(s)
<1> DEFINE a == Append(g.scrollback, g.main[0])  s == Newest(a, ScrollbackMax)
<1>1. /\ g.main \in [0 .. g.rows - 1 -> Cells(g.cols)] /\ g.cols \in Widths /\ g.rows \in Nat
      /\ g.rows >= 2
      /\ g.scrollback \in Seq(Lines(Widths)) /\ Len(g.scrollback) <= ScrollbackMax
      /\ g.view \in Nat /\ g.view <= Len(g.scrollback)
  BY DEF Shape, SizeOK
<1>2. g.main[0] \in Cells(g.cols)
  BY <1>1
<1>3. g.main[0] \in Lines(Widths)
  BY <1>1, <1>2 DEF Lines, Cells
<1>4. a \in Seq(Lines(Widths)) /\ Len(a) = Len(g.scrollback) + 1 /\ Len(g.scrollback) \in Nat
  BY <1>1, <1>3
<1> HIDE DEF a
<1>5. s \in Seq(Lines(Widths)) /\ Len(s) <= ScrollbackMax
          /\ Len(s) = (IF Len(a) > ScrollbackMax THEN ScrollbackMax ELSE Len(a))
  BY <1>4, NewestIs, GridAssumption
<1> QED
  BY <1>1, <1>4, <1>5, GridAssumption DEF a

\* A line feed pushes one line at most, from the last row.
LEMMA LineFeedIs ==
  ASSUME NEW g, Shape(g)
  PROVE  LET h == LineFeed(g)
         IN  /\ Prints(g, h) /\ ~h.wrap /\ h.x = g.x
             /\ h.total = g.total \/ g.y = g.rows - 1
<1> DEFINE h == LineFeed(g)  n == NoWrap(g)
<1>1. /\ Edits(g, n) /\ SameCells(g, n) /\ ~n.wrap /\ n.x = g.x /\ n.y = g.y /\ n.top = g.top
      /\ n.bot = g.bot
      /\ Shape(n)
  BY NoWrapIs DEF Edits
<1>2. CASE g.y # g.bot
  <2>1. h = [g EXCEPT !.wrap = FALSE, !.y = IF @ < g.rows - 1 THEN @ + 1 ELSE @]
    BY <1>2 DEF LineFeed
  <2>0. g.y \in Nat /\ g.y <= g.rows - 1 /\ g.rows \in Nat
    BY DEF Shape, SizeOK
  <2> HIDE DEF h
  <2>2. /\ IsGrid(h) /\ SameCells(g, h) /\ SameLines(g, h) /\ ~h.wrap /\ h.wrap \in BOOLEAN
        /\ h.x = g.x /\ h.y = (IF g.y < g.rows - 1 THEN g.y + 1 ELSE g.y)
        /\ h.top = g.top /\ h.bot = g.bot /\ h.view = g.view /\ h.lastX = g.lastX
        /\ h.lastY = g.lastY
        /\ h.savedMain = g.savedMain /\ h.savedAlt = g.savedAlt
    BY <2>1 DEF Shape, IsGrid, Fields, SameCells, SameLines
  <2>3. h.y \in 0 .. g.rows - 1
    BY <2>0, <2>2
  <2>4. Shape(h)
    BY <2>2, <2>3 DEF Shape, SameCells, SameLines, SizeOK
  <2> QED
    BY <2>2, <2>4, CursorOnly, EditPrints DEF h, SameLines
<1>3. CASE g.y = g.bot
  <2> DEFINE p == IF WholeScreen(g) THEN PushScrollback(n, g.top) ELSE n
  <2>1. h = ScrollUpRegion(p, g.top, g.bot, 1)
    BY <1>3 DEF LineFeed
  <2> HIDE DEF h
  <2>2. Prints(g, p) /\ ~p.wrap /\ p.x = g.x /\ (p.total = g.total \/ g.y = g.rows - 1)
    <3>1. CASE WholeScreen(g) /\ ~g.altActive
      <4>1. p = [n EXCEPT !.scrollback = Newest(Append(@, n.main[0]), ScrollbackMax),
                !.total = @ + 1]
        BY <1>1, <3>1 DEF PushScrollback, WholeScreen, Edits, SameLines
      <4> HIDE DEF p, n
      <4>2. /\ IsGrid(p) /\ SameCells(n, p) /\ ~p.wrap /\ p.wrap \in BOOLEAN /\ p.x = n.x
            /\ p.y = n.y
            /\ p.total = n.total + 1 /\ p.scrollback = Newest(Append(n.scrollback, n.main[0]),
                 ScrollbackMax)
            /\ p.cols = n.cols /\ p.rows = n.rows /\ p.altActive = n.altActive
            /\ p.top = n.top /\ p.bot = n.bot /\ p.view = n.view /\ p.lastX = n.lastX
            /\ p.lastY = n.lastY
            /\ p.savedMain = n.savedMain /\ p.savedAlt = n.savedAlt
        BY <1>1, <4>1 DEF Shape, IsGrid, Fields, SameCells
      <4>5. /\ p.scrollback \in Seq(Lines(Widths)) /\ Len(p.scrollback) <= ScrollbackMax
            /\ n.view <= Len(p.scrollback)
        BY <1>1, <4>2, PushIs
      <4>6. Shape(p)
        <5>1. Shape(n)
          BY <1>1
        <5>2. p.total \in Nat /\ p.view \in Nat
          <6>1. n.total \in Nat /\ n.view \in Nat
            BY <5>1 DEF Shape
          <6>2. p.total = n.total + 1 /\ p.view = n.view
            BY <4>2
          <6> QED
            BY <6>1, <6>2
        <5> QED
          BY <4>2, <4>5, <5>1, <5>2 DEF Shape, SameCells, SizeOK
      <4>7. Pushed(g, p)
        BY <1>1, <3>1, <4>2 DEF Pushed, Edits, SameLines, SameCells
      <4>8. Whole(g) => Whole(p)
        BY <1>1, <4>2 DEF Edits, SameLines, SameCells, Whole, Rows
      <4>9. p.cols = g.cols /\ p.rows = g.rows /\ p.altActive = g.altActive
                /\ (g.altActive => p.savedMain = g.savedMain) /\ p.x = g.x
        BY <1>1, <4>2 DEF Edits, SameLines
      <4> QED
        BY <1>3, <3>1, <4>2, <4>6, <4>7, <4>8, <4>9 DEF Prints, WholeScreen
    <3>2. CASE ~(WholeScreen(g) /\ ~g.altActive)
      <4>1. p = n
        BY <1>1, <3>2 DEF PushScrollback, Edits, SameLines
      <4> QED
        BY <1>1, <4>1, EditPrints DEF Edits, SameLines
    <3> QED
      BY <3>1, <3>2
  <2> HIDE DEF p, n
  <2>3. /\ Shape(p) /\ g.top \in 0 .. p.rows - 1 /\ g.bot \in 0 .. p.rows - 1 /\ g.top <= g.bot
    <3>1. Shape(p) /\ p.rows = g.rows
      BY <2>2 DEF Prints
    <3>2. g.top \in 0 .. g.rows - 1 /\ g.bot \in 0 .. g.rows - 1 /\ g.top < g.bot /\ g.rows \in Nat
      BY DEF Shape, SizeOK
    <3> QED
      BY <3>1, <3>2
  <2>4. Edits(p, h) /\ SameElse(p, h)
    BY <2>1, <2>3, RegionIs
  <2> QED
    BY <2>2, <2>4, PrintThenEdit DEF SameElse, h
<1> QED
  BY <1>2, <1>3

\* A reverse index is an edit.
LEMMA ReverseIndexIs ==
  ASSUME NEW g, Shape(g) PROVE Edits(g, ReverseIndex(g)) /\ ~ReverseIndex(g).wrap
<1> DEFINE h == ReverseIndex(g)  n == NoWrap(g)
<1>1. CASE g.y # g.top
  <2>1. h = [g EXCEPT !.wrap = FALSE, !.y = IF @ > 0 THEN @ - 1 ELSE @]
    BY <1>1 DEF ReverseIndex
  <2>0. g.y \in Nat /\ g.y <= g.rows - 1 /\ g.rows \in Nat
    BY DEF Shape, SizeOK
  <2> HIDE DEF h
  <2>2. /\ IsGrid(h) /\ SameCells(g, h) /\ SameLines(g, h) /\ ~h.wrap /\ h.wrap \in BOOLEAN
        /\ h.x = g.x /\ h.y = (IF g.y > 0 THEN g.y - 1 ELSE g.y)
        /\ h.top = g.top /\ h.bot = g.bot /\ h.view = g.view /\ h.lastX = g.lastX
        /\ h.lastY = g.lastY
        /\ h.savedMain = g.savedMain /\ h.savedAlt = g.savedAlt
    BY <2>1 DEF Shape, IsGrid, Fields, SameCells, SameLines
  <2>3. h.y \in 0 .. g.rows - 1
    BY <2>0, <2>2
  <2>4. Shape(h)
    BY <2>2, <2>3 DEF Shape, SameCells, SameLines, SizeOK
  <2> QED
    BY <2>2, <2>4, CursorOnly DEF h
<1>2. CASE g.y = g.top
  <2>1. h = ScrollDownRegion(n, g.top, g.bot, 1)
    BY <1>2 DEF ReverseIndex
  <2>2. Edits(g, n) /\ ~n.wrap /\ Shape(n) /\ n.rows = g.rows
    BY NoWrapIs DEF Edits, SameLines
  <2>3. g.top \in 0 .. g.rows - 1 /\ g.bot \in 0 .. g.rows - 1 /\ g.top <= g.bot
    BY DEF Shape, SizeOK
  <2> HIDE DEF h, n
  <2>4. Edits(n, h) /\ SameElse(n, h)
    BY <2>1, <2>2, <2>3, RegionIs
  <2> QED
    BY <2>2, <2>4, EditsCompose DEF SameElse, h
<1> QED
  BY <1>1, <1>2

\* SaveCursor writes a slot and moves nothing.
LEMMA SaveCursorIs ==
  ASSUME NEW g, Shape(g)
  PROVE  LET h == SaveCursor(g)
         IN  Edits(g, h) /\ (Pending(g) => Pending(h)) /\ SameCells(g, h) /\ h.x = g.x /\ h.y = g.y
             /\ h.savedMain \in Cursors
<1> DEFINE h == SaveCursor(g)
<1>1. Saved(g) \in Cursors
  BY DEF Saved, Cursors, Shape, SizeOK
<1>2. (h = [g EXCEPT !.savedAlt = Saved(g)] /\ g.altActive)
          \/ (h = [g EXCEPT !.savedMain = Saved(g)] /\ ~g.altActive)
  BY DEF SaveCursor
<1> HIDE DEF h
<1>3. /\ IsGrid(h) /\ SameCells(g, h) /\ SameLines(g, h) /\ h.wrap = g.wrap /\ h.x = g.x
      /\ h.y = g.y
      /\ h.top = g.top /\ h.bot = g.bot /\ h.view = g.view /\ h.lastX = g.lastX /\ h.lastY = g.lastY
      /\ h.savedMain \in {g.savedMain, Saved(g)} /\ h.savedAlt \in {g.savedAlt, Saved(g)}
  BY <1>2 DEF Shape, IsGrid, Fields, SameCells, SameLines
<1>4. Shape(h)
  BY <1>1, <1>3 DEF Shape, SameCells, SameLines, SizeOK
<1> QED
  BY <1>3, <1>4, CursorOnly DEF h, Pending, SameLines, Shape

\* RestoreCursor puts the cursor where the slot says, within the screen.
LEMMA RestoreCursorIs ==
  ASSUME NEW g, Shape(g)
  PROVE  LET h == RestoreCursor(g)  s == IF g.altActive THEN g.savedAlt ELSE g.savedMain
         IN  /\ Edits(g, h) /\ (Pending(g) => Pending(h)) /\ SameCells(g, h)
             /\ s.valid => h.x = Clamp(s.x, 0, g.cols - 1) /\ h.y = Clamp(s.y, 0, g.rows - 1)
<1> DEFINE h == RestoreCursor(g)  s == IF g.altActive THEN g.savedAlt ELSE g.savedMain
<1>1. s.x \in Int /\ s.y \in Int
  BY DEF Shape, Cursors
<1>2. h = IF s.valid THEN SetCursor(g, s.x, s.y) ELSE g
  BY DEF RestoreCursor
<1> HIDE DEF s, h
<1>3. CASE s.valid
  BY <1>1, <1>2, <1>3, SetCursorIs DEF Pending, h, s
<1>4. CASE ~s.valid
  BY <1>2, <1>4, CursorOnly DEF h, s, SameCells, SameLines
<1> QED
  BY <1>3, <1>4

----------------------------------------------------------------------------
\* A new column is an edit.
LEMMA SetXIs ==
  ASSUME NEW g, Shape(g), NEW x \in 0 .. g.cols - 1
  PROVE  LET h == [g EXCEPT !.x = x]
         IN  Edits(g, h) /\ SameCells(g, h) /\ h.x = x /\ h.y = g.y /\ h.wrap = g.wrap
<1> DEFINE h == [g EXCEPT !.x = x]
<1>1. /\ IsGrid(h) /\ SameCells(g, h) /\ SameLines(g, h) /\ h.wrap = g.wrap /\ h.x = x /\ h.y = g.y
      /\ h.top = g.top /\ h.bot = g.bot /\ h.view = g.view /\ h.lastX = g.lastX /\ h.lastY = g.lastY
      /\ h.savedMain = g.savedMain /\ h.savedAlt = g.savedAlt
  BY DEF Shape, IsGrid, Fields, SameCells, SameLines
<1> HIDE DEF h
<1>2. Shape(h)
  BY <1>1 DEF Shape, SameCells, SameLines, SizeOK
<1> QED
  BY <1>1, <1>2, CursorOnly DEF h

\* The cursor stops at the last column with a wrap pending.
LEMMA AdvanceIs ==
  ASSUME NEW g, Shape(g), NEW w \in 1 .. 2, g.wrap => g.x + w >= g.cols
  PROVE  Edits(g, Advance(g, w)) /\ Pending(Advance(g, w))
<1> DEFINE h == Advance(g, w)
<1>0. g.x \in 0 .. g.cols - 1 /\ g.cols \in Nat /\ g.cols >= 2
  BY DEF Shape, SizeOK
<1>1. CASE g.x + w >= g.cols
  <2>1. h = [g EXCEPT !.x = g.cols - 1, !.wrap = TRUE]
    BY <1>1 DEF Advance
  <2> HIDE DEF h
  <2>2. /\ IsGrid(h) /\ SameCells(g, h) /\ SameLines(g, h) /\ h.wrap = TRUE /\ h.x = g.cols - 1
        /\ h.y = g.y
        /\ h.top = g.top /\ h.bot = g.bot /\ h.view = g.view /\ h.lastX = g.lastX
        /\ h.lastY = g.lastY
        /\ h.savedMain = g.savedMain /\ h.savedAlt = g.savedAlt
    BY <2>1 DEF Shape, IsGrid, Fields, SameCells, SameLines
  <2>3. h.x \in 0 .. g.cols - 1
    BY <1>0, <2>2
  <2>4. Shape(h)
    BY <2>2, <2>3 DEF Shape, SameCells, SameLines, SizeOK
  <2> QED
    BY <2>2, <2>4, CursorOnly DEF h, Pending, SameLines
<1>2. CASE ~(g.x + w >= g.cols)
  <2>1. h = [g EXCEPT !.x = g.x + w]
    BY <1>2 DEF Advance
  <2>2. g.x + w \in 0 .. g.cols - 1 /\ ~g.wrap
    BY <1>0, <1>2
  <2> HIDE DEF h
  <2> QED
    BY <2>1, <2>2, SetXIs DEF h, Pending
<1> QED
  BY <1>1, <1>2

\* The cells a character takes.
Wide(kind) == IF kind = WideLead THEN 2 ELSE 1

\* A character that fits is drawn without leaving a half, its own or another's.
LEMMA DrawIs ==
  ASSUME NEW g, Shape(g), NEW kind \in Printed, g.x + Wide(kind) <= g.cols
  PROVE  LET h == Draw(g, kind, Wide(kind))
         IN  Edits(g, h) /\ h.x = g.x /\ h.wrap = g.wrap /\ h.cols = g.cols
<1> DEFINE row == Written(Row(g), g.x, kind)
           both == IF Wide(kind) = 2 THEN Written(row, g.x + 1, WideTail) ELSE row
           k == SetRow(g, both)  h == Draw(g, kind, Wide(kind))
<1>0. g.x \in 0 .. g.cols - 1 /\ g.cols \in Nat /\ g.cols >= 2 /\ Row(g) \in Cells(g.cols)
          /\ (Whole(g) => WholeRow(Row(g)))
  BY ScreenIs DEF Shape, SizeOK
<1>1. both \in Cells(g.cols) /\ (Whole(g) => WholeRow(both))
  <2>1. CASE kind = WideLead
    <3>1. both = Written(Written(Row(g), g.x, WideLead), g.x + 1, WideTail)
              /\ g.x \in 0 .. g.cols - 2
      BY <1>0, <2>1 DEF Wide
    <3> QED
      BY <1>0, <3>1, WidePairKeeps
  <2>2. CASE kind # WideLead
    <3>1. both = row /\ kind \notin {WideLead, WideTail} /\ kind \in Kinds
      BY <2>2 DEF Wide, Printed, Kinds, Narrow, Indicator, WideLead, WideTail
    <3> QED
      BY <1>0, <3>1, WriteKeeps
  <2> QED
    BY <2>1, <2>2
<1>2. h = [k EXCEPT !.lastX = g.x, !.lastY = g.y]
  BY DEF Draw, Written
<1> HIDE DEF both
<1>3. Shape(k) /\ SameElse(g, k) /\ Edits(g, k)
  BY <1>1, SetRowIs
<1> HIDE DEF h, k
<1>4. /\ IsGrid(h) /\ SameCells(k, h) /\ SameLines(k, h) /\ h.wrap = k.wrap /\ h.x = k.x
      /\ h.y = k.y
      /\ h.top = k.top /\ h.bot = k.bot /\ h.view = k.view /\ h.lastX = g.x /\ h.lastY = g.y
      /\ h.savedMain = k.savedMain /\ h.savedAlt = k.savedAlt
  BY <1>2, <1>3 DEF Shape, IsGrid, Fields, SameCells, SameLines
<1>5. g.x \in Int /\ g.y \in Int
  BY DEF Shape
<1>6. Shape(h)
  BY <1>3, <1>4, <1>5 DEF Shape, SameCells, SameLines, SizeOK
<1> QED
  BY <1>3, <1>4, <1>6, CursorOnly, EditsCompose DEF h, SameElse, SameLines

\* A pending wrap is at most one line feed, to the first column.
LEMMA WrapNowIs ==
  ASSUME NEW g, Shape(g), NEW autowrap \in BOOLEAN
  PROVE  LET h == WrapNow(g, autowrap)
         IN  Prints(g, h) /\ (h = g \/ (h.x = 0 /\ ~h.wrap))
<1>1. CASE g.wrap /\ autowrap
  <2>1. WrapNow(g, autowrap) = LineFeed([g EXCEPT !.x = 0])
    BY <1>1 DEF WrapNow
  <2>2. 0 \in 0 .. g.cols - 1
    BY DEF Shape, SizeOK
  <2> DEFINE k == [g EXCEPT !.x = 0]
  <2>3. Edits(g, k) /\ SameCells(g, k) /\ k.x = 0
    BY <2>2, SetXIs
  <2> HIDE DEF k
  <2>4. Shape(k) /\ k.main[0] = g.main[0]
    BY <2>3 DEF Edits, SameCells
  <2>5. Prints(k, LineFeed(k)) /\ ~LineFeed(k).wrap /\ LineFeed(k).x = 0
    BY <2>3, <2>4, LineFeedIs
  <2> QED
    BY <2>1, <2>3, <2>4, <2>5, EditThenPrint DEF k
<1>2. CASE ~(g.wrap /\ autowrap)
  <2>1. WrapNow(g, autowrap) = g
    BY <1>2 DEF WrapNow
  <2>2. Prints(g, g)
    BY DEF Prints
  <2> QED
    BY <2>1, <2>2
<1> QED
  BY <1>1, <1>2

\* After an early wrap the character fits.
LEMMA WrapEarlyIs ==
  ASSUME NEW g, Shape(g), Pending(g), NEW w \in 1 .. 2, NEW autowrap \in BOOLEAN
  PROVE  LET h == WrapEarly(g, w, autowrap)
         IN  /\ Prints(g, h) /\ h.x + w <= h.cols /\ (h.wrap => h.x + w >= h.cols)
             /\ (g.x = 0 => h = g)
<1> DEFINE h == WrapEarly(g, w, autowrap)
<1>0. g.x \in 0 .. g.cols - 1 /\ g.cols \in Nat /\ g.cols >= 2 /\ g.y \in 0 .. g.rows - 1
          /\ g.rows \in Nat /\ g.rows >= 2
  BY DEF Shape, SizeOK
<1>1. CASE ~(w = 2 /\ g.x = g.cols - 1)
  <2>1. h = g
    BY <1>1 DEF WrapEarly
  <2>2. Prints(g, g)
    BY DEF Prints
  <2>3. g.x + w <= g.cols /\ (g.wrap => g.x + w >= g.cols)
    BY <1>0, <1>1 DEF Pending
  <2> QED
    BY <2>1, <2>2, <2>3
<1>2. CASE w = 2 /\ g.x = g.cols - 1
  <2> DEFINE row == Written(Row(g), g.x, Blank)  b == SetRow(g, row)
  <2>1. h = IF autowrap THEN LineFeed([b EXCEPT !.x = 0]) ELSE [b EXCEPT !.x = g.cols - 2]
    BY <1>2 DEF WrapEarly, Written
  <2>2. row \in Cells(g.cols) /\ (Whole(g) => WholeRow(row))
    <3>1. Blank \in Kinds /\ Blank \notin {WideLead, WideTail}
      BY DEF Kinds, Blank, WideLead, WideTail
    <3> QED
      BY <1>0, <3>1, WriteKeeps, ScreenIs
  <2> HIDE DEF row
  <2>3. Shape(b) /\ Edits(g, b) /\ SameElse(g, b) /\ \A y \in 0 .. g.rows - 1 : y # g.y
            => b.main[y] = g.main[y]
    BY <2>2, SetRowIs
  <2> HIDE DEF h, b
  <2>4. CASE autowrap
    <3> DEFINE k == [b EXCEPT !.x = 0]
    <3>1. Edits(b, k) /\ SameCells(b, k) /\ k.x = 0 /\ k.y = b.y
      <4>1. 0 \in 0 .. b.cols - 1
        BY <1>0, <2>3 DEF SameElse
      <4> QED
        BY <2>3, <4>1, SetXIs
    <3>2. h = LineFeed(k)
      BY <2>1, <2>4
    <3> HIDE DEF k
    <3>3. Edits(g, k) /\ Shape(k) /\ k.rows = g.rows /\ k.y = g.y
      BY <2>3, <3>1, EditsCompose DEF Edits, SameLines, SameElse
    <3>4. Prints(k, h) /\ ~h.wrap /\ h.x = 0 /\ (h.total = k.total \/ k.y = k.rows - 1)
      BY <3>1, <3>2, <3>3, LineFeedIs
    <3>5. Pushed(k, h) => k.main[0] = g.main[0]
      <4>1. SUFFICES ASSUME Pushed(k, h) PROVE k.main[0] = g.main[0]
        OBVIOUS
      <4>2. k.total \in Nat
        BY <3>3 DEF Shape
      <4>3. g.y = g.rows - 1
        BY <3>3, <3>4, <4>1, <4>2 DEF Pushed
      <4>4. 0 \in 0 .. g.rows - 1 /\ 0 # g.y
        BY <1>0, <4>3
      <4> QED
        BY <2>3, <3>1, <4>4 DEF SameCells
    <3>6. Prints(g, h)
      BY <3>3, <3>4, <3>5, EditThenPrint
    <3>7. h.cols = g.cols
      BY <3>6 DEF Prints
    <3> QED
      BY <1>0, <1>2, <3>4, <3>6, <3>7 DEF h
  <2>5. CASE ~autowrap
    <3>1. h = [b EXCEPT !.x = g.cols - 2] /\ g.cols - 2 \in 0 .. b.cols - 1
      BY <1>0, <2>1, <2>3, <2>5 DEF SameElse
    <3>2. Edits(b, h) /\ h.x = g.cols - 2
      BY <2>3, <3>1, SetXIs
    <3>3. Prints(g, h)
      BY <2>3, <3>2, EditPrints, EditsCompose
    <3>4. h.cols = g.cols
      BY <3>3 DEF Prints
    <3> QED
      BY <1>0, <1>2, <3>2, <3>3, <3>4 DEF h
  <2> QED
    BY <2>4, <2>5
<1> QED
  BY <1>1, <1>2

\* The second half of a flag may cut only the pair it is written over.
LEMMA JoinFlagIs ==
  ASSUME NEW g, Shape(g), NEW kind, JoinsFlag(g, kind)
  PROVE  LET h == JoinFlag(g)
         IN  /\ Shape(h) /\ SameLines(g, h) /\ Pending(h)
             /\ ~IsPair(Row(g), g.x) => Edits(g, h)
<1> DEFINE p == g.lastX  row == [Row(g) EXCEPT ![p] = WideLead, ![p + 1] = WideTail]  k == SetRow(g,
        row)  h == JoinFlag(g)
<1>1. /\ p \in 0 .. g.cols - 2 /\ g.x = p + 1 /\ Row(g)[p] = Indicator /\ g.cols \in Nat
      /\ Row(g) \in Cells(g.cols)
      /\ ~g.wrap /\ (Whole(g) => WholeRow(Row(g)))
  <2>1. g.lastX \in 0 .. g.cols - 1 /\ g.x = g.lastX + 1 /\ g.x \in 0 .. g.cols - 1
            /\ g.cols \in Nat /\ ~g.wrap
    BY DEF JoinsFlag, Columns, Shape, SizeOK
  <2> QED
    BY <2>1, ScreenIs DEF JoinsFlag
<1>2. h = Advance(k, 1)
  BY <1>1 DEF JoinFlag
<1>3. row \in Cells(g.cols) /\ (WholeRow(Row(g)) /\ ~IsPair(Row(g), p + 1) => WholeRow(row))
  BY <1>1, FlagKeeps
<1> HIDE DEF row, h
<1>4. Shape(k) /\ SameElse(g, k) /\ ((Whole(g) => WholeRow(row)) => Edits(g, k))
  BY <1>3, SetRowIs
<1> HIDE DEF k
<1>5. ~k.wrap /\ 1 \in 1 .. 2
  BY <1>1, <1>4 DEF SameElse
<1>6. Edits(k, h) /\ Pending(h)
  BY <1>2, <1>4, <1>5, AdvanceIs
<1>7. SameLines(g, h)
  BY <1>4, <1>6 DEF SameElse, Edits, SameLines
<1> QED
  BY <1>1, <1>3, <1>4, <1>6, <1>7, EditsCompose DEF Edits, h

\* A character printed pushes a line at most and cuts no pair, but for a flag's half.
LEMMA PutCharIs ==
  ASSUME NEW g, Shape(g), Pending(g), NEW kind \in Printed, NEW insert \in BOOLEAN,
      NEW autowrap \in BOOLEAN
  PROVE  LET h == PutChar(g, kind, insert, autowrap)
         IN  /\ Pending(h)
             /\ \/ Prints(g, h)
                \/ /\ JoinsFlag(g, Indicator) /\ h = JoinFlag(g) /\ IsPair(Row(g), g.x)
                   /\ Shape(h) /\ SameLines(g, h)
<1> DEFINE w == Wide(kind)
           n == WrapNow(g, autowrap)
           at == WrapEarly(n, w, autowrap)
           ins == IF insert THEN InsertChars(at, w) ELSE at
           d == Draw(ins, kind, w)
           h == PutChar(g, kind, insert, autowrap)
<1>1. CASE JoinsFlag(g, kind)
  <2>1. h = JoinFlag(g) /\ kind = Indicator
    BY <1>1 DEF PutChar, JoinsFlag
  <2> QED
    BY <1>1, <2>1, JoinFlagIs, EditPrints
<1>2. CASE ~JoinsFlag(g, kind)
  <2>1. h = Advance(d, w)
    BY <1>2 DEF PutChar, Wide
  <2>2. w \in 1 .. 2
    BY DEF Wide
  <2>3. Prints(g, n) /\ (n = g \/ (n.x = 0 /\ ~n.wrap))
    BY WrapNowIs
  <2> HIDE DEF n, h
  <2>4. Shape(n) /\ Pending(n)
    BY <2>3 DEF Prints, Pending
  <2>5. Prints(n, at) /\ at.x + w <= at.cols /\ (at.wrap => at.x + w >= at.cols)
            /\ (n.x = 0 => at = n)
    BY <2>2, <2>4, WrapEarlyIs
  <2> HIDE DEF at
  <2>6. Prints(g, at)
    <3>1. CASE n = g
      BY <2>5, <3>1
    <3>2. CASE n.x = 0
      BY <2>3, <2>5, <3>2
    <3> QED
      BY <2>3, <3>1, <3>2
  <2>7. Shape(at)
    BY <2>6 DEF Prints
  <2>8. Edits(at, ins) /\ SameElse(at, ins)
    <3>1. CASE insert
      BY <2>2, <2>7, <3>1, ShiftCharsIs
    <3>2. CASE ~insert
      BY <2>7, <3>2 DEF Edits, SameLines, SameElse
    <3> QED
      BY <3>1, <3>2
  <2> HIDE DEF ins
  <2>9. Shape(ins) /\ ins.x + w <= ins.cols /\ (ins.wrap => ins.x + w >= ins.cols)
    BY <2>5, <2>8 DEF Edits, SameElse
  <2>10. Edits(ins, d) /\ d.x = ins.x /\ d.wrap = ins.wrap /\ d.cols = ins.cols
    BY <2>9, DrawIs
  <2> HIDE DEF d, w
  <2>11. Edits(d, h) /\ Pending(h)
    <3>1. Shape(d) /\ (d.wrap => d.x + w >= d.cols)
      BY <2>9, <2>10 DEF Edits
    <3> QED
      BY <2>1, <2>2, <3>1, AdvanceIs
  <2>12. Prints(g, h)
    BY <2>6, <2>8, <2>10, <2>11, PrintThenEdit
  <2> QED
    BY <2>11, <2>12 DEF h
<1> QED
  BY <1>1, <1>2

----------------------------------------------------------------------------
\* The lines and the size stay, whichever screen is shown.
SameSheet(g, h) ==
  /\ Shape(h) /\ (Whole(g) => Whole(h))
  /\ h.cols = g.cols /\ h.rows = g.rows /\ h.scrollback = g.scrollback /\ h.total = g.total

\* The slot that holds the cursor.
Here(g) == [x |-> g.x, y |-> g.y, valid |-> TRUE]

\* A blank screen has the size and no half of a pair.
LEMMA BlankScreenIs ==
  ASSUME NEW g, Shape(g)
  PROVE  BlankScreen(g.cols, g.rows) \in Drawings(g)
      /\ WholeScreenOf(g, BlankScreen(g.cols, g.rows))
  BY BlankRowWhole DEF BlankScreen, Drawings, WholeScreenOf, Shape, SizeOK

\* The alternate screen takes the cursor into the slot of the main one.
LEMMA EnterAltIs ==
  ASSUME NEW g, Shape(g), ~g.altActive
  PROVE  LET h == EnterAlt(g)
         IN  SameSheet(g, h) /\ ~h.wrap /\ h.altActive /\ h.savedMain = Here(g)
<1> DEFINE h == EnterAlt(g)  w == WholeRegion(g)
<1>1. h = [w EXCEPT !.savedMain = Saved(g), !.altActive = TRUE, !.x = 0, !.y = 0, !.view = 0,
                    !.alt = BlankScreen(g.cols, g.rows)]
  BY DEF EnterAlt
<1>2. w = [g EXCEPT !.top = 0, !.bot = g.rows - 1, !.wrap = FALSE]
  BY DEF WholeRegion
<1> HIDE DEF h, w
<1>3. /\ IsGrid(w) /\ w.top = 0 /\ w.bot = g.rows - 1 /\ w.wrap = FALSE /\ w.cols = g.cols
      /\ w.rows = g.rows
      /\ w.main = g.main /\ w.alt = g.alt /\ w.scrollback = g.scrollback /\ w.total = g.total
      /\ w.lastX = g.lastX /\ w.lastY = g.lastY /\ w.savedAlt = g.savedAlt
  BY <1>2 DEF Shape, IsGrid, Fields
<1>4. /\ IsGrid(h) /\ h.top = 0 /\ h.bot = g.rows - 1 /\ h.wrap = FALSE /\ h.cols = g.cols
      /\ h.rows = g.rows
      /\ h.main = g.main /\ h.alt = BlankScreen(g.cols, g.rows) /\ h.scrollback = g.scrollback
      /\ h.total = g.total
      /\ h.lastX = g.lastX /\ h.lastY = g.lastY /\ h.savedAlt = g.savedAlt /\ h.savedMain = Saved(g)
      /\ h.altActive = TRUE /\ h.x = 0 /\ h.y = 0 /\ h.view = 0
  BY <1>1, <1>3 DEF IsGrid, Fields
<1>5. Saved(g) \in Cursors /\ Saved(g) = Here(g)
  BY DEF Saved, Here, Cursors, Shape, SizeOK
<1>6. /\ BlankScreen(g.cols, g.rows) \in Drawings(g)
      /\ WholeScreenOf(g, BlankScreen(g.cols, g.rows))
      /\ g.rows \in Nat /\ g.rows >= 2 /\ g.cols \in Nat /\ g.cols >= 2 /\ Len(g.scrollback) \in Nat
  <2>1. g.rows \in Nat /\ g.rows >= 2 /\ g.cols \in Nat /\ g.cols >= 2 /\ Len(g.scrollback) \in Nat
    BY DEF Shape, SizeOK
  <2> QED
    BY <2>1, BlankScreenIs
<1>7. h.x \in 0 .. h.cols - 1 /\ h.y \in 0 .. h.rows - 1 /\ h.top \in 0 .. h.rows - 1
          /\ h.bot \in 0 .. h.rows - 1 /\ h.top < h.bot
      /\ h.view \in Nat /\ h.view <= Len(h.scrollback)
  BY <1>4, <1>6
<1>8. Shape(h)
  BY <1>4, <1>5, <1>6, <1>7 DEF Shape, SizeOK, Drawings
<1>9. Whole(g) => Whole(h)
  BY <1>4, <1>6 DEF Whole, WholeScreenOf, Rows
<1> QED
  BY <1>4, <1>5, <1>8, <1>9 DEF h, SameSheet

\* The main screen comes back with the cursor of its slot.
LEMMA ExitAltIs ==
  ASSUME NEW g, Shape(g), g.altActive
  PROVE  LET h == ExitAlt(g)
         IN  /\ SameSheet(g, h) /\ ~h.wrap /\ ~h.altActive /\ h.savedMain = g.savedMain
             /\ g.savedMain.valid => h.x = Smaller(g.savedMain.x, g.cols - 1)
                  /\ h.y = Smaller(g.savedMain.y, g.rows - 1)
<1> DEFINE h == ExitAlt(g)  w == WholeRegion(g)  l == [w EXCEPT !.altActive = FALSE]
           s == g.savedMain
<1>1. h = IF s.valid THEN [l EXCEPT !.x = Smaller(s.x, g.cols - 1), !.y = Smaller(s.y, g.rows - 1)]
          ELSE l
  BY DEF ExitAlt
<1>2. w = [g EXCEPT !.top = 0, !.bot = g.rows - 1, !.wrap = FALSE]
  BY DEF WholeRegion
<1> HIDE DEF h, w
<1>3. /\ IsGrid(w) /\ w.top = 0 /\ w.bot = g.rows - 1 /\ w.wrap = FALSE /\ w.cols = g.cols
      /\ w.rows = g.rows
      /\ w.main = g.main /\ w.alt = g.alt /\ w.scrollback = g.scrollback /\ w.total = g.total
      /\ w.x = g.x /\ w.y = g.y /\ w.view = g.view
      /\ w.lastX = g.lastX /\ w.lastY = g.lastY /\ w.savedAlt = g.savedAlt
      /\ w.savedMain = g.savedMain
  BY <1>2 DEF Shape, IsGrid, Fields
<1>4. /\ IsGrid(l) /\ l.top = 0 /\ l.bot = g.rows - 1 /\ l.wrap = FALSE /\ l.cols = g.cols
      /\ l.rows = g.rows
      /\ l.main = g.main /\ l.alt = g.alt /\ l.scrollback = g.scrollback /\ l.total = g.total
      /\ l.x = g.x /\ l.y = g.y /\ l.view = g.view
      /\ l.lastX = g.lastX /\ l.lastY = g.lastY /\ l.savedAlt = g.savedAlt
      /\ l.savedMain = g.savedMain /\ l.altActive = FALSE
  BY <1>3 DEF IsGrid, Fields
<1> HIDE DEF l
<1>5. /\ IsGrid(h) /\ h.top = 0 /\ h.bot = g.rows - 1 /\ h.wrap = FALSE /\ h.cols = g.cols
      /\ h.rows = g.rows
      /\ h.main = g.main /\ h.alt = g.alt /\ h.scrollback = g.scrollback /\ h.total = g.total
      /\ h.view = g.view
      /\ h.x = (IF s.valid THEN Smaller(s.x, g.cols - 1) ELSE g.x)
           /\ h.y = (IF s.valid THEN Smaller(s.y, g.rows - 1) ELSE g.y)
      /\ h.lastX = g.lastX /\ h.lastY = g.lastY /\ h.savedAlt = g.savedAlt
      /\ h.savedMain = g.savedMain /\ h.altActive = FALSE
  BY <1>1, <1>4 DEF IsGrid, Fields
<1>6. /\ g.rows \in Nat /\ g.rows >= 2 /\ g.cols \in Nat /\ g.cols >= 2 /\ s.x \in Nat
      /\ s.y \in Nat
      /\ g.x \in 0 .. g.cols - 1 /\ g.y \in 0 .. g.rows - 1
  BY DEF Shape, SizeOK, Cursors
<1>7. h.x \in 0 .. h.cols - 1 /\ h.y \in 0 .. h.rows - 1 /\ h.top \in 0 .. h.rows - 1
          /\ h.bot \in 0 .. h.rows - 1 /\ h.top < h.bot
  BY <1>5, <1>6 DEF Smaller
<1>8. Shape(h)
  BY <1>5, <1>7 DEF Shape, SizeOK
<1>9. Whole(g) => Whole(h)
  BY <1>5 DEF Whole, Rows
<1> QED
  BY <1>5, <1>8, <1>9 DEF h, SameSheet

\* A reset blanks both screens and restarts the counter, the scrollback stays.
LEMMA ResetAllIs ==
  ASSUME NEW g, Shape(g)
  PROVE  LET h == ResetAll(g)
         IN  /\ Shape(h) /\ Whole(h) /\ ~h.wrap /\ ~h.altActive /\ h.scrollback = g.scrollback
             /\ h.total = 0 /\ h.cols = g.cols /\ h.rows = g.rows
<1> DEFINE h == ResetAll(g)  w == WholeRegion(g)  blank == BlankScreen(g.cols, g.rows)
<1>1. h = [w EXCEPT !.altActive = FALSE, !.main = blank, !.x = 0, !.y = 0, !.alt = blank,
          !.view = 0, !.total = 0]
  BY DEF ResetAll
<1>2. w = [g EXCEPT !.top = 0, !.bot = g.rows - 1, !.wrap = FALSE]
  BY DEF WholeRegion
<1> HIDE DEF h, w
<1>3. /\ IsGrid(w) /\ w.top = 0 /\ w.bot = g.rows - 1 /\ w.wrap = FALSE /\ w.cols = g.cols
      /\ w.rows = g.rows
      /\ w.scrollback = g.scrollback
      /\ w.lastX = g.lastX /\ w.lastY = g.lastY /\ w.savedAlt = g.savedAlt
      /\ w.savedMain = g.savedMain
  BY <1>2 DEF Shape, IsGrid, Fields
<1>6. /\ blank \in Drawings(g) /\ WholeScreenOf(g, blank)
      /\ g.rows \in Nat /\ g.rows >= 2 /\ g.cols \in Nat /\ g.cols >= 2 /\ Len(g.scrollback) \in Nat
  <2>1. g.rows \in Nat /\ g.rows >= 2 /\ g.cols \in Nat /\ g.cols >= 2 /\ Len(g.scrollback) \in Nat
    BY DEF Shape, SizeOK
  <2> QED
    BY <2>1, BlankScreenIs
<1> HIDE DEF blank
<1>4. /\ IsGrid(h) /\ h.top = 0 /\ h.bot = g.rows - 1 /\ h.wrap = FALSE /\ h.cols = g.cols
      /\ h.rows = g.rows
      /\ h.main = blank /\ h.alt = blank /\ h.scrollback = g.scrollback /\ h.total = 0 /\ h.x = 0
      /\ h.y = 0 /\ h.view = 0
      /\ h.lastX = g.lastX /\ h.lastY = g.lastY /\ h.savedAlt = g.savedAlt
      /\ h.savedMain = g.savedMain /\ h.altActive = FALSE
  BY <1>1, <1>3 DEF IsGrid, Fields
<1>7. h.x \in 0 .. h.cols - 1 /\ h.y \in 0 .. h.rows - 1 /\ h.top \in 0 .. h.rows - 1
          /\ h.bot \in 0 .. h.rows - 1 /\ h.top < h.bot
      /\ h.view \in Nat /\ h.total \in Nat /\ h.view <= Len(h.scrollback)
  BY <1>4, <1>6
<1>8. Shape(h)
  BY <1>4, <1>6, <1>7 DEF Shape, SizeOK, Drawings
<1>9. Whole(h)
  BY <1>4, <1>6 DEF Whole, WholeScreenOf, Rows
<1> QED
  BY <1>4, <1>8, <1>9 DEF h

\* A new size keeps lines, counter and slots; only a narrower one can cut a pair.
LEMMA ResizeIs ==
  ASSUME NEW g, Shape(g), Pending(g), NEW cols \in Nat \ {0, 1}, NEW rows \in Nat \ {0, 1},
      cols \in Widths, rows \in Heights
  PROVE  LET h == Resize(g, cols, rows)
         IN  /\ Shape(h) /\ Pending(h) /\ (Whole(g) => Whole(h) \/ h.cols < g.cols)
             /\ h.scrollback = g.scrollback /\ h.total = g.total /\ h.altActive = g.altActive
             /\ h.savedMain = g.savedMain
             /\ h = g \/ (h.view = 0 /\ h.rows = rows)
<1> DEFINE h == Resize(g, cols, rows)
           Kept(s) == [y \in 0 .. rows - 1 |-> [x \in 0 .. cols - 1 |-> IF y < g.rows /\ x < g.cols
               THEN s[y][x] ELSE Blank]]
<1>1. CASE cols = g.cols /\ rows = g.rows
  <2>1. h = g
    BY <1>1 DEF Resize
  <2> QED
    BY <2>1
<1>2. CASE ~(cols = g.cols /\ rows = g.rows)
  <2>1. h = [g EXCEPT !.cols = cols, !.rows = rows, !.main = Kept(g.main), !.alt = Kept(g.alt),
                      !.x = Smaller(g.x, cols - 1), !.y = Smaller(g.y, rows - 1),
                      !.top = 0, !.bot = rows - 1, !.wrap = FALSE, !.view = 0]
    BY <1>2 DEF Resize
  <2> HIDE DEF h
  <2>2. /\ g.rows \in Nat /\ g.rows >= 2 /\ g.cols \in Nat /\ g.cols >= 2
        /\ Len(g.scrollback) \in Nat
        /\ g.x \in 0 .. g.cols - 1 /\ g.y \in 0 .. g.rows - 1 /\ g.main \in Drawings(g)
        /\ g.alt \in Drawings(g)
    <3>1. g.scrollback \in Seq(Lines(Widths))
      BY DEF Shape
    <3>2. Len(g.scrollback) \in Nat
      BY <3>1
    <3> QED
      BY <3>2 DEF Shape, SizeOK, Drawings
  <2>3. ASSUME NEW s \in Drawings(g)
        PROVE  /\ Kept(s) \in [0 .. rows - 1 -> Cells(cols)]
               /\ cols >= g.cols /\ WholeScreenOf(g, s)
                    => \A y \in 0 .. rows - 1 : WholeRow(Kept(s)[y])
    <3>1. \A y \in 0 .. g.rows - 1 : s[y] \in Cells(g.cols)
      BY DEF Drawings
    <3>2. ASSUME NEW y \in 0 .. rows - 1 PROVE Kept(s)[y] \in Cells(cols)
      <4>1. CASE y < g.rows
        <5>1. s[y] \in Cells(g.cols)
          BY <2>2, <3>1, <4>1
        <5>2. \A x \in 0 .. cols - 1 : x < g.cols => s[y][x] \in Kinds
          <6>1. \A x \in 0 .. g.cols - 1 : s[y][x] \in Kinds
            BY <5>1 DEF Cells
          <6>2. \A x \in 0 .. cols - 1 : x < g.cols => x \in 0 .. g.cols - 1
            BY <2>2
          <6> QED
            BY <6>1, <6>2
        <5>3. Kept(s)[y] = [x \in 0 .. cols - 1 |-> IF x < g.cols THEN s[y][x] ELSE Blank]
          BY <4>1
        <5>4. Blank \in Kinds
          BY DEF Kinds
        <5> HIDE DEF Kept
        <5> QED
          BY <5>2, <5>3, <5>4 DEF Cells
      <4>2. CASE ~(y < g.rows)
        BY <2>2, <4>2 DEF Cells, Kinds
      <4> QED
        BY <4>1, <4>2
    <3>3. ASSUME cols >= g.cols, WholeScreenOf(g, s), NEW y \in 0 .. rows - 1
          PROVE WholeRow(Kept(s)[y])
      <4>1. CASE y < g.rows
        <5>1. s[y] \in Cells(g.cols) /\ WholeRow(s[y])
          BY <2>2, <3>1, <3>3, <4>1 DEF WholeScreenOf
        <5>2. Kept(s)[y] = [x \in 0 .. cols - 1 |-> IF x < g.cols THEN s[y][x] ELSE Blank]
          BY <4>1
        <5>3. g.cols \in Nat /\ cols \in Nat /\ cols >= g.cols
          BY <2>2, <3>3
        <5> HIDE DEF Kept
        <5> QED
          BY <5>1, <5>2, <5>3, WidenKeeps
      <4>2. CASE ~(y < g.rows)
        <5>1. Kept(s)[y] = BlankRow(cols)
          BY <4>2 DEF BlankRow
        <5> QED
          BY <5>1, BlankRowWhole
      <4> QED
        BY <4>1, <4>2
    <3> QED
      BY <3>2, <3>3
  <2> HIDE DEF Kept
  <2>4. /\ IsGrid(h) /\ h.top = 0 /\ h.bot = rows - 1 /\ h.wrap = FALSE /\ h.cols = cols
        /\ h.rows = rows
        /\ h.main = Kept(g.main) /\ h.alt = Kept(g.alt) /\ h.scrollback = g.scrollback
        /\ h.total = g.total /\ h.view = 0
        /\ h.x = Smaller(g.x, cols - 1) /\ h.y = Smaller(g.y, rows - 1)
        /\ h.lastX = g.lastX /\ h.lastY = g.lastY /\ h.savedAlt = g.savedAlt
        /\ h.savedMain = g.savedMain /\ h.altActive = g.altActive
    BY <2>1 DEF Shape, IsGrid, Fields
  <2>5. h.x \in 0 .. h.cols - 1 /\ h.y \in 0 .. h.rows - 1 /\ h.top \in 0 .. h.rows - 1
            /\ h.bot \in 0 .. h.rows - 1 /\ h.top < h.bot
        /\ h.view \in Nat /\ h.view <= Len(h.scrollback) /\ SizeOK(h)
    BY <2>2, <2>4 DEF Smaller, SizeOK
  <2>6. h.main \in [0 .. h.rows - 1 -> Cells(h.cols)]
            /\ h.alt \in [0 .. h.rows - 1 -> Cells(h.cols)]
    BY <2>2, <2>3, <2>4
  <2>7. Shape(h)
    BY <2>4, <2>5, <2>6 DEF Shape
  <2>8. ASSUME Whole(g), ~(h.cols < g.cols) PROVE Whole(h)
    <3>1. cols >= g.cols /\ WholeScreenOf(g, g.main) /\ WholeScreenOf(g, g.alt)
      BY <2>2, <2>4, <2>8, ScreenIs
    <3> QED
      BY <2>2, <2>3, <2>4, <3>1 DEF Whole, Rows
  <2> QED
    BY <2>4, <2>7, <2>8 DEF h, Pending
<1> QED
  BY <1>1, <1>2

\* SetView moves the view within the scrollback and nothing else.
LEMMA SetViewIs ==
  ASSUME NEW g, Shape(g), NEW back \in Int
  PROVE  LET h == SetView(g, back)
         IN  /\ SameSheet(g, h) /\ SameCells(g, h) /\ h.x = g.x /\ h.y = g.y /\ h.wrap = g.wrap
             /\ h.altActive = g.altActive /\ h.savedMain = g.savedMain
             /\ h.view = Clamp(back, 0, Len(g.scrollback))
<1> DEFINE h == SetView(g, back)
<1>1. h = [g EXCEPT !.view = Clamp(back, 0, Len(g.scrollback))]
  BY DEF SetView
<1> HIDE DEF h
<1>2. /\ IsGrid(h) /\ SameCells(g, h) /\ SameLines(g, h) /\ h.wrap = g.wrap /\ h.x = g.x
      /\ h.y = g.y
      /\ h.top = g.top /\ h.bot = g.bot /\ h.view = Clamp(back, 0, Len(g.scrollback))
      /\ h.lastX = g.lastX /\ h.lastY = g.lastY
      /\ h.savedMain = g.savedMain /\ h.savedAlt = g.savedAlt
  BY <1>1 DEF Shape, IsGrid, Fields, SameCells, SameLines
<1>3. Len(g.scrollback) \in Nat
  BY DEF Shape
<1>4. h.view \in Nat /\ h.view <= Len(g.scrollback)
  BY <1>2, <1>3 DEF Clamp
<1>5. Shape(h)
  BY <1>2, <1>4 DEF Shape, SameCells, SameLines, SizeOK
<1> QED
  BY <1>2, <1>5, CursorOnly DEF h, SameSheet, Edits, SameLines

\* The scrollback cleared, everything else stays.
LEMMA ClearIsEmpty ==
  ASSUME NEW g, Shape(g)
  PROVE  LET h == SetScrollbackMax(g, 0)
         IN  /\ Shape(h) /\ SameCells(g, h) /\ h.x = g.x /\ h.y = g.y /\ h.wrap = g.wrap
             /\ h.altActive = g.altActive
             /\ h.savedMain = g.savedMain /\ h.cols = g.cols /\ h.rows = g.rows
             /\ h.total = g.total /\ h.scrollback = <<>> /\ h.view = 0
             /\ Whole(g) => Whole(h)
<1> DEFINE h == SetScrollbackMax(g, 0)
<1>1. h = [g EXCEPT !.scrollback = Newest(g.scrollback, 0),
          !.view = Smaller(g.view, Smaller(Len(g.scrollback), 0))]
  BY DEF SetScrollbackMax
<1> HIDE DEF h
<1>2. /\ IsGrid(h) /\ SameCells(g, h) /\ h.wrap = g.wrap /\ h.x = g.x /\ h.y = g.y
      /\ h.altActive = g.altActive
      /\ h.cols = g.cols /\ h.rows = g.rows /\ h.total = g.total
      /\ h.scrollback = Newest(g.scrollback, 0)
      /\ h.top = g.top /\ h.bot = g.bot /\ h.view = Smaller(g.view, Smaller(Len(g.scrollback), 0))
      /\ h.lastX = g.lastX /\ h.lastY = g.lastY
      /\ h.savedMain = g.savedMain /\ h.savedAlt = g.savedAlt
  BY <1>1 DEF Shape, IsGrid, Fields, SameCells
<1>3. Len(g.scrollback) \in Nat /\ g.scrollback \in Seq(Lines(Widths)) /\ g.view \in Nat
  BY DEF Shape
<1>4. h.view = 0
  BY <1>2, <1>3 DEF Smaller
<1>5. h.scrollback \in Seq(Lines(Widths)) /\ Len(h.scrollback) = 0
  BY <1>2, <1>3, NewestIs
<1>6. h.scrollback = <<>>
  BY <1>5
<1>7. Shape(h)
  <2>1. Len(h.scrollback) <= ScrollbackMax /\ h.view \in Nat /\ h.view <= Len(h.scrollback)
    BY <1>4, <1>5, GridAssumption
  <2> QED
    BY <1>2, <1>5, <2>1 DEF Shape, SameCells, SizeOK
<1>8. Whole(g) => Whole(h)
  BY <1>2 DEF Whole, Rows, SameCells
<1> QED
  BY <1>2, <1>4, <1>6, <1>7, <1>8 DEF h

\* While a full-screen program has the terminal, the cursor it took is in the slot of
\* the main screen.
Away == grid.altActive => grid.savedMain = [x |-> left[1], y |-> left[2], valid |-> TRUE]
GInv == Shape(grid) /\ Pending(grid) /\ Away

\* What a step may not do: change the line of an id that is kept, cut a pair, lose the cursor.
Keeps(g, h) ==
  h.total >= g.total =>
    \A id \in FirstKept(h) .. h.total - 1 : id >= FirstKept(g) => LineOf(h, id) = LineOf(g, id)
PairsStay == Whole(grid) => Whole(grid') \/ CutsByFlag \/ grid'.cols < grid.cols
ComesBack ==
  grid.altActive /\ ~grid'.altActive /\ grid' # ResetAll(grid) =>
       /\ grid'.x = Smaller(left[1], grid.cols - 1)
       /\ grid'.y = Smaller(left[2], grid.rows - 1)

GridStep == GInv' /\ PairsStay /\ Keeps(grid, grid') /\ ComesBack
    /\ grid'.total \in {0, grid.total, grid.total + 1}

\* The four things that happen to the lines: nothing, one more, all gone, counted anew.
Lined(g, h) ==
  \/ h.scrollback = g.scrollback /\ h.total \in {g.total, 0}
  \/ Pushed(g, h)
  \/ h.scrollback = <<>> /\ h.total = g.total

\* Lines are counted one at a time.
LEMMA LinesCounted ==
  ASSUME NEW g, NEW h, Lined(g, h) PROVE h.total \in {0, g.total, g.total + 1}
  BY DEF Lined, Pushed

\* What Shape says of the numbers of a grid.
LEMMA Numbers ==
  ASSUME NEW g, Shape(g)
  PROVE  /\ g.total \in Nat /\ g.scrollback \in Seq(Lines(Widths)) /\ Len(g.scrollback) \in Nat
         /\ Len(g.scrollback) <= ScrollbackMax /\ g.view \in Nat /\ g.view <= Len(g.scrollback)
         /\ g.x \in 0 .. g.cols - 1 /\ g.y \in 0 .. g.rows - 1
         /\ g.cols \in Nat /\ g.cols >= 2 /\ g.cols \in Widths /\ g.rows \in Nat /\ g.rows >= 2
         /\ g.rows \in Heights
<1>1. /\ g.total \in Nat /\ g.scrollback \in Seq(Lines(Widths))
      /\ Len(g.scrollback) <= ScrollbackMax
      /\ g.view \in Nat /\ g.view <= Len(g.scrollback)
      /\ g.x \in 0 .. g.cols - 1 /\ g.y \in 0 .. g.rows - 1
      /\ g.cols \in Nat /\ g.cols >= 2 /\ g.cols \in Widths /\ g.rows \in Nat /\ g.rows >= 2
      /\ g.rows \in Heights
  BY DEF Shape, SizeOK
<1>2. Len(g.scrollback) \in Nat
  BY <1>1
<1> QED
  BY <1>1, <1>2

\* The first row is a line the scrollback can take.
LEMMA TopLine ==
  ASSUME NEW g, Shape(g) PROVE g.main[0] \in Lines(Widths)
<1>1. g.main \in [0 .. g.rows - 1 -> Cells(g.cols)] /\ g.cols \in Widths /\ g.rows \in Nat
          /\ g.rows >= 2
  BY DEF Shape, SizeOK
<1>2. g.main[0] \in Cells(g.cols)
  BY <1>1
<1> QED
  BY <1>1, <1>2 DEF Lines, Cells

\* Lines that stay or are pushed keep their ids.
LEMMA LinesKept ==
  ASSUME NEW g, NEW h, Shape(g), Shape(h), Lined(g, h) PROVE Keeps(g, h)
<1>1. /\ g.total \in Nat /\ h.total \in Nat /\ Len(g.scrollback) \in Nat
      /\ Len(h.scrollback) \in Nat
      /\ g.scrollback \in Seq(Lines(Widths)) /\ Len(g.scrollback) <= ScrollbackMax
      /\ ScrollbackMax \in Nat
  BY Numbers, GridAssumption
<1>2. CASE h.scrollback = g.scrollback /\ h.total \in {g.total, 0}
  <2> SUFFICES ASSUME h.total >= g.total, NEW id \in FirstKept(h) .. h.total - 1
               PROVE  LineOf(h, id) = LineOf(g, id)
    BY DEF Keeps
  <2>1. h.total = g.total
    BY <1>1, <1>2
  <2>2. FirstKept(h) = FirstKept(g) /\ id < g.total /\ id < h.total
    BY <1>1, <1>2, <2>1 DEF FirstKept
  <2> QED
    BY <1>2, <2>2 DEF LineOf
<1>3. CASE h.scrollback = <<>> /\ h.total = g.total
  BY <1>1, <1>3 DEF Keeps, FirstKept
<1>4. CASE Pushed(g, h)
  <2> DEFINE s == g.scrollback  a == Append(s, g.main[0])  t == h.scrollback
  <2>1. h.total = g.total + 1 /\ t = Newest(a, ScrollbackMax)
    BY <1>4 DEF Pushed
  <2>2. g.main[0] \in Lines(Widths)
    BY TopLine
  <2>3. a \in Seq(Lines(Widths)) /\ Len(a) = Len(s) + 1 /\ a[Len(s) + 1] = g.main[0]
            /\ \A k \in 1 .. Len(s) : a[k] = s[k]
    BY <1>1, <2>2
  <2> HIDE DEF a, t
  <2>4. /\ Len(t) = (IF Len(a) > ScrollbackMax THEN ScrollbackMax ELSE Len(a))
        /\ \A k \in 1 .. Len(t) : t[k] = a[k + Len(a) - Len(t)]
    BY <1>1, <2>1, <2>3, NewestIs
  <2>5. Len(t) = Len(h.scrollback)
    BY DEF t
  <2>6. SUFFICES ASSUME NEW id \in FirstKept(h) .. h.total - 1, id >= FirstKept(g)
                 PROVE  LineOf(h, id) = LineOf(g, id)
    BY DEF Keeps
  <2>7. id \in g.total + 1 - Len(t) .. g.total /\ id >= g.total - Len(s) /\ id \in Int
    <3>1. FirstKept(h) = g.total + 1 - Len(t) /\ h.total - 1 = g.total
      <4>1. FirstKept(h) = h.total - Len(t)
        BY <2>5 DEF FirstKept
      <4>2. Len(t) \in Nat /\ g.total \in Nat
        BY <1>1, <2>5
      <4> QED
        BY ONLY <2>1, <4>1, <4>2
    <3>2. FirstKept(g) = g.total - Len(s)
      BY DEF FirstKept
    <3> QED
      BY <2>6, <3>1, <3>2
  <2> DEFINE k == id - (g.total + 1 - Len(t)) + 1
  <2>8. k \in 1 .. Len(t) /\ LineOf(h, id) = t[k]
    <3>1. Len(t) \in Nat
      BY <1>1, <2>5
    <3>2. k \in 1 .. Len(t) /\ id < h.total
      <4>1. id \in Int /\ id >= g.total + 1 - Len(t) /\ id <= g.total /\ g.total \in Nat
        BY ONLY <2>7, <1>1, <3>1
      <4>2. h.total = g.total + 1
        BY <1>1, <2>1
      <4> HIDE DEF t
      <4> QED
        BY ONLY <4>1, <4>2, <3>1 DEF k
    <3>3. id - FirstKept(h) + 1 = k
      BY <1>1, <2>1, <2>5, <2>7 DEF FirstKept
    <3> HIDE DEF k
    <3> QED
      BY <3>2, <3>3 DEF LineOf, t
  <2>9. t[k] = a[id - g.total + Len(s) + 1]
    <3>0. Len(t) \in Nat /\ Len(a) = Len(s) + 1 /\ Len(s) \in Nat /\ id \in Int /\ g.total \in Nat
      BY <1>1, <2>3, <2>5, <2>7
    <3>1. \A n, m, T \in Int : \A c \in Int : c = m + 1
              => (id - (T + 1 - n) + 1) + (c - n) = id - T + m + 1
      BY <3>0
    <3>2. (id - (g.total + 1 - Len(t)) + 1) + (Len(a) - Len(t)) = id - g.total + Len(s) + 1
      <4>1. PICK n \in Int, m \in Int, c \in Int, T \in Int, i \in Int : n = Len(t) /\ m = Len(s)
                /\ c = Len(a) /\ T = g.total /\ i = id
        BY <3>0
      <4>2. c = m + 1
        BY <3>0, <4>1
      <4>3. (i - (T + 1 - n) + 1) + (c - n) = i - T + m + 1
        BY <4>2
      <4> QED
        BY <4>1, <4>3
    <3>3. k + Len(a) - Len(t) = id - g.total + Len(s) + 1
      BY <3>2
    <3> QED
      BY <2>4, <2>8, <3>3
  <2>10. CASE id = g.total
    BY <1>1, <2>3, <2>8, <2>9, <2>10 DEF LineOf
  <2>11. CASE id < g.total
    <3>1. id - g.total + Len(s) + 1 \in 1 .. Len(s)
      BY <1>1, <2>7, <2>11
    <3>2. LineOf(g, id) = s[id - g.total + Len(s) + 1]
      <4>1. id - FirstKept(g) + 1 = id - g.total + Len(s) + 1
        BY <1>1, <2>7 DEF FirstKept
      <4> QED
        BY <2>11, <4>1 DEF LineOf
    <3> QED
      BY <2>3, <2>8, <2>9, <3>1, <3>2
  <2> QED
    BY <1>1, <2>7, <2>10, <2>11
<1> QED
  BY <1>2, <1>3, <1>4 DEF Lined

----------------------------------------------------------------------------
(* What a step may do to the grid, and what it leaves.                     *)

\* A step that stays on its screen does what the three properties ask.
LEMMA SameScreenStep ==
  ASSUME GInv, NEW h, Becomes(h), Shape(h), Pending(h), Lined(grid, h),
         h.altActive = grid.altActive, grid.altActive => h.savedMain = grid.savedMain,
         Whole(grid) => Whole(h) \/ CutsByFlag \/ h.cols < grid.cols
  PROVE  GridStep
<1>1. grid' = h /\ left' = IF ~h.altActive THEN Nowhere ELSE IF grid.altActive THEN left
          ELSE <<grid.x, grid.y>>
  BY DEF Becomes
<1>2. GInv'
  BY <1>1 DEF GInv, Shape, Pending, Away, IsGrid, SizeOK
<1>3. Keeps(grid, grid')
  BY <1>1, LinesKept DEF GInv
<1> QED
  BY <1>1, <1>2, <1>3, LinesCounted DEF GridStep, PairsStay, ComesBack

\* A step that prints one character or feeds one line.
LEMMA PrintStep ==
  ASSUME GInv, NEW h, Becomes(h), Prints(grid, h), Pending(h) PROVE GridStep
<1>1. Lined(grid, h)
  BY DEF Lined, Prints
<1> QED
  BY <1>1, SameScreenStep DEF Prints

\* A step that edits.
LEMMA EditStep ==
  ASSUME GInv, NEW h, Becomes(h), Edits(grid, h), Pending(h) PROVE GridStep
  BY PrintStep, EditPrints

\* A step that moves only the view.
LEMMA ViewStep ==
  ASSUME GInv, NEW h, grid' = h, UNCHANGED left, SameSheet(grid, h), h.altActive = grid.altActive,
         h.savedMain = grid.savedMain, h.x = grid.x, h.wrap = grid.wrap
  PROVE  GridStep
<1>1. GInv'
  BY DEF GInv, Shape, Pending, Away, SameSheet
<1>2. Lined(grid, h)
  BY DEF Lined, SameSheet
<1>3. Keeps(grid, grid')
  BY <1>2, LinesKept DEF GInv, SameSheet
<1> QED
  BY <1>1, <1>3 DEF GridStep, PairsStay, ComesBack, SameSheet

\* A step that leaves the grid.
LEMMA StillStep ==
  ASSUME GInv, UNCHANGED <<grid, left>> PROVE GridStep
<1>1. GInv'
  BY DEF GInv, Shape, Pending, Away
<1>2. Keeps(grid, grid)
  BY LinesKept DEF GInv, Lined
<1> QED
  BY <1>1, <1>2 DEF GridStep, PairsStay, ComesBack
----------------------------------------------------------------------------
(* The sequences, one by one.                                              *)

LEMMA PrintCharStep == ASSUME GInv, PrintChar PROVE GridStep
<1>1. PICK k \in Printed, insert \in BOOLEAN,
          autowrap \in BOOLEAN : Becomes(PutChar(grid, k, insert, autowrap))
  BY DEF PrintChar, Edit
<1> DEFINE h == PutChar(grid, k, insert, autowrap)
<1>2. /\ Pending(h)
      /\ \/ Prints(grid, h)
         \/ /\ JoinsFlag(grid, Indicator) /\ h = JoinFlag(grid) /\ IsPair(Row(grid), grid.x)
            /\ Shape(h) /\ SameLines(grid, h)
  BY PutCharIs DEF GInv
<1>3. Becomes(h)
  BY <1>1
<1> HIDE DEF h
<1>4. CASE Prints(grid, h)
  BY <1>2, <1>3, <1>4, PrintStep
<1>5. CASE /\ JoinsFlag(grid, Indicator) /\ h = JoinFlag(grid) /\ IsPair(Row(grid), grid.x)
           /\ Shape(h) /\ SameLines(grid, h)
  <2>1. CutsByFlag
    BY <1>3, <1>5 DEF Becomes, CutsByFlag
  <2>2. Lined(grid, h)
    BY <1>5 DEF Lined, SameLines
  <2> QED
    BY <1>2, <1>3, <1>5, <2>1, <2>2, SameScreenStep DEF SameLines
<1> QED
  BY <1>2, <1>4, <1>5

LEMMA MoveToStep == ASSUME GInv, MoveTo PROVE GridStep
<1>1. PICK x \in Columns(grid), y \in Rows(grid) : Becomes(SetCursor(grid, x, y))
  BY DEF MoveTo, Edit
<1>2. x \in Int /\ y \in Int
  BY DEF Columns, Rows
<1> QED
  BY <1>1, <1>2, SetCursorIs, EditStep DEF GInv, Pending

LEMMA EraseStep == ASSUME GInv, Erase PROVE GridStep
<1>1. PICK mode \in 0 .. 3 : Becomes(EraseDisplay(grid, mode))
          \/ (mode < 3 /\ Becomes(EraseLine(grid, mode)))
  BY DEF Erase, Edit
<1>2. CASE Becomes(EraseLine(grid, mode))
  BY <1>2, EraseLineIs, EditStep DEF GInv, Pending
<1>3. CASE Becomes(EraseDisplay(grid, mode)) /\ mode # 3
  BY <1>3, EraseDisplayIs, EditStep DEF GInv, Pending
<1>4. CASE Becomes(EraseDisplay(grid, mode)) /\ mode = 3
  <2> DEFINE h == EraseDisplay(grid, 3)
  <2>1. /\ Shape(h) /\ (Whole(grid) => Whole(h)) /\ ~h.wrap /\ h.scrollback = <<>>
             /\ h.total = grid.total
        /\ h.altActive = grid.altActive /\ (grid.altActive => h.savedMain = grid.savedMain)
    BY EraseAllIs DEF GInv
  <2>2. Becomes(h)
    BY <1>4
  <2> HIDE DEF h
  <2> QED
    BY <2>1, <2>2, SameScreenStep DEF Lined, Pending
<1> QED
  BY <1>1, <1>2, <1>3, <1>4

LEMMA ShiftCharsStep == ASSUME GInv, ShiftChars PROVE GridStep
<1>1. PICK n \in Counts : \/ Becomes(InsertChars(grid, n)) \/ Becomes(DeleteChars(grid, n))
                               \/ Becomes(EraseChars(grid, n))
  BY DEF ShiftChars, Edit
<1>2. n \in Int /\ Shape(grid) /\ Pending(grid)
  BY TerminalAssumption DEF GInv
<1> QED
  BY <1>1, <1>2, ShiftCharsIs, PendingStays, EditStep

LEMMA ShiftLinesStep == ASSUME GInv, ShiftLines PROVE GridStep
<1>1. PICK n \in Counts : \/ Becomes(InsertLines(grid, n)) \/ Becomes(DeleteLines(grid, n))
                          \/ Becomes(ScrollUp(grid, n)) \/ Becomes(ScrollDown(grid, n))
  BY DEF ShiftLines, Edit
<1>2. n \in Int /\ Shape(grid) /\ Pending(grid)
  BY TerminalAssumption DEF GInv
<1> QED
  BY <1>1, <1>2, ShiftLinesIs, EditStep

LEMMA SetMarginsStep == ASSUME GInv, SetMargins PROVE GridStep
<1>1. PICK top \in Rows(grid), bot \in Rows(grid) : Becomes(SetScrollRegion(grid, top, bot))
  BY DEF SetMargins, Edit
<1> QED
  BY <1>1, SetScrollRegionIs, EditStep DEF GInv

LEMMA IndexUpStep == ASSUME GInv, IndexUp PROVE GridStep
  BY ReverseIndexIs, EditStep DEF GInv, IndexUp, Edit, Pending

LEMMA SaveOrRestoreStep == ASSUME GInv, SaveOrRestore PROVE GridStep
  BY SaveCursorIs, RestoreCursorIs, EditStep DEF GInv, SaveOrRestore, Edit

LEMMA NewLineStep == ASSUME GInv, NewLine PROVE GridStep
  BY LineFeedIs, PrintStep DEF GInv, NewLine, Pending

\* The main screen is left, its cursor in the slot.
LEMMA EnterStep ==
  ASSUME GInv, NEW h, Becomes(h), ~grid.altActive, SameSheet(grid, h), ~h.wrap, h.altActive,
      h.savedMain = Here(grid)
  PROVE  GridStep
<1>1. grid' = h /\ left' = <<grid.x, grid.y>>
  BY DEF Becomes
<1>2. GInv'
  BY <1>1 DEF GInv, SameSheet, Shape, Pending, Away, IsGrid, SizeOK, Here
<1>3. Lined(grid, h)
  BY DEF Lined, SameSheet
<1>4. Keeps(grid, grid')
  BY <1>1, <1>3, LinesKept DEF GInv, SameSheet
<1> QED
  BY <1>1, <1>2, <1>4 DEF GridStep, PairsStay, ComesBack, SameSheet

\* The main screen is back, and the cursor.
LEMMA LeaveStep ==
  ASSUME GInv, NEW h, Becomes(h), grid.altActive, SameSheet(grid, h), ~h.wrap, ~h.altActive,
         h.x = Smaller(grid.savedMain.x, grid.cols - 1),
             h.y = Smaller(grid.savedMain.y, grid.rows - 1)
  PROVE  GridStep
<1>1. grid' = h /\ left' = Nowhere
  BY DEF Becomes
<1>2. GInv'
  BY <1>1 DEF GInv, SameSheet, Shape, Pending, Away, IsGrid, SizeOK
<1>3. Lined(grid, h)
  BY DEF Lined, SameSheet
<1>4. Keeps(grid, grid')
  BY <1>1, <1>3, LinesKept DEF GInv, SameSheet
<1>5. grid.savedMain.x = left[1] /\ grid.savedMain.y = left[2]
  BY DEF GInv, Away
<1> QED
  BY <1>1, <1>2, <1>4, <1>5 DEF GridStep, PairsStay, ComesBack, SameSheet

\* An edit leaves the lines of the main screen's sheet.
LEMMA SheetOfEdit ==
  ASSUME NEW g, NEW h, Edits(g, h) PROVE SameSheet(g, h)
  BY DEF Edits, SameLines, SameSheet

\* Two such steps in a row are one.
LEMMA SheetsCompose ==
  ASSUME NEW g, NEW h, NEW k, SameSheet(g, h), SameSheet(h, k) PROVE SameSheet(g, k)
  BY DEF SameSheet

LEMMA AltScreenStep == ASSUME GInv, AltScreen PROVE GridStep
<1>0. Shape(grid) /\ Pending(grid) /\ Edits(grid, grid)
  BY DEF GInv, Edits, SameLines
<1>1. CASE Becomes(EnterAlt(grid))
  <2>1. CASE grid.altActive
    <3>1. EnterAlt(grid) = grid
      BY <2>1 DEF EnterAlt
    <3> QED
      BY <1>0, <1>1, <3>1, EditStep
  <2>2. CASE ~grid.altActive
    BY <1>0, <1>1, <2>2, EnterAltIs, EnterStep
  <2> QED
    BY <2>1, <2>2
<1>2. CASE Becomes(ExitAlt(grid))
  <2>1. CASE ~grid.altActive
    <3>1. ExitAlt(grid) = grid
      BY <2>1 DEF ExitAlt
    <3> QED
      BY <1>0, <1>2, <3>1, EditStep
  <2>2. CASE grid.altActive
    <3>1. grid.savedMain.valid
      BY <2>2 DEF GInv, Away
    <3> QED
      BY <1>0, <1>2, <2>2, <3>1, ExitAltIs, LeaveStep
  <2> QED
    BY <2>1, <2>2
<1>3. CASE Becomes(EraseDisplay(EnterAlt(SaveCursor(grid)), 2))
  <2> DEFINE s == SaveCursor(grid)  e == EnterAlt(s)  h == EraseDisplay(e, 2)
  <2>1. Edits(grid, s) /\ Shape(s) /\ s.x = grid.x /\ s.y = grid.y /\ s.altActive = grid.altActive
    BY <1>0, SaveCursorIs DEF Edits, SameLines
  <2> HIDE DEF s
  <2>2. CASE grid.altActive
    <3>1. e = s
      BY <2>1, <2>2 DEF EnterAlt
    <3>2. Edits(s, h) /\ ~h.wrap
      BY <2>1, <3>1, EraseDisplayIs
    <3> HIDE DEF e, h
    <3> QED
      BY <1>3, <2>1, <3>2, EditsCompose, EditStep DEF Pending, s, e, h
  <2>3. CASE ~grid.altActive
    <3>1. SameSheet(s, e) /\ ~e.wrap /\ e.altActive /\ e.savedMain = Here(s)
      BY <2>1, <2>3, EnterAltIs
    <3>2. Shape(e) /\ Here(s) = Here(grid)
      BY <2>1, <3>1 DEF SameSheet, Here
    <3> HIDE DEF e
    <3>3. Edits(e, h) /\ ~h.wrap
      BY <3>2, EraseDisplayIs
    <3>4. Becomes(h)
      BY <1>3 DEF e, s
    <3> HIDE DEF h
    <3>5. SameSheet(grid, h)
      BY <2>1, <3>1, <3>3, SheetOfEdit, SheetsCompose
    <3>6. h.altActive /\ h.savedMain = Here(grid)
      BY <3>1, <3>2, <3>3 DEF Edits, SameLines
    <3> QED
      BY <2>3, <3>3, <3>4, <3>5, <3>6, EnterStep
  <2> QED
    BY <2>2, <2>3
<1>4. CASE Becomes(RestoreCursor(ExitAlt(grid)))
  <2> DEFINE e == ExitAlt(grid)  h == RestoreCursor(e)
  <2>1. CASE ~grid.altActive
    <3>1. e = grid
      BY <2>1 DEF ExitAlt
    <3>2. Edits(grid, h) /\ Pending(h)
      BY <1>0, <3>1, RestoreCursorIs
    <3> QED
      BY <1>4, <3>2, EditStep
  <2>2. CASE grid.altActive
    <3>1. SameSheet(grid, e) /\ ~e.wrap /\ ~e.altActive /\ e.savedMain = grid.savedMain
      BY <1>0, <2>2, ExitAltIs
    <3>2. grid.savedMain.valid
      BY <2>2 DEF GInv, Away
    <3>3. Shape(e) /\ Pending(e) /\ e.cols = grid.cols /\ e.rows = grid.rows
      BY <3>1 DEF SameSheet, Pending
    <3>4. Becomes(h)
      BY <1>4
    <3> HIDE DEF e
    <3>5. /\ Edits(e, h) /\ Pending(h)
          /\ h.x = Clamp(grid.savedMain.x, 0, grid.cols - 1)
          /\ h.y = Clamp(grid.savedMain.y, 0, grid.rows - 1)
      BY <3>1, <3>2, <3>3, RestoreCursorIs
    <3>6. ~h.wrap
      <4>1. h = SetCursor(e, grid.savedMain.x, grid.savedMain.y)
        BY <3>1, <3>2 DEF RestoreCursor
      <4>2. grid.savedMain.x \in Int /\ grid.savedMain.y \in Int
        BY <1>0 DEF Shape, Cursors
      <4> QED
        BY <3>3, <4>1, <4>2, SetCursorIs
    <3> HIDE DEF h
    <3>7. SameSheet(grid, h) /\ ~h.altActive
      BY <3>1, <3>5, SheetOfEdit, SheetsCompose DEF Edits, SameLines
    <3>8. h.x = Smaller(grid.savedMain.x, grid.cols - 1)
              /\ h.y = Smaller(grid.savedMain.y, grid.rows - 1)
      <4>1. grid.savedMain.x \in Nat /\ grid.savedMain.y \in Nat /\ grid.cols \in Nat
                /\ grid.rows \in Nat /\ grid.cols >= 2 /\ grid.rows >= 2
        BY <1>0 DEF Shape, SizeOK, Cursors
      <4> QED
        BY <3>5, <4>1 DEF Clamp, Smaller
    <3> QED
      BY <2>2, <3>4, <3>6, <3>7, <3>8, LeaveStep
  <2> QED
    BY <2>1, <2>2
<1> QED
  BY <1>1, <1>2, <1>3, <1>4 DEF AltScreen, Edit

LEMMA ResetStep == ASSUME GInv, Reset PROVE GridStep
<1> DEFINE h == ResetAll(grid)
<1>1. Becomes(h)
  BY DEF Reset
<1>2. Shape(h) /\ Whole(h) /\ ~h.wrap /\ ~h.altActive /\ h.scrollback = grid.scrollback
          /\ h.total = 0
  BY ResetAllIs DEF GInv
<1>3. grid' = h /\ left' = Nowhere
  BY <1>1, <1>2 DEF Becomes
<1>4. grid' = ResetAll(grid)
  BY <1>3
<1> HIDE DEF h
<1>5. GInv'
  BY <1>2, <1>3 DEF GInv, Shape, Pending, Away, IsGrid, SizeOK
<1>6. Lined(grid, h)
  BY <1>2 DEF Lined
<1>7. Keeps(grid, grid')
  BY <1>2, <1>3, <1>6, LinesKept DEF GInv
<1> QED
  BY <1>2, <1>3, <1>4, <1>5, <1>7 DEF GridStep, PairsStay, ComesBack

LEMMA ResizeStep == ASSUME GInv, ResizeTo PROVE GridStep
<1>1. PICK z \in Sizes : Becomes(Resize(grid, z.cols, z.rows))
  BY DEF ResizeTo
<1>2. z.cols \in Nat \ {0, 1} /\ z.rows \in Nat \ {0, 1} /\ z.cols \in Widths /\ z.rows \in Heights
  BY TerminalAssumption DEF Widths, Heights
<1> DEFINE h == Resize(grid, z.cols, z.rows)
<1>3. /\ Shape(h) /\ Pending(h) /\ (Whole(grid) => Whole(h) \/ h.cols < grid.cols)
      /\ h.scrollback = grid.scrollback /\ h.total = grid.total /\ h.altActive = grid.altActive
      /\ h.savedMain = grid.savedMain
  BY <1>2, ResizeIs DEF GInv
<1>4. Becomes(h)
  BY <1>1
<1> HIDE DEF h
<1>5. Lined(grid, h)
  BY <1>3 DEF Lined
<1> QED
  BY <1>3, <1>4, <1>5, SameScreenStep

LEMMA ClearScrollbackStep == ASSUME GInv, ClearScrollback PROVE GridStep
<1> DEFINE h == SetScrollbackMax(grid, 0)
<1>1. /\ Shape(h) /\ h.x = grid.x /\ h.wrap = grid.wrap /\ h.altActive = grid.altActive
      /\ h.cols = grid.cols
      /\ h.savedMain = grid.savedMain /\ h.scrollback = <<>> /\ h.total = grid.total
           /\ (Whole(grid) => Whole(h))
  BY ClearIsEmpty DEF GInv
<1>2. Becomes(h)
  BY DEF ClearScrollback
<1> HIDE DEF h
<1>3. Pending(h) /\ Lined(grid, h)
  BY <1>1 DEF GInv, Pending, Lined
<1> QED
  BY <1>1, <1>2, <1>3, SameScreenStep

\* A step that sets the view.
LEMMA ViewMoves ==
  ASSUME GInv, NEW back \in Int, grid' = SetView(grid, back), UNCHANGED left PROVE GridStep
<1> DEFINE h == SetView(grid, back)
<1>1. /\ SameSheet(grid, h) /\ h.x = grid.x /\ h.wrap = grid.wrap
      /\ h.altActive = grid.altActive /\ h.savedMain = grid.savedMain
  BY SetViewIs DEF GInv
<1>2. grid' = h
  OBVIOUS
<1> HIDE DEF h
<1> QED
  BY <1>1, <1>2, ViewStep

LEMMA ScrollStep == ASSUME GInv, Scroll PROVE GridStep
<1>1. PICK d \in {-1, 1} : grid' = ScrollView(grid, d) \/ grid' = SetView(grid, 0)
  BY DEF Scroll
<1>2. UNCHANGED left
  BY DEF Scroll
<1>3. grid.view + d \in Int /\ 0 \in Int
  BY DEF GInv, Shape
<1>4. CASE grid' = grid
  BY <1>2, <1>4, StillStep
<1>5. CASE grid' = SetView(grid, grid.view + d)
  BY <1>2, <1>3, <1>5, ViewMoves
<1>6. CASE grid' = SetView(grid, 0)
  BY <1>2, <1>3, <1>6, ViewMoves
<1> QED
  BY <1>1, <1>4, <1>5, <1>6 DEF ScrollView

LEMMA RevealStep == ASSUME GInv, NEW id \in RowsNamed, Reveal(id) PROVE GridStep
<1> DEFINE back == LinesBack(grid, AbsIndex(grid, id))
<1>1. grid' = SetView(grid, back) /\ UNCHANGED left
  BY DEF Reveal
<1>2. back \in Int
  <2>1. Len(grid.scrollback) \in Nat /\ grid.rows \in Nat /\ grid.total \in Nat
    BY Numbers DEF GInv
  <2>2. Oldest(grid) \in Int /\ \A n \in Int : Unsigned(n) \in Int
    BY <2>1, GridAssumption DEF Oldest, Unsigned
  <2>3. id \in Int
    <3>1. PICK i \in 0 .. Len(grid.scrollback) + grid.rows - 1 : id
              = Unsigned(grid.total - Len(grid.scrollback) + i)
      BY DEF RowsNamed
    <3>2. grid.total - Len(grid.scrollback) + i \in Int
      BY <2>1
    <3> QED
      BY <2>2, <3>1, <3>2
  <2>4. AbsIndex(grid, id) \in Int
    BY <2>2, <2>3 DEF AbsIndex
  <2>5. Len(grid.scrollback) - AbsIndex(grid, id) + grid.rows \div 2 \in Int
    BY <2>1, <2>4
  <2> QED
    BY <2>1, <2>5 DEF LinesBack, Clamp
<1> HIDE DEF back
<1> QED
  BY <1>1, <1>2, ViewMoves

LEMMA FoldAllStep == ASSUME GInv, FoldAll PROVE GridStep
<1>1. (grid' = SetView(grid, 0) \/ grid' = grid) /\ UNCHANGED left
  BY DEF FoldAll
<1>2. 0 \in Int
  OBVIOUS
<1> QED
  BY <1>1, <1>2, ViewMoves, StillStep

\* Each step of the terminal is one of these.
LEMMA EveryStep ==
  ASSUME GInv, [Next]_vars PROVE GridStep
<1>1. CASE PrintChar \/ MoveTo \/ Erase \/ ShiftChars \/ ShiftLines \/ SetMargins \/ IndexUp
          \/ SaveOrRestore
  BY <1>1, PrintCharStep, MoveToStep, EraseStep, ShiftCharsStep, ShiftLinesStep, SetMarginsStep,
      IndexUpStep, SaveOrRestoreStep
<1>2. CASE AltScreen \/ NewLine \/ Reset \/ FoldAll \/ ResizeTo \/ ClearScrollback \/ Scroll
          \/ \E id \in RowsNamed : Reveal(id)
  BY <1>2, AltScreenStep, NewLineStep, ResetStep, FoldAllStep, ResizeStep, ClearScrollbackStep,
      ScrollStep, RevealStep
<1>3. CASE MarkPrompt \/ MarkInput \/ MarkOutput \/ MarkUndefined
          \/ \E hasCode \in BOOLEAN : MarkExit(hasCode)
  <2>1. UNCHANGED <<grid, left>>
    BY <1>3 DEF MarkPrompt, MarkInput, MarkOutput, MarkUndefined, MarkExit, StartsCommand, Mark
  <2> QED
    BY <2>1, StillStep
<1>4. CASE NoteInterruptedCommand \/ Frame \/ Fold \/ AskToNotify \/ UNCHANGED vars
  <2>1. UNCHANGED <<grid, left>>
    BY <1>4 DEF NoteInterruptedCommand, Frame, Fold, AskToNotify, vars
  <2> QED
    BY <2>1, StillStep
<1> QED
  BY <1>1, <1>2, <1>3, <1>4 DEF Next

\* What a terminal starts from has the invariant.
LEMMA InitGrid == Init => GInv
<1> SUFFICES ASSUME Init PROVE GInv
  OBVIOUS
<1>1. PICK s \in Scenarios : grid \in s.screens
  BY DEF Init
<1>2. {grid.cols, grid.rows} \subseteq Nat \ {0, 1} /\ Sound(grid, Widths) /\ ~grid.altActive
  BY <1>1, TerminalAssumption
<1>3. grid \in Screens
  BY <1>1 DEF Screens
<1>4. SizeOK(grid)
  BY <1>2, <1>3 DEF SizeOK, Widths, Heights
<1> QED
  BY <1>2, <1>4, ShapeIsSound DEF GInv, Away

\* Whatever order sequences, frames, resizes and the user's changes come in, on either screen:
\* no half of a double-width character is left (but by a flag written over one and by a narrower
\* window), a line keeps its row id for as long as the scrollback has it, and a full-screen
\* program that ends gives the cursor back where it took it.
THEOREM ScreensHold == Spec => ScreenHolds
<1>1. GInv /\ [Next]_vars => GInv'
  BY EveryStep DEF GridStep
<1>2. GInv /\ [Next]_vars => (Whole(grid) => Whole(grid') \/ CutsByFlag \/ grid'.cols < grid.cols)
  BY EveryStep DEF GridStep, PairsStay
<1>3. GInv /\ [Next]_vars =>
        (grid'.total >= grid.total =>
           \A id \in FirstKept(grid') .. grid'.total - 1 :
             id >= FirstKept(grid) => LineOf(grid', id) = LineOf(grid, id))
  BY EveryStep DEF GridStep, Keeps
<1>4. GInv /\ [Next]_vars =>
        (grid.altActive /\ ~grid'.altActive /\ grid' # ResetAll(grid) =>
           /\ grid'.x = Smaller(left[1], grid.cols - 1)
           /\ grid'.y = Smaller(left[2], grid.rows - 1))
  BY EveryStep DEF GridStep, ComesBack
<1>5. Spec => []GInv
  BY <1>1, InitGrid, PTL DEF Spec
<1>6. Spec => PairsStayWhole
  BY <1>2, <1>5, PTL DEF Spec, PairsStayWhole
<1>7. Spec => LineKeepsItsId
  BY <1>3, <1>5, PTL DEF Spec, LineKeepsItsId
<1>8. Spec => CursorComesBack
  BY <1>4, <1>5, PTL DEF Spec, CursorComesBack
<1> QED
  BY <1>6, <1>7, <1>8 DEF ScreenHolds

\* Numbering a finite set of numbers.
Rank(S, i) == Cardinality({j \in S : j <= i})
Nth(S, k) == CHOOSE i \in S : Rank(S, i) = k

\* The members of a finite set of numbers have the ranks from 1 on, each its own, in order.
LEMMA Ranks ==
  ASSUME NEW S, \A x \in S : x \in Nat, IsFiniteSet(S)
  PROVE  /\ Cardinality(S) \in Nat
         /\ \A i \in S : Rank(S, i) \in 1 .. Cardinality(S)
         /\ \A k \in 1 .. Cardinality(S) : Nth(S, k) \in S /\ Rank(S, Nth(S, k)) = k
         /\ \A i \in S : Nth(S, Rank(S, i)) = i
         /\ \A x, y \in S : x < y => Rank(S, x) < Rank(S, y)
<1> DEFINE n == Cardinality(S)
           Upto(x) == {y \in S : y <= x}
           rank == [x \in S |-> Rank(S, x)]
<1>1. n \in Nat
  BY FS_CardinalityType
<1>2. \A x \in S : IsFiniteSet(Upto(x)) /\ Rank(S, x) \in Nat /\ Rank(S, x) <= n
  <2> SUFFICES ASSUME NEW x \in S
               PROVE  IsFiniteSet(Upto(x)) /\ Rank(S, x) \in Nat /\ Rank(S, x) <= n
    OBVIOUS
  <2>1. Upto(x) \in SUBSET S /\ Rank(S, x) = Cardinality(Upto(x))
    BY DEF Rank
  <2> HIDE DEF Upto
  <2> QED
    BY <2>1, FS_Subset, FS_CardinalityType
<1>3. \A x \in S : Rank(S, x) # 0
  <2> SUFFICES ASSUME NEW x \in S PROVE Rank(S, x) # 0
    OBVIOUS
  <2>1. x \in Upto(x) /\ Rank(S, x) = Cardinality(Upto(x))
    BY DEF Rank
  <2> HIDE DEF Upto
  <2> QED
    BY <1>2, <2>1, FS_EmptySet
<1>4. \A x, y \in S : x < y => Rank(S, x) < Rank(S, y)
  <2> SUFFICES ASSUME NEW x \in S, NEW y \in S, x < y
               PROVE  Rank(S, x) < Rank(S, y)
    OBVIOUS
  <2>0. \A z \in S : z \in Nat /\ (z <= x => z <= y) /\ y <= y /\ ~(y <= x)
    OBVIOUS
  <2>1. Upto(x) \in SUBSET Upto(y) /\ y \in Upto(y) /\ y \notin Upto(x)
    BY <2>0
  <2>2. Rank(S, x) = Cardinality(Upto(x)) /\ Rank(S, y) = Cardinality(Upto(y))
    BY DEF Rank
  <2> HIDE DEF Upto
  <2>3. Upto(x) # Upto(y)
    BY <2>1
  <2>4. Rank(S, x) <= Rank(S, y) /\ Rank(S, x) # Rank(S, y)
    BY <1>2, <2>1, <2>2, <2>3, FS_Subset
  <2> QED
    BY <1>2, <2>4
<1> HIDE DEF n, Upto
<1>2a. \A x \in S : x \in Nat /\ Rank(S, x) \in 1 .. n
  BY <1>1, <1>2, <1>3
<1>5. \A x, y \in S : Rank(S, x) = Rank(S, y) => x = y
  <2> SUFFICES ASSUME NEW x \in S, NEW y \in S, Rank(S, x) = Rank(S, y) PROVE x = y
    OBVIOUS
  <2>1. ~(x < y) /\ ~(y < x)
    BY <1>1, <1>2a, <1>4
  <2> QED
    BY <1>2a, <2>1
<1>6. rank \in [S -> 1 .. n] /\ \A x \in S : rank[x] = Rank(S, x)
  BY <1>2a
<1> HIDE DEF rank
<1>7. rank \in Injection(S, 1 .. n)
  BY <1>5, <1>6 DEF Injection, IsInjective
<1>8. rank \in Surjection(S, 1 .. n)
  <2>1. IsFiniteSet(1 .. n) /\ Cardinality(1 .. n) = n
    BY <1>1, FS_Interval
  <2> QED
    BY <1>7, <2>1, FS_Injection DEF n
<1>9. \A k \in 1 .. n : \E x \in S : Rank(S, x) = k
  BY <1>6, <1>8 DEF Surjection
<1>10. \A k \in 1 .. n : Nth(S, k) \in S /\ Rank(S, Nth(S, k)) = k
  BY <1>9 DEF Nth
<1>11. \A i \in S : Nth(S, Rank(S, i)) = i
  BY <1>2a, <1>5, <1>10
<1> QED
  BY <1>1, <1>2a, <1>4, <1>10, <1>11 DEF n

\* What division with remainder means.
LEMMA DivMod ==
  ASSUME NEW a \in Int, NEW m \in Nat \ {0}
  PROVE  a \div m \in Int /\ a % m \in 0 .. m - 1 /\ a = m * (a \div m) + (a % m)
  OBVIOUS

\* Products with a quotient near zero.
LEMMA Multiple ==
  ASSUME NEW d \in Int, NEW m \in Nat \ {0} PROVE (d >= 1 => m * d >= m)
      /\ (d <= -1 => m * d <= -m) /\ (d = 0 => m * d = 0) /\ (d <= -2 => m * d <= -(2 * m))
  OBVIOUS

\* A row id below zero or above the width wraps once.
LEMMA UnsignedIs ==
  ASSUME NEW n \in Int
  PROVE  /\ Unsigned(n) \in 0 .. RowIds - 1
         /\ n \in 0 .. RowIds - 1 => Unsigned(n) = n
         /\ n \in -RowIds .. -1 => Unsigned(n) = n + RowIds
         /\ n \in RowIds .. 2 * RowIds - 1 => Unsigned(n) = n - RowIds
<1> DEFINE q == n \div RowIds  r == n % RowIds
<1>1. q \in Int /\ r \in 0 .. RowIds - 1 /\ n = RowIds * q + r /\ RowIds \in Nat \ {0}
  BY DivMod, GridAssumption
<1>2. Unsigned(n) = r
  BY DEF Unsigned
<1> HIDE DEF q, r
<1>3. /\ q >= 1 => RowIds * q >= RowIds
      /\ q <= -1 => RowIds * q <= -RowIds
      /\ q <= -2 => RowIds * q <= -(2 * RowIds)
      /\ q = 0 => RowIds * q = 0
  BY <1>1, Multiple
<1>4. q >= 1 \/ q = 0 \/ q = -1 \/ q <= -2
  BY <1>1
<1>5. q = -1 => RowIds * q = -RowIds
  BY <1>1
<1>6. q >= 2 => RowIds * q >= 2 * RowIds
  BY <1>1
<1>7. q = 1 => RowIds * q = RowIds
  BY <1>1
<1> DEFINE p == RowIds * q
<1>8. p \in Int /\ n = p + r
  BY <1>1
<1>9. /\ q >= 1 => p >= RowIds
      /\ q <= -1 => p <= -RowIds
      /\ q <= -2 => p <= -(2 * RowIds)
      /\ q = 0 => p = 0
      /\ q = 1 => p = RowIds
      /\ q >= 2 => p >= 2 * RowIds
      /\ q = -1 => p = -RowIds
  BY <1>3, <1>5, <1>6, <1>7
<1> HIDE DEF p
<1> QED
  BY <1>1, <1>2, <1>4, <1>8, <1>9

\* What a trim leaves: the blocks whose last row the scrollback reaches, in order.
Picks(bs, t, e) ==
  /\ e \in [1 .. Len(t) -> 1 .. Len(bs)]
  /\ \A k \in 1 .. Len(t) : t[k] = bs[e[k]]
  /\ \A k, l \in 1 .. Len(t) : k < l => e[k] < e[l]

\* TrimBlocks keeps the blocks whose last row is not below the oldest, in their order.
LEMMA TrimIs ==
  ASSUME NEW S, NEW bs \in Seq(S), NEW oldest \in Int
  PROVE  LET t == TrimBlocks(bs, oldest)
         IN  /\ t \in Seq(S)
             /\ \E e : /\ Picks(bs, t, e)
                       /\ \A i \in 1 .. Len(bs) :
                            LastRow(bs[i]) >= oldest <=> \E k \in 1 .. Len(t) : e[k] = i
<1> DEFINE kept == {i \in DOMAIN bs : LastRow(bs[i]) >= oldest}  n == Cardinality(kept)
           t == TrimBlocks(bs, oldest)  e == [k \in 1 .. n |-> Nth(kept, k)]
<1>1. kept \in SUBSET (1 .. Len(bs)) /\ Len(bs) \in Nat
  OBVIOUS
<1>2. IsFiniteSet(kept) /\ \A i \in kept : i \in Nat
  <2>1. IsFiniteSet(1 .. Len(bs))
    BY <1>1, FS_Interval
  <2> QED
    BY <1>1, <2>1, FS_Subset
<1>3. t = [k \in 1 .. n |-> bs[Nth(kept, k)]]
  BY DEF TrimBlocks, Nth, Rank
<1>4. \A i \in 1 .. Len(bs) : LastRow(bs[i]) >= oldest <=> i \in kept
  BY <1>1
<1> HIDE DEF kept, t
<1>5. /\ n \in Nat /\ \A k \in 1 .. n : Nth(kept, k) \in kept /\ Rank(kept, Nth(kept, k)) = k
      /\ \A i \in kept : Rank(kept, i) \in 1 .. n /\ Nth(kept, Rank(kept, i)) = i
      /\ \A x, y \in kept : x < y => Rank(kept, x) < Rank(kept, y)
  BY <1>2, Ranks
<1> HIDE DEF n
<1>6. t \in Seq(S) /\ Len(t) = n /\ \A k \in 1 .. n : t[k] = bs[Nth(kept, k)]
  <2>0. \A i \in 1 .. Len(bs) : bs[i] \in S
    OBVIOUS
  <2>1. \A k \in 1 .. n : bs[Nth(kept, k)] \in S
    BY <1>1, <1>5, <2>0
  <2> QED
    BY <1>3, <1>5, <2>1
<1>7. \A k, l \in 1 .. n : k < l => Nth(kept, k) < Nth(kept, l)
  <2> SUFFICES ASSUME NEW k \in 1 .. n, NEW l \in 1 .. n, k < l PROVE Nth(kept, k) < Nth(kept, l)
    OBVIOUS
  <2> DEFINE x == Nth(kept, k)  y == Nth(kept, l)
  <2>1. x \in kept /\ y \in kept /\ Rank(kept, x) = k /\ Rank(kept, y) = l
    BY <1>5
  <2>2. x \in Nat /\ y \in Nat
    BY <1>2, <2>1
  <2> HIDE DEF x, y
  <2>3. x # y
    BY <2>1
  <2>4. ~(y < x)
    <3>1. SUFFICES ASSUME y < x PROVE FALSE
      OBVIOUS
    <3>2. Rank(kept, y) < Rank(kept, x)
      BY <1>5, <2>1, <3>1
    <3> QED
      BY <2>1, <3>2
  <2> QED
    BY <2>2, <2>3, <2>4 DEF x, y
<1>8. e \in [1 .. n -> 1 .. Len(bs)] /\ \A k \in 1 .. n : e[k] = Nth(kept, k)
  BY <1>1, <1>5
<1> HIDE DEF e
<1>9. Picks(bs, t, e)
  BY <1>6, <1>7, <1>8 DEF Picks
<1>10. \A i \in 1 .. Len(bs) : LastRow(bs[i]) >= oldest <=> \E k \in 1 .. Len(t) : e[k] = i
  BY <1>4, <1>5, <1>6, <1>8
<1> QED
  BY <1>6, <1>9, <1>10 DEF t
\* It lengthens no list, and one it does not shorten had nothing to trim.
LEMMA TrimShortens ==
  ASSUME NEW S, NEW bs \in Seq(S), NEW oldest \in Int
  PROVE  /\ Len(TrimBlocks(bs, oldest)) <= Len(bs)
         /\ Len(TrimBlocks(bs, oldest)) = Len(bs)
              => \A i \in 1 .. Len(bs) : LastRow(bs[i]) >= oldest
<1> DEFINE kept == {i \in DOMAIN bs : LastRow(bs[i]) >= oldest}  n == Cardinality(kept)
           t == TrimBlocks(bs, oldest)
<1>1. kept \in SUBSET (1 .. Len(bs)) /\ Len(bs) \in Nat
  OBVIOUS
<1>2. IsFiniteSet(1 .. Len(bs)) /\ Cardinality(1 .. Len(bs)) = Len(bs)
  <2>1. \A m \in Nat : IsFiniteSet(1 .. m) /\ Cardinality(1 .. m) = m
    <3> TAKE m \in Nat
    <3> QED
      BY FS_Interval
  <2> HIDE DEF kept, n, t
  <2> QED
    BY <1>1, <2>1
<1>3. IsFiniteSet(kept) /\ n <= Len(bs) /\ (n = Len(bs) => kept = 1 .. Len(bs))
  BY <1>1, <1>2, FS_Subset
<1>4. n \in Nat
  BY <1>3, FS_CardinalityType
<1>5. t = [k \in 1 .. n |-> bs[Nth(kept, k)]]
  BY DEF TrimBlocks, Nth, Rank
<1>6. \A i \in 1 .. Len(bs) : i \in kept => LastRow(bs[i]) >= oldest
  OBVIOUS
<1> HIDE DEF kept, n, t
<1>7. Len(t) = n
  BY <1>4, <1>5
<1> QED
  BY <1>3, <1>6, <1>7 DEF t

\* Newest keeps the end of the list, its last block in any case and of one too many all
\* but the first.
LEMMA NewestPicks ==
  ASSUME NEW S, NEW t \in Seq(S), NEW n \in Nat \ {0}
  PROVE  LET u == Newest(t, n)
         IN  /\ u \in Seq(S) /\ Len(u) <= n
             /\ \E e : Picks(t, u, e)
             /\ t = <<>> => u = <<>>
             /\ t # <<>> => u # <<>> /\ Last(u) = Last(t)
             /\ \A k \in 1 .. Len(t) : Len(t) <= n \/ (k # 1 /\ Len(t) = n + 1)
                                         => \E j \in 1 .. Len(u) : u[j] = t[k]
<1> DEFINE u == Newest(t, n)  d == Len(t) - Len(u)  e == [k \in 1 .. Len(u) |-> k + d]
<1>1. /\ u \in Seq(S) /\ Len(u) <= n /\ Len(u) = (IF Len(t) > n THEN n ELSE Len(t))
      /\ \A k \in 1 .. Len(u) : u[k] = t[k + Len(t) - Len(u)]
  BY NewestIs
<1> HIDE DEF u
<1>2. /\ Len(t) \in Nat /\ Len(u) \in Nat /\ d \in Nat /\ Len(u) + d = Len(t)
      /\ \A k \in 1 .. Len(u) : k + d = k + Len(t) - Len(u)
  BY <1>1
<1>3. \A k \in 1 .. Len(u) : u[k] = t[k + d]
  BY <1>1, <1>2
<1>4. d = 0 \/ Len(u) = n
  BY <1>1, <1>2
<1>5. Len(t) = n + 1 => d = 1
  BY <1>1, <1>2
<1> HIDE DEF d
<1>6. Picks(t, u, e)
  BY <1>2, <1>3 DEF Picks
<1>7. t = <<>> => u = <<>>
  BY <1>1, <1>2, EmptySeq
<1>8. ASSUME t # <<>> PROVE u # <<>> /\ Last(u) = Last(t)
  <2>1. Len(t) # 0
    BY <1>8, EmptySeq
  <2>2. Len(u) \in 1 .. Len(u) /\ Len(u) # 0
    BY <1>2, <1>4, <2>1
  <2>3. u[Len(u)] = t[Len(t)]
    BY <1>2, <1>3, <2>2
  <2> QED
    BY <2>2, <2>3 DEF Last
<1>9. ASSUME NEW k \in 1 .. Len(t), Len(t) <= n \/ (k # 1 /\ Len(t) = n + 1)
      PROVE  \E j \in 1 .. Len(u) : u[j] = t[k]
  <2>1. k - d \in 1 .. Len(u)
    <3>1. CASE Len(t) <= n
      BY <1>1, <1>2, <3>1
    <3>2. CASE k # 1 /\ Len(t) = n + 1
      BY <1>2, <1>5, <3>2
    <3> QED
      BY <1>9, <3>1, <3>2
  <2>2. k - d + d = k
    BY <1>2
  <2> QED
    BY <1>3, <2>1, <2>2
<1> QED
  BY <1>1, <1>6, <1>7, <1>8, <1>9 DEF u

----------------------------------------------------------------------------
(* The list of blocks.                                                     *)

\* The rows a block may name are at least a screen and a scrollback short of where the
\* counter wraps round.
Limit == RowIds - ScrollbackMax
RowId == {r \in 0 .. Limit - 1 : \A h \in Heights : r + h < Limit}

\* Heights are numbers.
LEMMA HeightsAre == \A h \in Heights : h \in Nat
<1>1. \A z \in Sizes : z.rows \in Nat
  BY TerminalAssumption
<1>2. \A g \in Screens : g.rows \in Nat
  <2> TAKE g \in Screens
  <2>1. PICK s \in Scenarios : g \in s.screens
    BY DEF Screens
  <2> QED
    BY <2>1, TerminalAssumption
<1> QED
  BY <1>1, <1>2 DEF Heights

\* What lies below a row id is one, and a screen more does not wrap.
LEMMA RowIdIs ==
  /\ Limit \in Int /\ Limit <= RowIds
  /\ \A r \in RowId : r \in Nat /\ r < Limit /\ r < RowIds /\ (\A h \in Heights : r + h < Limit)
       /\ \A q \in 0 .. r : q \in RowId
<1>1. Limit \in Int /\ Limit <= RowIds /\ RowIds \in Nat
  BY GridAssumption DEF Limit
<1> QED
  BY <1>1, HeightsAre DEF RowId

Block == [id : Nat, prompt : RowId, input : RowId, first : RowId, last : RowId, hasOutput : BOOLEAN,
          running : BOOLEAN, hasExit : BOOLEAN, collapsed : BOOLEAN, cmd : Nat, exitOf : Nat,
              old : BOOLEAN]
BlockFields == {"id", "prompt", "input", "first", "last", "hasOutput", "running", "hasExit",
    "collapsed",
                "cmd", "exitOf", "old"}
IsBlock(b) == DOMAIN b = BlockFields /\ b = [f \in BlockFields |-> b[f]]
BlockShape(b) ==
  /\ IsBlock(b) /\ b.id \in Nat /\ b.cmd \in Nat /\ b.exitOf \in Nat
  /\ b.prompt \in RowId /\ b.input \in RowId /\ b.first \in RowId /\ b.last \in RowId
  /\ b.hasOutput \in BOOLEAN /\ b.running \in BOOLEAN /\ b.hasExit \in BOOLEAN
  /\ b.collapsed \in BOOLEAN /\ b.old \in BOOLEAN

\* A block by its fields.
LEMMA BlockIs == ASSUME NEW b PROVE b \in Block <=> BlockShape(b)
<1>1. b \in Block => BlockShape(b)
  BY DEF Block, BlockShape, IsBlock, BlockFields
<1>2. ASSUME BlockShape(b) PROVE b \in Block
  <2>1. b = [id |-> b.id, prompt |-> b.prompt, input |-> b.input, first |-> b.first,
            last |-> b.last,
             hasOutput |-> b.hasOutput, running |-> b.running, hasExit |-> b.hasExit,
                 collapsed |-> b.collapsed,
             cmd |-> b.cmd, exitOf |-> b.exitOf, old |-> b.old]
    BY <1>2 DEF BlockShape, IsBlock, BlockFields
  <2> QED
    BY <1>2, <2>1 DEF Block, BlockShape
<1> QED
  BY <1>1, <1>2

\* A status is of the command of its block; the one block that runs is the last, the
\* session's, with the last command; blocks come one below the other while marks do.
StatusOK(b) == b.hasExit => ~b.running /\ b.exitOf = b.cmd /\ b.cmd # 0
RunsLast(bs, run, c) ==
  \A i \in 1 .. Len(bs) : bs[i].running => i = Len(bs) /\ bs[i].id = run /\ bs[i].cmd = c /\ c # 0
Below(bs, hi) ==
  hi # Unordered =>
    /\ \A i \in 1 .. Len(bs) : bs[i].prompt <= hi /\ (bs[i].hasOutput => bs[i].last < hi)
    /\ \A i, j \in 1 .. Len(bs) : i < j => bs[i].prompt <= bs[j].prompt
         /\ (bs[i].hasOutput => bs[i].last < bs[j].prompt)
ListOK(bs, run, c, hi) ==
  /\ bs \in Seq(Block)
  /\ \A i \in 1 .. Len(bs) : StatusOK(bs[i])
  /\ RunsLast(bs, run, c) /\ Below(bs, hi)

\* A list thinned out keeps what is said of the list.
LEMMA PickedOK ==
  ASSUME NEW bs, NEW t \in Seq(Block), NEW e, NEW run, NEW c, NEW hi, ListOK(bs, run, c, hi),
      Picks(bs, t, e)
  PROVE  ListOK(t, run, c, hi)
<1>1. /\ Len(bs) \in Nat /\ Len(t) \in Nat
      /\ \A k \in 1 .. Len(t) : e[k] \in 1 .. Len(bs) /\ t[k] = bs[e[k]]
      /\ \A k, l \in 1 .. Len(t) : k < l => e[k] < e[l]
  BY DEF ListOK, Picks
<1>2. RunsLast(t, run, c)
  <2> SUFFICES ASSUME NEW k \in 1 .. Len(t), t[k].running
               PROVE  k = Len(t) /\ t[k].id = run /\ t[k].cmd = c /\ c # 0
    BY DEF RunsLast
  <2>1. e[k] = Len(bs) /\ t[k].id = run /\ t[k].cmd = c /\ c # 0
    BY <1>1 DEF ListOK, RunsLast
  <2>2. ~(k < Len(t))
    <3>1. SUFFICES ASSUME k < Len(t) PROVE FALSE
      OBVIOUS
    <3>2. Len(t) \in 1 .. Len(t)
      BY <1>1, <3>1
    <3>3. e[k] < e[Len(t)] /\ e[Len(t)] \in 1 .. Len(bs)
      BY <1>1, <3>1, <3>2
    <3> QED
      BY <1>1, <2>1, <3>3
  <2> QED
    BY <1>1, <2>1, <2>2
<1>3. Below(t, hi)
  BY <1>1 DEF ListOK, Below
<1> QED
  BY <1>1, <1>2, <1>3 DEF ListOK

\* Marks come down to hi and then to h.
LEMMA BelowLater ==
  ASSUME NEW bs, NEW run, NEW c, NEW hi, NEW h, ListOK(bs, run, c, hi), hi \in Nat, h \in Nat,
         hi # Unordered => h >= hi, hi = Unordered => h = Unordered
  PROVE  ListOK(bs, run, c, h)
<1>1. \A i \in 1 .. Len(bs) : BlockShape(bs[i])
  BY BlockIs DEF ListOK
<1>2. \A i \in 1 .. Len(bs) : bs[i].prompt \in Int /\ bs[i].last \in Int
  BY <1>1, RowIdIs DEF BlockShape
<1>3. hi # Unordered => Below(bs, hi)
  BY DEF ListOK
<1>4. Below(bs, h)
  <2> SUFFICES ASSUME h # Unordered
               PROVE  /\ \A i \in 1 .. Len(bs) : bs[i].prompt <= h /\ (bs[i].hasOutput => bs[i].last < h)
                      /\ \A i, j \in 1 .. Len(bs) : i < j => bs[i].prompt <= bs[j].prompt
                           /\ (bs[i].hasOutput => bs[i].last < bs[j].prompt)
    BY DEF Below
  <2>1. hi # Unordered /\ h >= hi
    OBVIOUS
  <2>2. /\ \A i \in 1 .. Len(bs) : bs[i].prompt <= hi /\ (bs[i].hasOutput => bs[i].last < hi)
        /\ \A i, j \in 1 .. Len(bs) : i < j => bs[i].prompt <= bs[j].prompt
             /\ (bs[i].hasOutput => bs[i].last < bs[j].prompt)
    BY <1>3, <2>1 DEF Below
  <2>3. ASSUME NEW i \in 1 .. Len(bs)
        PROVE  bs[i].prompt <= h /\ (bs[i].hasOutput => bs[i].last < h)
    BY <1>2, <2>1, <2>2
  <2> QED
    BY <2>2, <2>3
<1> QED
  BY <1>4 DEF ListOK

\* A flag or a history of a block is nothing to the list.
Alike(b, d) ==
  /\ d.id = b.id /\ d.prompt = b.prompt /\ d.input = b.input /\ d.first = b.first /\ d.last = b.last
  /\ d.hasOutput = b.hasOutput /\ d.running = b.running /\ d.hasExit = b.hasExit /\ d.cmd = b.cmd
  /\ d.exitOf = b.exitOf

\* So does one whose blocks are only folded or marked old.
LEMMA AlikeOK ==
  ASSUME NEW bs, NEW t \in Seq(Block), NEW run, NEW c, NEW hi, ListOK(bs, run, c, hi),
      Len(t) = Len(bs),
         \A i \in 1 .. Len(bs) : Alike(bs[i], t[i])
  PROVE  ListOK(t, run, c, hi)
  BY DEF ListOK, StatusOK, RunsLast, Below, Alike

\* Folding a block and marking it old leave it alike.
LEMMA FlagSet ==
  ASSUME NEW b \in Block, NEW v \in BOOLEAN
  PROVE  /\ [b EXCEPT !.collapsed = v] \in Block /\ Alike(b, [b EXCEPT !.collapsed = v])
         /\ [b EXCEPT !.old = v] \in Block /\ Alike(b, [b EXCEPT !.old = v]) /\ Alike(b, b)
<1>1. BlockShape(b)
  BY BlockIs
<1>2. BlockShape([b EXCEPT !.collapsed = v]) /\ Alike(b, [b EXCEPT !.collapsed = v])
  BY <1>1 DEF BlockShape, IsBlock, BlockFields, Alike
<1>3. BlockShape([b EXCEPT !.old = v]) /\ Alike(b, [b EXCEPT !.old = v])
  BY <1>1 DEF BlockShape, IsBlock, BlockFields, Alike
<1> QED
  BY <1>2, <1>3, BlockIs DEF Alike

\* The last block of a list that has one.
LEMMA LastIs ==
  ASSUME NEW bs \in Seq(Block), bs # <<>>
  PROVE  Len(bs) \in Nat /\ Len(bs) >= 1 /\ Last(bs) = bs[Len(bs)] /\ Last(bs) \in Block
<1>1. Len(bs) \in Nat /\ Len(bs) >= 1
  BY EmptySeq, LenProperties
<1> QED
  BY <1>1 DEF Last

\* WithLast replaces the last block and nothing else.
LEMMA WithLastIs ==
  ASSUME NEW bs \in Seq(Block), bs # <<>>, NEW b \in Block
  PROVE  /\ WithLast(bs, b) \in Seq(Block) /\ Len(WithLast(bs, b)) = Len(bs)
         /\ WithLast(bs, b)[Len(bs)] = b
         /\ \A i \in 1 .. Len(bs) : i # Len(bs) => WithLast(bs, b)[i] = bs[i]
         /\ WithLast(bs, b) # <<>>
<1>1. Len(bs) \in Nat /\ Len(bs) >= 1
  BY LastIs
<1>2. WithLast(bs, b) = [bs EXCEPT ![Len(bs)] = b]
  BY DEF WithLast
<1>3. /\ WithLast(bs, b) \in Seq(Block) /\ Len(WithLast(bs, b)) = Len(bs)
      /\ WithLast(bs, b)[Len(bs)] = b
      /\ \A i \in 1 .. Len(bs) : i # Len(bs) => WithLast(bs, b)[i] = bs[i]
  BY <1>1, <1>2
<1> QED
  BY <1>1, <1>3

\* The last block changes.
LEMMA LastSet ==
  ASSUME NEW bs, bs # <<>>, NEW run, NEW c, NEW hi, ListOK(bs, run, c, hi), hi \in Nat,
         NEW d \in Block, StatusOK(d), d.prompt = Last(bs).prompt,
         hi # Unordered /\ d.hasOutput => d.last < hi,
         NEW run2, NEW c2, d.running => d.id = run2 /\ d.cmd = c2 /\ c2 # 0
  PROVE  ListOK(WithLast(bs, d), run2, c2, hi)
<1> DEFINE n == Len(bs)  t == WithLast(bs, d)
<1>1. bs \in Seq(Block) /\ n \in Nat /\ n >= 1 /\ Last(bs) = bs[n]
  BY LastIs DEF ListOK
<1>2. t \in Seq(Block) /\ Len(t) = n /\ t[n] = d /\ \A i \in 1 .. n : i # n => t[i] = bs[i]
  BY <1>1, WithLastIs
<1> HIDE DEF t
<1>3. \A i \in 1 .. n : i = n \/ ~bs[i].running
  BY DEF ListOK, RunsLast
<1>4. RunsLast(t, run2, c2)
  BY <1>1, <1>2, <1>3 DEF RunsLast
<1>5. \A i \in 1 .. n : StatusOK(t[i]) /\ t[i].prompt = bs[i].prompt
  BY <1>1, <1>2 DEF ListOK
<1>6. Below(t, hi)
  <2>1. SUFFICES ASSUME hi # Unordered PROVE Below(t, hi)
    BY DEF Below
  <2>2. /\ \A i \in 1 .. n : bs[i].prompt <= hi /\ (bs[i].hasOutput => bs[i].last < hi)
        /\ \A i, j \in 1 .. n : i < j => bs[i].prompt <= bs[j].prompt
             /\ (bs[i].hasOutput => bs[i].last < bs[j].prompt)
    BY <2>1 DEF ListOK, Below
  <2>3. \A i \in 1 .. n : t[i].prompt <= hi /\ (t[i].hasOutput => t[i].last < hi)
    BY <1>2, <1>5, <2>1, <2>2
  <2>4. \A i, j \in 1 .. n : i < j => t[i].prompt <= t[j].prompt
            /\ (t[i].hasOutput => t[i].last < t[j].prompt)
    <3> SUFFICES ASSUME NEW i \in 1 .. n, NEW j \in 1 .. n, i < j
                 PROVE  t[i].prompt <= t[j].prompt /\ (t[i].hasOutput => t[i].last < t[j].prompt)
      OBVIOUS
    <3>1. i # n
      BY <1>1
    <3> QED
      BY <1>2, <1>5, <2>2, <3>1
  <2> QED
    BY <1>2, <2>3, <2>4 DEF Below
<1> QED
  BY <1>2, <1>4, <1>5, <1>6 DEF ListOK, t

----------------------------------------------------------------------------
(* The session.                                                            *)

\* The journal holds each command once, and none that is pending.
Filed == /\ journal \in Seq(1 .. cmds)
         /\ \A i, j \in 1 .. Len(journal) : journal[i] = journal[j] => i = j
         /\ \A i \in 1 .. Len(journal) : journal[i] # pendingCmd
BudgetOK == budget \in Budgets /\ FitsIn(grid, budget)

\* The session's part of the invariant.
ShellOK ==
  /\ ListOK(blocks, runningBlockId, cmds, high)
  /\ cmds \in Nat /\ nextBlockId \in Nat \ {0} /\ runningBlockId \in Nat
  /\ outputStartRow \in RowId /\ high \in RowId \cup {Unordered}
  /\ cmdRunning \in BOOLEAN /\ undefined \in BOOLEAN
  /\ pendingCmd \in 0 .. cmds /\ notifyRunning \in 0 .. cmds
  /\ Filed

\* The inductive invariant of the blocks: the grid's, the bound on the counter and the session's.
BInv == GInv /\ BudgetOK /\ ShellOK

\* The cursor names a row id, however many lines are still to come.
LEMMA CursorFits ==
  ASSUME GInv, BudgetOK
  PROVE  /\ grid.total \in Nat /\ grid.rows \in Nat /\ Len(grid.scrollback) \in 0 .. ScrollbackMax
         /\ grid.total + 2 * grid.rows + ScrollbackMax < RowIds
         /\ CursorRow \in RowId /\ CursorRow \in Nat /\ grid.total <= CursorRow /\ Limit \in Nat
         /\ Limit <= RowIds
         /\ RowIds \in Nat /\ ScrollbackMax \in Nat /\ 0 \in RowId
<1>1. Shape(grid)
  BY DEF GInv
<1>2. /\ grid.total \in Nat /\ grid.rows \in Nat /\ grid.rows >= 2 /\ grid.y \in 0 .. grid.rows - 1
      /\ grid.rows \in Heights
      /\ Len(grid.scrollback) \in Nat /\ Len(grid.scrollback) <= ScrollbackMax
  BY <1>1, Numbers
<1>3. budget.edits \in Nat /\ budget.lines \in Nat
  BY DEF BudgetOK, Budgets
<1>5. RowIds \in Nat /\ ScrollbackMax \in Nat
  BY GridAssumption
<1>6. PICK t \in Nat, r \in Nat, y \in Nat, e \in Nat, l \in Nat :
         /\ grid.total = t /\ grid.rows = r /\ grid.y = y /\ budget.edits = e /\ budget.lines = l
         /\ y <= r - 1
  <2>1. grid.y \in Nat /\ grid.y <= grid.rows - 1
    BY <1>2
  <2>2. PICK t \in Nat, r \in Nat, y \in Nat : grid.total = t /\ grid.rows = r /\ grid.y = y
    BY <1>2, <2>1
  <2>3. PICK e \in Nat, l \in Nat : budget.edits = e /\ budget.lines = l
    BY <1>3
  <2> QED
    BY <2>1, <2>2, <2>3
<1>7. \A h \in Heights : h \in Nat /\ t + e + l + 2 * h + ScrollbackMax < RowIds
  BY <1>6, HeightsAre DEF BudgetOK, FitsIn
<1>8. t + 2 * r + ScrollbackMax < RowIds
  BY <1>2, <1>5, <1>6, <1>7
<1>9. /\ t + y \in 0 .. RowIds - ScrollbackMax - 1 /\ t <= t + y
      /\ RowIds - ScrollbackMax \in Nat /\ RowIds - ScrollbackMax <= RowIds /\ t + y \in Nat
  BY <1>5, <1>6, <1>8
<1>10. \A h \in Heights : (t + y) + h < RowIds - ScrollbackMax
  BY <1>5, <1>6, <1>7, <1>8
<1>11. \A h \in Heights : 0 + h < RowIds - ScrollbackMax
  BY <1>5, <1>6, <1>7, <1>8
<1>12. Len(grid.scrollback) \in 0 .. ScrollbackMax
  BY <1>2, <1>5
<1>13. CursorRow = t + y
  BY <1>6 DEF CursorRow
<1>14. t + y \in RowId /\ 0 \in RowId
  BY <1>9, <1>10, <1>11 DEF RowId, Limit
<1>15. Limit \in Nat /\ Limit <= RowIds
  BY <1>9 DEF Limit
<1> QED
  BY <1>5, <1>6, <1>8, <1>9, <1>12, <1>13, <1>14, <1>15

\* The same from the invariant.
LEMMA CursorIs ==
  ASSUME BInv
  PROVE  /\ grid.total \in Nat /\ grid.rows \in Nat /\ Len(grid.scrollback) \in 0 .. ScrollbackMax
         /\ grid.total + 2 * grid.rows + ScrollbackMax < RowIds
         /\ CursorRow \in RowId /\ CursorRow \in Nat /\ grid.total <= CursorRow /\ Limit \in Nat
         /\ Limit <= RowIds
         /\ RowIds \in Nat /\ ScrollbackMax \in Nat /\ 0 \in RowId
  BY CursorFits DEF BInv

\* The oldest id the grid addresses is the first kept, or a huge one after a reset.
LEMMA OldestIs ==
  ASSUME BInv
  PROVE  /\ Oldest(grid) \in Int
         /\ CounterBehind(grid) => Oldest(grid) >= Limit
         /\ ~CounterBehind(grid) => Oldest(grid) = FirstKept(grid) /\ FirstKept(grid) <= grid.total
<1> DEFINE n == grid.total - Len(grid.scrollback)
<1>1. /\ grid.total \in Nat /\ Len(grid.scrollback) \in 0 .. ScrollbackMax /\ grid.total < RowIds
      /\ RowIds \in Nat /\ ScrollbackMax \in Nat
      /\ ScrollbackMax < RowIds
  BY CursorIs
<1>2. n \in Int /\ n <= grid.total /\ n >= -ScrollbackMax /\ (CounterBehind(grid) <=> n < 0)
          /\ Oldest(grid) = Unsigned(n) /\ n = FirstKept(grid)
  BY <1>1 DEF CounterBehind, Oldest, FirstKept
<1> HIDE DEF n
<1>4. PICK k \in Int : k = n
  BY <1>2
<1>5. /\ Unsigned(k) \in 0 .. RowIds - 1
      /\ k \in 0 .. RowIds - 1 => Unsigned(k) = k
      /\ k \in -RowIds .. -1 => Unsigned(k) = k + RowIds
  BY UnsignedIs
<1> QED
  BY <1>1, <1>2, <1>4, <1>5 DEF Limit

\* The last row of a block is one of its ids.
LEMMA LastRowIs ==
  ASSUME NEW b \in Block PROVE LastRow(b) \in RowId /\ LastRow(b) \in {b.last, b.input, b.prompt}
<1>1. BlockShape(b)
  BY BlockIs
<1> QED
  BY <1>1 DEF BlockShape, LastRow, Larger

\* The block a prompt makes.
LEMMA NewBlockIs ==
  ASSUME BInv, NEW row \in RowId
  PROVE  LET b == NewBlock(row)
         IN  /\ b \in Block /\ StatusOK(b) /\ ~b.running /\ ~b.hasOutput /\ ~b.hasExit
             /\ b.prompt = row /\ b.input = row
             /\ b.id = nextBlockId /\ LastRow(b) = row
<1>1. 0 \in RowId /\ nextBlockId \in Nat
  BY CursorIs DEF BInv, ShellOK
<1> QED
  BY <1>1, RowIdIs DEF NewBlock, Block, StatusOK, LastRow, Larger

\* The block a prompt ends.
LEMMA ClosedIs ==
  ASSUME NEW b \in Block, NEW row \in RowId, ~b.hasExit
  PROVE  LET d == ClosedAt(b, row)
         IN  /\ d \in Block /\ StatusOK(d) /\ ~d.running /\ d.prompt = b.prompt
             /\ d.input = b.input /\ d.first = b.first
             /\ d.id = b.id
             /\ IF b.first > 0 /\ row > b.first THEN d.hasOutput /\ d.last = row - 1
                  ELSE d.hasOutput = b.hasOutput /\ d.last = b.last
<1>1. BlockShape(b)
  BY BlockIs
<1> DEFINE d == ClosedAt(b, row)
<1>2. CASE b.first > 0 /\ row > b.first
  <2>1. d = [b EXCEPT !.running = FALSE, !.last = row - 1, !.hasOutput = TRUE]
    BY <1>2 DEF ClosedAt
  <2> HIDE DEF d
  <2>2. /\ IsBlock(d) /\ d.running = FALSE /\ d.last = row - 1 /\ d.hasOutput = TRUE /\ d.id = b.id
        /\ d.prompt = b.prompt
        /\ d.input = b.input /\ d.first = b.first /\ d.hasExit = b.hasExit
        /\ d.collapsed = b.collapsed /\ d.cmd = b.cmd
        /\ d.exitOf = b.exitOf /\ d.old = b.old
    BY <1>1, <2>1 DEF BlockShape, IsBlock, BlockFields
  <2>3. b.first \in Nat /\ row \in Nat /\ \A q \in 0 .. row : q \in RowId
    BY <1>1, RowIdIs DEF BlockShape
  <2>4. row - 1 \in RowId
    BY <1>2, <2>3
  <2>5. BlockShape(d)
    BY <1>1, <2>2, <2>4 DEF BlockShape
  <2> QED
    BY <1>2, <2>2, <2>5, BlockIs DEF StatusOK, d
<1>3. CASE ~(b.first > 0 /\ row > b.first)
  <2>1. d = [b EXCEPT !.running = FALSE]
    BY <1>3 DEF ClosedAt
  <2> HIDE DEF d
  <2>2. /\ IsBlock(d) /\ d.running = FALSE /\ d.last = b.last /\ d.hasOutput = b.hasOutput
        /\ d.id = b.id /\ d.prompt = b.prompt
        /\ d.input = b.input /\ d.first = b.first /\ d.hasExit = b.hasExit
        /\ d.collapsed = b.collapsed /\ d.cmd = b.cmd
        /\ d.exitOf = b.exitOf /\ d.old = b.old
    BY <1>1, <2>1 DEF BlockShape, IsBlock, BlockFields
  <2>3. BlockShape(d)
    BY <1>1, <2>2 DEF BlockShape
  <2> QED
    BY <1>3, <2>2, <2>3, BlockIs DEF StatusOK, d
<1> QED
  BY <1>2, <1>3

\* The highest row after a mark.
HighAfter(h) == h = IF CursorRow >= high THEN CursorRow ELSE Unordered

\* No block runs.
Idle(bs) == \A i \in 1 .. Len(bs) : ~bs[i].running

\* What the highest row marked can become.
LEMMA HighIs ==
  ASSUME BInv, NEW h, HighAfter(h)
  PROVE  /\ h \in RowId \cup {Unordered} /\ h \in Nat /\ high \in Nat
         /\ high # Unordered => h >= high /\ (h # Unordered => h = CursorRow)
         /\ high = Unordered => h = Unordered
<1>1. CursorRow \in RowId /\ CursorRow \in Nat /\ RowIds \in Nat /\ Limit <= RowIds /\ Limit \in Nat
  BY CursorIs
<1>2. high \in RowId \cup {Unordered}
  BY DEF BInv, BudgetOK, ShellOK
<1> QED
  BY <1>1, <1>2, RowIdIs DEF HighAfter, Unordered

\* The list once the open block was ended by a prompt.
Ended(row) == IF HasOpenBlock(blocks) THEN WithLast(blocks, ClosedAt(Last(blocks), row)) ELSE blocks

\* With the open block ended the list stays sound, and no block runs.
LEMMA EndedIs ==
  ASSUME BInv, NEW h, HighAfter(h), NEW run, NEW c
  PROVE  LET bs == Ended(CursorRow) IN ListOK(bs, run, c, h) /\ Idle(bs)
<1> DEFINE row == CursorRow  bs == Ended(row)
<1>0. ListOK(blocks, runningBlockId, cmds, high) /\ blocks \in Seq(Block) /\ row \in RowId
          /\ row \in Nat
  BY CursorIs DEF BInv, BudgetOK, ShellOK, ListOK
<1>h. /\ h \in RowId \cup {Unordered} /\ h \in Nat /\ high \in Nat
      /\ high # Unordered => h >= high /\ (h # Unordered => h = row)
      /\ high = Unordered => h = Unordered
  BY HighIs
<1>1. ListOK(blocks, runningBlockId, cmds, h)
  BY <1>0, <1>h, BelowLater
<1>2. CASE HasOpenBlock(blocks)
  <2>1. blocks # <<>> /\ ~Last(blocks).hasExit
    BY <1>2 DEF HasOpenBlock
  <2>2. Len(blocks) \in Nat /\ Len(blocks) >= 1 /\ Last(blocks) = blocks[Len(blocks)]
            /\ Last(blocks) \in Block
    BY <1>0, <2>1, LastIs
  <2> DEFINE b == Last(blocks)  d == ClosedAt(b, row)
  <2>3. /\ d \in Block /\ StatusOK(d) /\ ~d.running /\ d.prompt = b.prompt
        /\ IF b.first > 0 /\ row > b.first THEN d.hasOutput /\ d.last = row - 1
             ELSE d.hasOutput = b.hasOutput /\ d.last = b.last
    BY <1>0, <2>1, <2>2, ClosedIs
  <2>4. bs = WithLast(blocks, d)
    BY <1>2 DEF Ended
  <2> HIDE DEF d, bs
  <2>5. ASSUME h # Unordered, d.hasOutput PROVE d.last < h
    <3>1. b.hasOutput => b.last < h
      BY <1>1, <2>2, <2>5 DEF ListOK, Below
    <3>2. h = row
      BY <1>h, <2>5
    <3>3. (d.hasOutput = b.hasOutput /\ d.last = b.last) \/ d.last = row - 1
      BY <2>3
    <3> HIDE DEF b, d, row
    <3>4. CASE d.hasOutput = b.hasOutput /\ d.last = b.last
      BY <2>5, <3>1, <3>4
    <3>5. CASE d.last = row - 1
      BY <1>0, <3>2, <3>5
    <3> QED
      BY <3>3, <3>4, <3>5
  <2>6. ListOK(bs, run, c, h)
    BY <1>1, <1>h, <2>1, <2>3, <2>4, <2>5, LastSet
  <2>7. Idle(bs)
    <3>1. Len(bs) = Len(blocks) /\ bs[Len(blocks)] = d
              /\ \A i \in 1 .. Len(blocks) : i # Len(blocks) => bs[i] = blocks[i]
      BY <1>0, <2>1, <2>3, <2>4, WithLastIs
    <3> QED
      BY <1>0, <2>2, <2>3, <3>1 DEF Idle, ListOK, RunsLast
  <2> QED
    BY <2>6, <2>7 DEF bs
<1>3. CASE ~HasOpenBlock(blocks)
  <2>1. bs = blocks
    BY <1>3 DEF Ended
  <2>2. Idle(blocks)
    <3> SUFFICES ASSUME NEW i \in 1 .. Len(blocks), blocks[i].running PROVE FALSE
      BY DEF Idle
    <3>1. blocks # <<>>
      BY <1>0
    <3>2. i = Len(blocks) /\ Last(blocks) = blocks[Len(blocks)]
      BY <1>0, <3>1, LastIs DEF ListOK, RunsLast
    <3>3. blocks[i].hasExit
      BY <1>3, <3>1, <3>2 DEF HasOpenBlock
    <3> QED
      BY <1>0, <3>3 DEF ListOK, StatusOK
  <2> QED
    BY <1>1, <2>1, <2>2 DEF ListOK, RunsLast, Idle
<1> QED
  BY <1>2, <1>3

\* So it does with the new block at its end; and BeginBlock leaves an empty list exactly
\* when the counter is behind the scrollback.
LEMMA BeginIs ==
  ASSUME BInv, NEW h, HighAfter(h), NEW run, NEW c
  PROVE  LET bs == BeginBlock(CursorRow)
         IN  /\ ListOK(bs, run, c, h) /\ Idle(bs) /\ Len(bs) <= MaxBlocks
             /\ CounterBehind(grid) => bs = <<>>
             /\ ~CounterBehind(grid) => bs # <<>> /\ Last(bs) = NewBlock(CursorRow)
<1> DEFINE row == CursorRow  e == Ended(row)  nb == NewBlock(row)  o == Oldest(grid)
           a == Append(e, nb)  t == TrimBlocks(a, o)  u == Newest(t, MaxBlocks)
<1>1. BeginBlock(row) = u
  BY DEF BeginBlock, Ended
<1>2. ListOK(e, run, c, h) /\ Idle(e)
  BY EndedIs
<1>3. row \in RowId /\ row \in Nat /\ grid.total <= row /\ grid.total \in Nat /\ Limit \in Nat
  BY CursorIs
<1>4. nb \in Block /\ StatusOK(nb) /\ ~nb.running /\ ~nb.hasOutput /\ nb.prompt = row
          /\ LastRow(nb) = row
  BY <1>3, NewBlockIs
<1>5. /\ o \in Int
      /\ CounterBehind(grid) => o >= Limit
      /\ ~CounterBehind(grid) => o <= grid.total
  BY OldestIs
<1>h. h \in Nat /\ (h # Unordered => h = row)
  <2>1. /\ h \in Nat /\ high \in Nat
        /\ high # Unordered => h >= high /\ (h # Unordered => h = CursorRow)
        /\ high = Unordered => h = Unordered
    BY HighIs
  <2> QED
    BY <2>1
<1> HIDE DEF row, e, nb, o, t, u
<1>6. /\ e \in Seq(Block) /\ Len(e) \in Nat /\ a \in Seq(Block) /\ Len(a) = Len(e) + 1
      /\ a[Len(a)] = nb
      /\ \A i \in 1 .. Len(e) : a[i] = e[i]
  BY <1>2, <1>4 DEF ListOK
<1> HIDE DEF a
<1>7. \A i \in 1 .. Len(a) : i = Len(a) \/ i \in 1 .. Len(e)
  BY <1>6
<1>8. Idle(a) /\ \A i \in 1 .. Len(a) : StatusOK(a[i])
  BY <1>2, <1>4, <1>6, <1>7 DEF Idle, ListOK
<1>9. Below(a, h)
  <2>1. SUFFICES ASSUME h # Unordered PROVE Below(a, h)
    BY DEF Below
  <2>2. h = row
    BY <1>h, <2>1
  <2>3. /\ \A i \in 1 .. Len(e) : e[i].prompt <= h /\ (e[i].hasOutput => e[i].last < h)
        /\ \A i, j \in 1 .. Len(e) : i < j => e[i].prompt <= e[j].prompt
             /\ (e[i].hasOutput => e[i].last < e[j].prompt)
    BY <1>2, <2>1 DEF ListOK, Below
  <2>4. \A i \in 1 .. Len(a) : a[i].prompt <= h /\ (a[i].hasOutput => a[i].last < h)
    BY <1>3, <1>4, <1>6, <1>7, <2>2, <2>3
  <2>5. \A i, j \in 1 .. Len(a) : i < j => a[i].prompt <= a[j].prompt
            /\ (a[i].hasOutput => a[i].last < a[j].prompt)
    <3> SUFFICES ASSUME NEW i \in 1 .. Len(a), NEW j \in 1 .. Len(a), i < j
                 PROVE  a[i].prompt <= a[j].prompt /\ (a[i].hasOutput => a[i].last < a[j].prompt)
      OBVIOUS
    <3>1. i \in 1 .. Len(e) /\ a[i] = e[i]
      BY <1>6
    <3>2. CASE j = Len(a)
      BY <1>4, <1>6, <2>2, <2>3, <3>1, <3>2
    <3>3. CASE j \in 1 .. Len(e)
      BY <1>6, <2>3, <3>1, <3>3
    <3> QED
      BY <1>7, <3>2, <3>3
  <2> QED
    BY <2>4, <2>5 DEF Below
<1>10. ListOK(a, run, c, h)
  BY <1>6, <1>8, <1>9 DEF ListOK, RunsLast, Idle
<1>11. /\ t \in Seq(Block)
       /\ \E f : /\ Picks(a, t, f)
                 /\ \A i \in 1 .. Len(a) : LastRow(a[i]) >= o <=> \E k \in 1 .. Len(t) : f[k] = i
  BY <1>5, <1>6, TrimIs DEF t
<1>12. PICK f : /\ Picks(a, t, f)
                /\ \A i \in 1 .. Len(a) : LastRow(a[i]) >= o <=> \E k \in 1 .. Len(t) : f[k] = i
  BY <1>11
<1>13. /\ \A k \in 1 .. Len(t) : f[k] \in 1 .. Len(a) /\ t[k] = a[f[k]]
       /\ \A k, l \in 1 .. Len(t) : k < l => f[k] < f[l]
  BY <1>12 DEF Picks
<1>14. ListOK(t, run, c, h)
  BY <1>10, <1>11, <1>12, PickedOK
<1>15. Idle(t)
  BY <1>8, <1>13 DEF Idle
<1>16. ASSUME CounterBehind(grid) PROVE t = <<>>
  <2>1. \A i \in 1 .. Len(a) : ~(LastRow(a[i]) >= o)
    <3> TAKE i \in 1 .. Len(a)
    <3>1. LastRow(a[i]) \in RowId
      BY <1>6, LastRowIs
    <3>2. PICK r \in Int : r = LastRow(a[i]) /\ r < Limit
      BY <3>1, RowIdIs
    <3> QED
      BY <1>3, <1>5, <1>16, <3>2
  <2>2. Len(t) \notin 1 .. Len(t)
    BY <1>12, <1>13, <2>1
  <2> QED
    BY <1>11, <2>2, EmptySeq, LenProperties
<1>17. ASSUME ~CounterBehind(grid) PROVE t # <<>> /\ Last(t) = nb
  <2>1. LastRow(a[Len(a)]) >= o /\ Len(a) \in 1 .. Len(a)
    BY <1>3, <1>4, <1>5, <1>6, <1>17
  <2>2. PICK k \in 1 .. Len(t) : f[k] = Len(a)
    BY <1>12, <2>1
  <2>3. Len(t) \in Nat
    BY <1>11
  <2>4. ~(k < Len(t))
    <3>1. SUFFICES ASSUME k < Len(t) PROVE FALSE
      OBVIOUS
    <3>2. Len(t) \in 1 .. Len(t)
      BY <2>3, <3>1
    <3>3. f[k] < f[Len(t)] /\ f[Len(t)] \in 1 .. Len(a)
      BY <1>13, <3>1, <3>2
    <3> QED
      BY <1>6, <2>2, <3>3
  <2>5. k = Len(t)
    BY <2>3, <2>4
  <2>6. t[Len(t)] = nb
    BY <1>6, <1>13, <2>2, <2>5
  <2>7. t # <<>>
    BY <2>2
  <2> QED
    BY <2>6, <2>7 DEF Last
<1>18. /\ u \in Seq(Block) /\ Len(u) <= MaxBlocks /\ \E g : Picks(t, u, g)
       /\ t = <<>> => u = <<>>
       /\ t # <<>> => u # <<>> /\ Last(u) = Last(t)
  <2>1. MaxBlocks \in Nat \ {0}
    BY TerminalAssumption
  <2> QED
    BY <1>11, <2>1, NewestPicks DEF u
<1>19. PICK g : Picks(t, u, g)
  BY <1>18
<1>20. ListOK(u, run, c, h)
  BY <1>14, <1>18, <1>19, PickedOK
<1>21. Idle(u)
  BY <1>15, <1>19 DEF Idle, Picks
<1> QED
  BY <1>1, <1>16, <1>17, <1>18, <1>20, <1>21 DEF row, nb

LEMMA OpenedIs ==
  ASSUME BInv, NEW h, HighAfter(h), OpenedAt(CursorRow) # <<>>
  PROVE  LET bs == OpenedAt(CursorRow)
         IN  /\ ListOK(bs, runningBlockId, cmds, h) /\ Last(bs) \in Block /\ Last(bs) = bs[Len(bs)]
             /\ Len(bs) \in Nat \ {0}
             /\ ~Last(bs).hasExit /\ Last(bs).id \in Nat
<1> DEFINE bs == OpenedAt(CursorRow)
<1>1. ListOK(bs, runningBlockId, cmds, h) /\ ~Last(bs).hasExit
  <2>1. CASE HasOpenBlock(blocks)
    <3>1. /\ h \in Nat /\ high \in Nat
          /\ high # Unordered => h >= high /\ (h # Unordered => h = CursorRow)
          /\ high = Unordered => h = Unordered
      BY HighIs
    <3>2. ListOK(blocks, runningBlockId, cmds, high)
      BY DEF BInv, ShellOK
    <3>3. ListOK(blocks, runningBlockId, cmds, h)
      BY <3>1, <3>2, BelowLater
    <3> QED
      BY <2>1, <3>3 DEF OpenedAt, HasOpenBlock
  <2>2. CASE ~HasOpenBlock(blocks)
    <3>1. bs = BeginBlock(CursorRow)
      BY <2>2 DEF OpenedAt
    <3>2. ListOK(bs, runningBlockId, cmds, h) /\ Last(bs) = NewBlock(CursorRow)
      BY <3>1, BeginIs
    <3>3. ~NewBlock(CursorRow).hasExit
      BY DEF NewBlock
    <3> QED
      BY <3>2, <3>3
  <2> QED
    BY <2>1, <2>2
<1>2. bs \in Seq(Block)
  BY <1>1 DEF ListOK
<1>3. Len(bs) \in Nat /\ Len(bs) >= 1 /\ Last(bs) = bs[Len(bs)] /\ Last(bs) \in Block
  BY <1>2, LastIs
<1>4. BlockShape(Last(bs))
  BY <1>3, BlockIs
<1> QED
  BY <1>1, <1>3, <1>4 DEF BlockShape

----------------------------------------------------------------------------
(* The marks.                                                              *)

\* A mark keeps the history of the rows marked.
LEMMA MarkHigh ==
  ASSUME BInv, Mark PROVE HighAfter(high') /\ high' \in RowId \cup {Unordered} /\ high' \in Nat
      /\ undefined \in BOOLEAN
<1>1. HighAfter(high')
  BY DEF Mark, HighAfter
<1> QED
  BY <1>1, HighIs DEF BInv, ShellOK

\* Each mark keeps the session's part of the invariant.
LEMMA MarkPromptStep == ASSUME BInv, MarkPrompt PROVE ShellOK'
<1>1. HighAfter(high') /\ high' \in RowId \cup {Unordered}
  BY MarkHigh DEF MarkPrompt
<1>2. ListOK(blocks', runningBlockId, cmds, high')
  BY <1>1, BeginIs DEF MarkPrompt
<1>3. UNCHANGED <<runningBlockId, outputStartRow, cmdRunning, pendingCmd, notifyRunning, journal,
          cmds, undefined>>
      /\ nextBlockId' = nextBlockId + 1
  BY DEF MarkPrompt
<1> QED
  BY <1>1, <1>2, <1>3 DEF BInv, ShellOK, Filed

\* Block numbers count up.
LEMMA CountIs == ASSUME nextBlockId \in Nat \ {0}, CountBlock PROVE nextBlockId' \in Nat \ {0}
  BY DEF CountBlock

LEMMA MarkInputStep == ASSUME BInv, MarkInput PROVE ShellOK'
<1>1. HighAfter(high') /\ high' \in RowId \cup {Unordered} /\ high' \in Nat
  BY MarkHigh DEF MarkInput
<1> DEFINE bs == OpenedAt(CursorRow)  b == Last(bs)  d == [b EXCEPT !.input = CursorRow]
<1>2. bs # <<>> /\ blocks' = WithLast(bs, d)
  BY DEF MarkInput
<1>3. /\ ListOK(bs, runningBlockId, cmds, high') /\ b \in Block /\ b = bs[Len(bs)]
      /\ Len(bs) \in Nat \ {0}
      /\ ~b.hasExit
  BY <1>1, <1>2, OpenedIs
<1> HIDE DEF bs
<1>4. BlockShape(b) /\ CursorRow \in RowId
  BY <1>3, BlockIs, CursorIs
<1>5. /\ BlockShape(d) /\ d.hasExit = b.hasExit /\ d.prompt = b.prompt /\ d.hasOutput = b.hasOutput
      /\ d.last = b.last
      /\ d.running = b.running /\ d.id = b.id /\ d.cmd = b.cmd
  BY <1>4 DEF BlockShape, IsBlock, BlockFields
<1>6. /\ b.running => b.id = runningBlockId /\ b.cmd = cmds /\ cmds # 0
      /\ high' # Unordered /\ b.hasOutput => b.last < high'
  BY <1>3 DEF ListOK, RunsLast, Below
<1>7. d \in Block /\ StatusOK(d)
  BY <1>3, <1>5, BlockIs DEF StatusOK
<1> HIDE DEF b, d
<1>8. ListOK(blocks', runningBlockId, cmds, high')
  <2>1. d.prompt = Last(bs).prompt
    BY <1>5 DEF b
  <2> QED
    BY <1>1, <1>2, <1>3, <1>5, <1>6, <1>7, <2>1, LastSet
<1>9. UNCHANGED <<runningBlockId, outputStartRow, cmdRunning, pendingCmd, notifyRunning, journal,
          cmds, undefined>>
      /\ nextBlockId' \in Nat \ {0}
  BY CountIs DEF MarkInput, BInv, ShellOK
<1> QED
  BY <1>1, <1>8, <1>9 DEF BInv, ShellOK, Filed

\* What a C mark sets whatever becomes of the block.
LEMMA StartsIs ==
  ASSUME BInv, StartsCommand
  PROVE  /\ cmds' = cmds + 1 /\ cmds' \in Nat /\ cmdRunning' \in BOOLEAN
         /\ outputStartRow' \in RowId
         /\ pendingCmd' \in 0 .. cmds' /\ notifyRunning' \in 0 .. cmds' /\ Filed'
         /\ nextBlockId' \in Nat \ {0}
<1>1. /\ cmds \in Nat /\ cmds' = cmds + 1 /\ pendingCmd' = cmds + 1 /\ cmdRunning' = TRUE
      /\ outputStartRow' = CursorRow
      /\ notifyRunning \in 0 .. cmds /\ notifyRunning' = notifyRunning /\ journal' = journal
      /\ Filed
      /\ nextBlockId' \in Nat \ {0}
  BY CountIs DEF StartsCommand, BInv, ShellOK
<1>2. CursorRow \in RowId
  BY CursorIs
<1>3. journal \in Seq(1 .. cmds + 1) /\ \A i \in 1 .. Len(journal) : journal[i] \in 1 .. cmds
  BY <1>1 DEF Filed
<1>4. \A i \in 1 .. Len(journal) : journal[i] # cmds + 1
  BY <1>1, <1>3
<1>5. Filed'
  BY <1>1, <1>3, <1>4 DEF Filed
<1> QED
  BY <1>1, <1>2, <1>5

LEMMA MarkOutputStep == ASSUME BInv, MarkOutput PROVE ShellOK'
<1>0. StartsCommand /\ Mark /\ undefined' = undefined /\ undefined \in BOOLEAN
  BY DEF MarkOutput, StartsCommand, BInv, ShellOK
<1>1. HighAfter(high') /\ high' \in RowId \cup {Unordered} /\ high' \in Nat
  BY <1>0, MarkHigh
<1> DEFINE bs == OpenedAt(CursorRow)  b == Last(bs)
           c == cmds + 1
           d == [b EXCEPT !.cmd = c, !.first = CursorRow, !.running = TRUE]
<1>2. bs # <<>> /\ blocks' = WithLast(bs, d) /\ runningBlockId' = b.id
  BY DEF MarkOutput
<1>3. /\ ListOK(bs, runningBlockId, cmds, high') /\ b \in Block /\ b = bs[Len(bs)]
      /\ Len(bs) \in Nat \ {0}
      /\ ~b.hasExit /\ b.id \in Nat
  BY <1>1, <1>2, OpenedIs
<1> HIDE DEF bs
<1>4. BlockShape(b) /\ CursorRow \in RowId /\ c \in Nat /\ c # 0
  BY <1>3, BlockIs, CursorIs DEF BInv, ShellOK
<1> HIDE DEF c
<1>5. /\ BlockShape(d) /\ d.hasExit = b.hasExit /\ d.prompt = b.prompt /\ d.hasOutput = b.hasOutput
      /\ d.last = b.last
      /\ d.id = b.id /\ d.cmd = c
  BY <1>4 DEF BlockShape, IsBlock, BlockFields
<1>6. high' # Unordered /\ b.hasOutput => b.last < high'
  BY <1>3 DEF ListOK, Below
<1>7. d \in Block /\ StatusOK(d)
  BY <1>3, <1>4, <1>5, BlockIs DEF StatusOK
<1> HIDE DEF b, d
<1>8. ListOK(blocks', runningBlockId', c, high')
  <2>1. d.prompt = Last(bs).prompt /\ (high' # Unordered /\ d.hasOutput => d.last < high')
        /\ (d.running => d.id = runningBlockId' /\ d.cmd = c /\ c # 0)
    BY <1>2, <1>4, <1>5, <1>6, <1>7 DEF b
  <2> QED
    BY <1>1, <1>2, <1>3, <1>7, <2>1, LastSet
<1>9. runningBlockId' \in Nat
  BY <1>2, <1>3
<1> QED
  BY <1>0, <1>1, <1>8, <1>9, StartsIs DEF ShellOK, c

\* An empty list is sound.
LEMMA NoBlocks == ASSUME NEW run, NEW c, NEW h PROVE ListOK(<<>>, run, c, h)
  BY DEF ListOK, RunsLast, Below

LEMMA MarkUndefinedStep == ASSUME BInv, MarkUndefined PROVE ShellOK'
<1>0. Mark /\ undefined' \in BOOLEAN /\ blocks' = <<>>
  BY DEF MarkUndefined, StartsCommand
<1>1. high' \in RowId \cup {Unordered}
  BY <1>0, MarkHigh
<1>2. ListOK(blocks', runningBlockId', cmds', high')
  BY <1>0, NoBlocks
<1>3. CASE /\ CountBlock
           /\ UNCHANGED <<runningBlockId, outputStartRow, cmdRunning, pendingCmd, notifyRunning,
                journal, cmds>>
  BY <1>0, <1>1, <1>2, <1>3, CountIs DEF BInv, ShellOK, Filed
<1>4. CASE StartsCommand /\ runningBlockId' \in 0 .. nextBlockId
  <2>1. runningBlockId' \in Nat
    BY <1>4
  <2> QED
    BY <1>0, <1>1, <1>2, <1>4, <2>1, StartsIs DEF ShellOK
<1> QED
  BY <1>3, <1>4 DEF MarkUndefined

\* A command is filed once: it is pending no longer.
LEMMA FileIs ==
  ASSUME ShellOK, File, PendingFiled, UNCHANGED cmds PROVE Filed' /\ pendingCmd' \in 0 .. cmds'
<1>1. cmds \in Nat /\ pendingCmd \in 0 .. cmds /\ Filed /\ pendingCmd' = 0 /\ cmds' = cmds
  BY DEF ShellOK, PendingFiled
<1>2. journal \in Seq(1 .. cmds) /\ Len(journal) \in Nat
          /\ \A i \in 1 .. Len(journal) : journal[i] \in 1 .. cmds
  BY <1>1 DEF Filed
<1>3. CASE pendingCmd = 0
  BY <1>1, <1>2, <1>3 DEF File, Filed
<1>4. CASE pendingCmd # 0
  <2>1. journal' = Append(journal, pendingCmd) /\ pendingCmd \in 1 .. cmds
    BY <1>1, <1>4 DEF File
  <2>2. /\ journal' \in Seq(1 .. cmds) /\ Len(journal') = Len(journal) + 1
        /\ journal'[Len(journal) + 1] = pendingCmd
        /\ \A i \in 1 .. Len(journal) : journal'[i] = journal[i]
    BY <1>2, <2>1
  <2>3. \A i \in 1 .. Len(journal') : i = Len(journal) + 1 \/ i \in 1 .. Len(journal)
    BY <1>2, <2>2
  <2>4. \A i, j \in 1 .. Len(journal') : journal'[i] = journal'[j] => i = j
    BY <1>1, <1>2, <2>2, <2>3 DEF Filed
  <2>5. \A i \in 1 .. Len(journal') : journal'[i] # pendingCmd'
    BY <1>1, <2>2
  <2> QED
    BY <1>1, <2>2, <2>4, <2>5 DEF Filed
<1> QED
  BY <1>3, <1>4

\* A D mark ends the block that runs, with the status of the command it runs.
LEMMA NoteExitIs ==
  ASSUME BInv, NEW b \in Block, b.cmd = cmds, cmds # 0, NEW hasCode \in BOOLEAN
  PROVE  LET d == NoteExit(b, hasCode)
         IN  /\ d \in Block /\ StatusOK(d) /\ ~d.running /\ d.prompt = b.prompt
             /\ d.hasOutput => d.last = CursorRow - 1
<1> DEFINE e == [b EXCEPT !.running = FALSE, !.hasExit = hasCode, !.exitOf = IF hasCode THEN cmds
        ELSE 0]
           d == NoteExit(b, hasCode)
<1>1. BlockShape(b) /\ cmds \in Nat /\ outputStartRow \in RowId /\ CursorRow \in RowId
  BY BlockIs, CursorIs DEF BInv, ShellOK
<1>2. /\ BlockShape(e) /\ e.running = FALSE /\ e.hasExit = hasCode
      /\ e.exitOf = (IF hasCode THEN cmds ELSE 0)
      /\ e.cmd = b.cmd /\ e.prompt = b.prompt
  BY <1>1 DEF BlockShape, IsBlock, BlockFields
<1>3. CASE outputStartRow > 0 /\ CursorRow > outputStartRow /\ ~grid.altActive
  <2>1. d = [e EXCEPT !.first = outputStartRow, !.last = CursorRow - 1, !.hasOutput = TRUE]
    BY <1>3 DEF NoteExit
  <2> HIDE DEF e, d
  <2>2. CursorRow - 1 \in RowId
    BY <1>1, <1>3, RowIdIs
  <2>3. /\ BlockShape(d) /\ d.running = FALSE /\ d.hasExit = e.hasExit /\ d.exitOf = e.exitOf
        /\ d.cmd = e.cmd /\ d.prompt = e.prompt /\ d.last = CursorRow - 1
    BY <1>1, <1>2, <2>1, <2>2 DEF BlockShape, IsBlock, BlockFields
  <2> QED
    BY <1>2, <2>3, BlockIs DEF StatusOK, d
<1>4. CASE ~(outputStartRow > 0 /\ CursorRow > outputStartRow /\ ~grid.altActive)
  <2>1. d = [e EXCEPT !.hasOutput = FALSE]
    BY <1>4 DEF NoteExit
  <2> HIDE DEF e, d
  <2>2. /\ BlockShape(d) /\ d.running = FALSE /\ d.hasExit = e.hasExit /\ d.exitOf = e.exitOf
        /\ d.cmd = e.cmd /\ d.prompt = e.prompt /\ d.hasOutput = FALSE
    BY <1>1, <1>2, <2>1 DEF BlockShape, IsBlock, BlockFields
  <2> QED
    BY <1>2, <2>2, BlockIs DEF StatusOK, d
<1> QED
  BY <1>3, <1>4

LEMMA MarkExitStep == ASSUME BInv, NEW hasCode \in BOOLEAN, MarkExit(hasCode) PROVE ShellOK'
<1>0. /\ Mark /\ cmdRunning' = FALSE /\ runningBlockId' = 0 /\ outputStartRow' = 0 /\ File
      /\ PendingFiled
      /\ UNCHANGED <<nextBlockId, cmds, undefined>>
  BY DEF MarkExit
<1>1. /\ HighAfter(high') /\ high' \in RowId \cup {Unordered} /\ high' \in Nat /\ high \in Nat
      /\ high # Unordered => high' >= high /\ (high' # Unordered => high' = CursorRow)
      /\ high = Unordered => high' = Unordered
  <2>1. HighAfter(high') /\ high' \in RowId \cup {Unordered}
    BY <1>0, MarkHigh
  <2> QED
    BY <2>1, HighIs
<1>2. ListOK(blocks, runningBlockId, cmds, high) /\ blocks \in Seq(Block) /\ 0 \in RowId
  BY CursorIs DEF BInv, ShellOK, ListOK
<1>3. ListOK(blocks, runningBlockId, cmds, high')
  BY <1>1, <1>2, BelowLater
<1>4. ListOK(blocks', 0, cmds, high') /\ notifyRunning' \in 0 .. cmds
  <2>1. CASE HasOpenBlock(blocks) /\ Ends(Last(blocks), hasCode)
    <3> DEFINE b == Last(blocks)  d == NoteExit(b, hasCode)
    <3>1. blocks # <<>> /\ b.running
      BY <2>1 DEF HasOpenBlock, Ends
    <3>2. Len(blocks) \in Nat /\ Len(blocks) >= 1 /\ b = blocks[Len(blocks)] /\ b \in Block
      BY <1>2, <3>1, LastIs
    <3>3. b.cmd = cmds /\ cmds # 0 /\ cmds \in Nat
      BY <1>2, <3>1, <3>2 DEF ListOK, RunsLast, BInv, ShellOK
    <3> HIDE DEF b
    <3>4. d \in Block /\ StatusOK(d) /\ ~d.running /\ d.prompt = b.prompt
              /\ (d.hasOutput => d.last = CursorRow - 1)
      BY <3>2, <3>3, NoteExitIs
    <3>5. blocks' = WithLast(blocks, d) /\ notifyRunning' = 0
      BY <2>1 DEF MarkExit, EndedBy, b
    <3> HIDE DEF d
    <3>6. high' # Unordered /\ d.hasOutput => d.last < high'
      BY <1>1, <3>4
    <3>7. ListOK(WithLast(blocks, d), 0, cmds, high')
      BY <1>1, <1>3, <3>1, <3>4, <3>6, LastSet DEF b
    <3> QED
      BY <3>3, <3>5, <3>7
  <2>2. CASE ~(HasOpenBlock(blocks) /\ Ends(Last(blocks), hasCode))
    <3>1. blocks' = blocks /\ notifyRunning' = notifyRunning
      BY <2>2 DEF MarkExit
    <3>2. Idle(blocks)
      <4> SUFFICES ASSUME NEW i \in 1 .. Len(blocks), blocks[i].running PROVE FALSE
        BY DEF Idle
      <4>1. blocks # <<>>
        BY <1>2
      <4>2. i = Len(blocks) /\ Last(blocks) = blocks[Len(blocks)]
        BY <1>2, <4>1, LastIs DEF ListOK, RunsLast
      <4>3. blocks[i].hasExit
        BY <2>2, <4>1, <4>2 DEF HasOpenBlock, Ends
      <4> QED
        BY <1>2, <4>3 DEF ListOK, StatusOK
    <3> QED
      BY <1>3, <3>1, <3>2 DEF ListOK, RunsLast, Idle, BInv, ShellOK
  <2> QED
    BY <2>1, <2>2
<1>5. Filed' /\ pendingCmd' \in 0 .. cmds'
  BY <1>0, FileIs DEF BInv
<1> QED
  BY <1>0, <1>1, <1>2, <1>4, <1>5 DEF BInv, ShellOK

----------------------------------------------------------------------------
(* Frames, the user and the rest.                                          *)

\* What leaves the session leaves its invariant.
LEMMA NoMark == ASSUME ShellOK, UNCHANGED <<shell, undefined>> PROVE ShellOK'
  BY DEF ShellOK, shell, Filed

\* A drop of the link files the command that ran.
LEMMA InterruptedStep == ASSUME BInv, NoteInterruptedCommand PROVE ShellOK'
<1>1. /\ cmdRunning' = FALSE /\ outputStartRow' = 0 /\ File /\ PendingFiled
      /\ UNCHANGED <<blocks, nextBlockId, runningBlockId, notifyRunning, cmds, high, undefined>>
  BY DEF NoteInterruptedCommand
<1>2. 0 \in RowId
  BY CursorIs
<1>3. Filed' /\ pendingCmd' \in 0 .. cmds'
  BY <1>1, FileIs DEF BInv
<1> QED
  BY <1>1, <1>2, <1>3 DEF BInv, ShellOK

\* A trim leaves the list sound.
LEMMA TrimmedOK ==
  ASSUME NEW bs, NEW run, NEW c, NEW h, ListOK(bs, run, c, h), NEW o \in Int
  PROVE ListOK(TrimBlocks(bs, o), run, c, h)
<1> DEFINE t == TrimBlocks(bs, o)
<1>1. bs \in Seq(Block)
  BY DEF ListOK
<1>2. t \in Seq(Block) /\ \E e : Picks(bs, t, e)
  BY <1>1, TrimIs
<1> HIDE DEF t
<1> QED
  BY <1>2, PickedOK DEF t

\* So does a change of flags.
LEMMA FlagsOK ==
  ASSUME NEW t, Len(blocks) \in Nat, t = [i \in DOMAIN blocks |-> t[i]],
      ListOK(blocks, runningBlockId, cmds, high),
         \A i \in DOMAIN blocks : t[i] \in Block /\ Alike(blocks[i], t[i])
  PROVE  ListOK(t, runningBlockId, cmds, high) /\ Len(t) = Len(blocks)
<1>1. blocks \in Seq(Block) /\ DOMAIN blocks = 1 .. Len(blocks)
  BY DEF ListOK
<1>2. t \in Seq(Block) /\ Len(t) = Len(blocks)
  BY <1>1
<1> QED
  BY <1>1, <1>2, AlikeOK

\* What a frame leaves of a sound list is sound.
LEMMA FrameLeaves ==
  ASSUME BInv, NEW bs, ListOK(bs, runningBlockId, cmds, high), FrameShell(bs)
  PROVE  /\ ListOK(blocks', runningBlockId', cmds, high)
         /\ runningBlockId' \in Nat /\ outputStartRow' \in RowId /\ notifyRunning' \in 0 .. cmds
<1>1. Oldest(grid) \in Int /\ 0 \in RowId /\ cmds \in Nat /\ 0 \in 0 .. cmds
  BY OldestIs, CursorIs DEF BInv, ShellOK
<1>2. CASE CounterRestarted
  <2>1. blocks' = TrimBlocks(<<>>, Oldest(grid)) /\ runningBlockId' = 0 /\ outputStartRow' = 0
            /\ notifyRunning' = 0
    BY <1>2 DEF FrameShell, Framed
  <2> QED
    BY <1>1, <2>1, NoBlocks, TrimmedOK
<1>3. CASE ~CounterRestarted
  <2>1. blocks' = TrimBlocks(bs, Oldest(grid))
            /\ UNCHANGED <<runningBlockId, outputStartRow, notifyRunning>>
    BY <1>3 DEF FrameShell, Framed
  <2> QED
    BY <1>1, <2>1, TrimmedOK DEF BInv, ShellOK
<1> QED
  BY <1>2, <1>3

\* So a frame keeps the invariant.
LEMMA FrameStep == ASSUME BInv, Frame PROVE ShellOK'
<1>1. FrameShell(blocks) /\ UNCHANGED <<nextBlockId, cmdRunning, pendingCmd, journal, cmds, high,
          undefined>>
  BY DEF Frame
<1>2. ListOK(blocks, runningBlockId, cmds, high)
  BY DEF BInv, ShellOK
<1> QED
  BY <1>1, <1>2, FrameLeaves DEF BInv, ShellOK, Filed

\* So does a row revealed, which unfolds and ends in a frame.
LEMMA RevealBlocksStep == ASSUME BInv, NEW id, Reveal(id) PROVE ShellOK'
<1> DEFINE bs == [i \in DOMAIN blocks |-> IF Hides(blocks[i], id)
        THEN [blocks[i] EXCEPT !.collapsed = FALSE] ELSE blocks[i]]
<1>1. FrameShell(bs) /\ UNCHANGED <<nextBlockId, cmdRunning, pendingCmd, journal, cmds, high,
          undefined>>
  BY DEF Reveal
<1>2. blocks \in Seq(Block) /\ ListOK(blocks, runningBlockId, cmds, high)
  BY DEF BInv, ShellOK, ListOK
<1>3. \A i \in DOMAIN blocks : bs[i] \in Block /\ Alike(blocks[i], bs[i])
  <2> TAKE i \in DOMAIN blocks
  <2>1. blocks[i] \in Block /\ bs[i] \in {[blocks[i] EXCEPT !.collapsed = FALSE], blocks[i]}
    BY <1>2
  <2> QED
    BY <2>1, FlagSet
<1>4. bs = [i \in DOMAIN blocks |-> bs[i]] /\ Len(blocks) \in Nat
  BY <1>2
<1> HIDE DEF bs
<1>5. ListOK(bs, runningBlockId, cmds, high)
  BY <1>2, <1>3, <1>4, FlagsOK
<1> QED
  BY <1>1, <1>5, FrameLeaves DEF BInv, ShellOK, Filed

\* A step that only folds or marks old keeps it.
LEMMA FlagsStep ==
  ASSUME BInv, NEW t, t = [i \in DOMAIN blocks |-> t[i]],
         \A i \in DOMAIN blocks : t[i] \in Block /\ Alike(blocks[i], t[i]), blocks' = t,
         UNCHANGED <<nextBlockId, runningBlockId, outputStartRow, cmdRunning, pendingCmd,
             notifyRunning, journal, cmds, high, undefined>>
  PROVE  ShellOK'
<1>1. blocks \in Seq(Block) /\ ListOK(blocks, runningBlockId, cmds, high) /\ Len(blocks) \in Nat
  BY DEF BInv, ShellOK, ListOK
<1>2. ListOK(t, runningBlockId, cmds, high)
  BY <1>1, FlagsOK
<1> QED
  BY <1>2 DEF BInv, ShellOK, Filed

\* The user's changes keep it.
LEMMA FoldStep == ASSUME BInv, Fold PROVE ShellOK'
<1>1. PICK k \in DOMAIN blocks : User([blocks EXCEPT ![k].collapsed = ~@])
  BY DEF Fold
<1> DEFINE t == [blocks EXCEPT ![k].collapsed = ~@]
<1>2. blocks \in Seq(Block) /\ k \in 1 .. Len(blocks) /\ blocks[k] \in Block
  BY DEF BInv, ShellOK, ListOK
<1>3. t[k] = [blocks[k] EXCEPT !.collapsed = ~blocks[k].collapsed]
          /\ \A i \in DOMAIN blocks : i # k => t[i] = blocks[i]
  BY <1>2
<1>4. \A i \in DOMAIN blocks : blocks[i] \in Block
  BY <1>2
<1>5. \A i \in DOMAIN blocks : t[i] \in Block /\ Alike(blocks[i], t[i])
  BY <1>2, <1>3, <1>4, FlagSet
<1>6. t = [i \in DOMAIN blocks |-> t[i]]
  BY <1>2
<1>7. blocks' = t
  BY <1>1 DEF User
<1>8. UNCHANGED <<nextBlockId, runningBlockId, outputStartRow, cmdRunning, pendingCmd,
          notifyRunning, journal, cmds, high, undefined>>
  BY <1>1 DEF User, Fold
<1> HIDE DEF t
<1> QED
  BY <1>5, <1>6, <1>7, <1>8, FlagsStep

LEMMA FoldAllBlocksStep == ASSUME BInv, FoldAll PROVE ShellOK'
<1>1. PICK c \in BOOLEAN : User([i \in DOMAIN blocks |-> IF blocks[i].hasOutput
          THEN [blocks[i] EXCEPT !.collapsed = c] ELSE blocks[i]])
  BY DEF FoldAll
<1> DEFINE t == [i \in DOMAIN blocks |-> IF blocks[i].hasOutput
        THEN [blocks[i] EXCEPT !.collapsed = c] ELSE blocks[i]]
<1>2. \A i \in DOMAIN blocks : blocks[i] \in Block
  BY DEF BInv, ShellOK, ListOK
<1>3. \A i \in DOMAIN blocks : t[i] \in Block /\ Alike(blocks[i], t[i])
  BY <1>2, FlagSet
<1>4. t = [i \in DOMAIN blocks |-> t[i]]
  OBVIOUS
<1>5. blocks' = t
  BY <1>1 DEF User
<1>6. UNCHANGED <<nextBlockId, runningBlockId, outputStartRow, cmdRunning, pendingCmd,
          notifyRunning, journal, cmds, high, undefined>>
  BY <1>1 DEF User, FoldAll
<1> HIDE DEF t
<1> QED
  BY <1>3, <1>4, <1>5, <1>6, FlagsStep

LEMMA ResetBlocksStep == ASSUME BInv, Reset PROVE ShellOK'
<1> DEFINE t == [i \in DOMAIN blocks |-> [blocks[i] EXCEPT !.old = TRUE]]
<1>1. \A i \in DOMAIN blocks : blocks[i] \in Block
  BY DEF BInv, ShellOK, ListOK
<1>2. \A i \in DOMAIN blocks : t[i] \in Block /\ Alike(blocks[i], t[i])
  BY <1>1, FlagSet
<1>3. t = [i \in DOMAIN blocks |-> t[i]]
  OBVIOUS
<1>4. blocks' = t
  BY DEF Reset
<1>5. UNCHANGED <<nextBlockId, runningBlockId, outputStartRow, cmdRunning, pendingCmd,
          notifyRunning, journal, cmds, high, undefined>>
  BY DEF Reset
<1> HIDE DEF t
<1> QED
  BY <1>2, <1>3, <1>4, <1>5, FlagsStep

LEMMA NotifyStep == ASSUME BInv, AskToNotify PROVE ShellOK'
<1>1. /\ blocks' = blocks /\ notifyRunning' \in {0, cmds} /\ cmds \in Nat
      /\ UNCHANGED <<nextBlockId, runningBlockId, outputStartRow, cmdRunning, pendingCmd, journal,
           cmds, high, undefined>>
  BY DEF AskToNotify, User, BInv, ShellOK
<1>2. notifyRunning' \in 0 .. cmds
  BY <1>1
<1> QED
  BY <1>1, <1>2 DEF BInv, ShellOK, Filed

\* Every step keeps the session's part.
LEMMA ShellStep == ASSUME BInv, [Next]_vars PROVE ShellOK'
<1>0. ShellOK
  BY DEF BInv
<1>1. CASE PrintChar \/ MoveTo \/ Erase \/ ShiftChars \/ ShiftLines \/ SetMargins \/ IndexUp
          \/ SaveOrRestore \/ AltScreen \/ NewLine
  <2>1. UNCHANGED <<shell, undefined>>
    BY <1>1 DEF PrintChar, MoveTo, Erase, ShiftChars, ShiftLines, SetMargins, IndexUp,
        SaveOrRestore, AltScreen, NewLine, Edit
  <2> QED
    BY <1>0, <2>1, NoMark
<1>2. CASE ResizeTo \/ ClearScrollback \/ Scroll \/ UNCHANGED vars
  <2>1. UNCHANGED <<shell, undefined>>
    BY <1>2 DEF ResizeTo, ClearScrollback, Scroll, User, shell, vars
  <2> QED
    BY <1>0, <2>1, NoMark
<1>3. CASE MarkPrompt \/ MarkInput \/ MarkOutput \/ MarkUndefined
          \/ \E hasCode \in BOOLEAN : MarkExit(hasCode)
  BY <1>3, MarkPromptStep, MarkInputStep, MarkOutputStep, MarkUndefinedStep, MarkExitStep
<1>4. CASE Reset \/ NoteInterruptedCommand \/ Frame \/ (\E id \in RowsNamed : Reveal(id)) \/ Fold
          \/ FoldAll \/ AskToNotify
  BY <1>4, ResetBlocksStep, InterruptedStep, FrameStep, RevealBlocksStep, FoldStep,
      FoldAllBlocksStep, NotifyStep
<1> QED
  BY <1>1, <1>2, <1>3, <1>4 DEF Next

----------------------------------------------------------------------------
(* The counter of lines stays away from where it wraps.                    *)

\* What a step costs covers what it adds to the counter.
LEMMA Spent ==
  ASSUME BudgetOK, NEW what \in {"edits", "lines", "marks", "resets", "user"}, Spend(what),
         grid.total \in Nat, grid'.total \in Nat,
         grid'.total <= grid.total \/ (what \in {"edits", "lines"} /\ grid'.total <= grid.total + 1)
  PROVE  BudgetOK'
<1>1. /\ budget \in Budgets /\ budget' = [budget EXCEPT ![what] = @ - 1] /\ budget[what] > 0
  BY DEF BudgetOK, Spend
<1>2. budget' \in Budgets /\ budget'[what] = budget[what] - 1
  BY <1>1 DEF Budgets
<1>3. /\ budget.edits \in Nat /\ budget.lines \in Nat /\ budget'.edits \in Nat
      /\ budget'.lines \in Nat
      /\ budget'.edits <= budget.edits /\ budget'.lines <= budget.lines
      /\ what \in {"edits", "lines"} => budget'.edits + budget'.lines
           = budget.edits + budget.lines - 1
  BY <1>1 DEF Budgets
<1>4. grid'.total + budget'.edits + budget'.lines <= grid.total + budget.edits + budget.lines
  BY <1>3
<1>5. FitsIn(grid', budget')
  <2> SUFFICES ASSUME NEW h \in Heights
               PROVE  grid'.total + budget'.edits + budget'.lines + 2 * h + ScrollbackMax < RowIds
    BY DEF FitsIn
  <2>1. grid.total + budget.edits + budget.lines + 2 * h + ScrollbackMax < RowIds
    BY DEF BudgetOK, FitsIn
  <2> QED
    BY <1>3, <1>4, <2>1, HeightsAre, GridAssumption
<1> QED
  BY <1>2, <1>5 DEF BudgetOK

\* Every step keeps the counter away from where it wraps.
LEMMA BudgetStep == ASSUME BInv, [Next]_vars PROVE BudgetOK'
<1>1. GridStep /\ Shape(grid) /\ BudgetOK
  BY EveryStep DEF BInv, GInv
<1>2. grid.total \in Nat /\ grid'.total \in Nat /\ grid'.total <= grid.total + 1
  <2>1. Shape(grid')
    BY <1>1 DEF GridStep, GInv, Shape, IsGrid, SizeOK
  <2>2. grid.total \in Nat /\ grid'.total \in Nat /\ grid'.total \in {0, grid.total, grid.total + 1}
    BY <1>1, <2>1, Numbers DEF GridStep
  <2> QED
    BY <2>2
<1>3. CASE PrintChar \/ MoveTo \/ Erase \/ ShiftChars \/ ShiftLines \/ SetMargins \/ IndexUp
          \/ SaveOrRestore \/ AltScreen
  <2>1. Spend("edits")
    BY <1>3 DEF PrintChar, MoveTo, Erase, ShiftChars, ShiftLines, SetMargins, IndexUp,
        SaveOrRestore, AltScreen, Edit
  <2> QED
    BY <1>1, <1>2, <2>1, Spent
<1>4. CASE NewLine
  BY <1>1, <1>2, <1>4, Spent DEF NewLine
<1>5. CASE Reset
  <2>1. Spend("resets") /\ grid' = ResetAll(grid)
    BY <1>5 DEF Reset, Becomes
  <2>2. grid'.total = 0
    BY <1>1, <2>1, ResetAllIs
  <2> QED
    BY <1>1, <1>2, <2>1, <2>2, Spent
<1>6. CASE MarkPrompt \/ MarkInput \/ MarkOutput \/ MarkUndefined
          \/ \E hasCode \in BOOLEAN : MarkExit(hasCode)
  <2>1. Spend("marks") /\ grid' = grid
    BY <1>6 DEF MarkPrompt, MarkInput, MarkOutput, MarkUndefined, MarkExit, StartsCommand, Mark
  <2> QED
    BY <1>1, <1>2, <2>1, Spent
<1>7. CASE Fold \/ AskToNotify
  <2>1. Spend("user") /\ grid' = grid
    BY <1>7 DEF Fold, AskToNotify, User
  <2> QED
    BY <1>1, <1>2, <2>1, Spent
<1>8. CASE FoldAll \/ ResizeTo \/ ClearScrollback \/ Scroll \/ \E id \in RowsNamed : Reveal(id)
  <2>1. Spend("user")
    BY <1>8 DEF FoldAll, ResizeTo, ClearScrollback, Scroll, Reveal, User
  <2>2. grid'.total = grid.total
    <3>1. \A back : SetView(grid, back).total = grid.total
      BY <1>1 DEF SetView, Shape, IsGrid, Fields
    <3>2. \A d \in Int : ScrollView(grid, d).total = grid.total
      BY <3>1 DEF ScrollView
    <3>3. SetScrollbackMax(grid, 0).total = grid.total
      BY <1>1, ClearIsEmpty
    <3>4. CASE ResizeTo
      <4>1. PICK z \in Sizes : grid' = Resize(grid, z.cols, z.rows)
        BY <3>4 DEF ResizeTo, Becomes
      <4>2. z.cols \in Nat \ {0, 1} /\ z.rows \in Nat \ {0, 1} /\ z.cols \in Widths
                /\ z.rows \in Heights
        BY TerminalAssumption DEF Widths, Heights
      <4> QED
        BY <4>1, <4>2, ResizeIs DEF BInv, GInv
    <3>5. CASE FoldAll
      BY <3>1, <3>5 DEF FoldAll
    <3>6. CASE ClearScrollback
      BY <3>3, <3>6 DEF ClearScrollback, Becomes
    <3>7. CASE Scroll
      BY <3>1, <3>2, <3>7 DEF Scroll
    <3>8. CASE \E id \in RowsNamed : Reveal(id)
      BY <3>1, <3>8 DEF Reveal
    <3> QED
      BY <1>8, <3>4, <3>5, <3>6, <3>7, <3>8
  <2> QED
    BY <1>1, <1>2, <2>1, <2>2, Spent
<1>9. CASE NoteInterruptedCommand \/ Frame \/ UNCHANGED vars
  BY <1>1, <1>9 DEF NoteInterruptedCommand, Frame, vars, BudgetOK, FitsIn
<1> QED
  BY <1>3, <1>4, <1>5, <1>6, <1>7, <1>8, <1>9 DEF Next

\* A session starts without blocks.
LEMMA InitBlocks == Init => BInv
<1> SUFFICES ASSUME Init PROVE BInv
  OBVIOUS
<1>1. PICK s \in Scenarios : grid \in s.screens /\ budget = s.budget
  BY DEF Init
<1>2. BudgetOK
  BY <1>1, TerminalAssumption DEF BudgetOK
<1>3. 0 \in RowId
  BY <1>2, CursorFits, InitGrid
<1>4. ListOK(blocks, runningBlockId, cmds, high)
  BY NoBlocks DEF Init
<1>5. Filed
  BY DEF Init, Filed
<1>6. cmdRunning \in BOOLEAN /\ undefined \in BOOLEAN
  BY DEF Init
<1>7. /\ cmds \in Nat /\ nextBlockId \in Nat \ {0} /\ runningBlockId \in Nat
      /\ outputStartRow \in RowId /\ high \in RowId \cup {Unordered}
  BY <1>3 DEF Init
<1>8. pendingCmd \in 0 .. cmds /\ notifyRunning \in 0 .. cmds
  BY DEF Init
<1>9. ShellOK
  BY <1>4, <1>5, <1>6, <1>7, <1>8 DEF ShellOK
<1> QED
  BY <1>2, <1>9, InitGrid DEF BInv

\* The whole is inductive.
LEMMA BlocksStep == ASSUME BInv, [Next]_vars PROVE BInv'
<1>1. GInv'
  BY EveryStep DEF BInv, GridStep
<1> QED
  BY <1>1, BudgetStep, ShellStep DEF BInv

\* The inductive invariant with the ceiling of the list.
CInv == BInv /\ Len(blocks) <= MaxBlocks

\* A block opened leaves the list below its ceiling.
LEMMA OpenedShort ==
  ASSUME CInv, OpenedAt(CursorRow) # <<>>, NEW b, blocks' = WithLast(OpenedAt(CursorRow), b)
  PROVE  Len(blocks') <= MaxBlocks
<1> DEFINE bs == OpenedAt(CursorRow)
<1>1. HighAfter(IF CursorRow >= high THEN CursorRow ELSE Unordered)
  BY DEF HighAfter
<1>2. bs \in Seq(Block)
  BY <1>1, OpenedIs DEF CInv, ListOK
<1>3. Len(bs) <= MaxBlocks
  <2>1. CASE HasOpenBlock(blocks)
    BY <2>1 DEF OpenedAt, CInv
  <2>2. CASE ~HasOpenBlock(blocks)
    BY <1>1, <2>2, BeginIs DEF OpenedAt, CInv
  <2> QED
    BY <2>1, <2>2
<1> HIDE DEF bs
<1>4. Len(WithLast(bs, b)) = Len(bs)
  BY <1>2 DEF WithLast
<1> QED
  BY <1>3, <1>4 DEF bs

\* So does a frame.
LEMMA FrameShort ==
  ASSUME NEW bs \in Seq(Block), BInv, FrameShell(bs) PROVE Len(blocks') <= Len(bs)
<1>1. Oldest(grid) \in Int /\ Len(bs) \in Nat /\ <<>> \in Seq(Block)
  BY OldestIs
<1>2. CASE CounterRestarted
  <2>1. blocks' = TrimBlocks(<<>>, Oldest(grid))
    BY <1>2 DEF FrameShell, Framed
  <2>2. Len(TrimBlocks(<<>>, Oldest(grid))) <= Len(<<>>)
    BY <1>1, TrimShortens
  <2>3. TrimBlocks(<<>>, Oldest(grid)) \in Seq(Block)
    BY <1>1, TrimIs
  <2> QED
    BY <1>1, <2>1, <2>2, <2>3
<1>3. CASE ~CounterRestarted
  BY <1>1, <1>3, TrimShortens DEF FrameShell, Framed
<1> QED
  BY <1>2, <1>3

\* So does every step.
LEMMA CeilingStep == ASSUME CInv, [Next]_vars PROVE Len(blocks') <= MaxBlocks
<1>1. /\ BInv /\ blocks \in Seq(Block) /\ Len(blocks) \in Nat /\ Len(blocks) <= MaxBlocks
      /\ MaxBlocks \in Nat \ {0}
  BY TerminalAssumption DEF CInv, BInv, ShellOK, ListOK
<1>2. CASE UNCHANGED blocks
  BY <1>1, <1>2
<1>3. CASE MarkPrompt
  <2>1. HighAfter(high')
    BY <1>1, <1>3, MarkHigh DEF MarkPrompt
  <2>2. blocks' = BeginBlock(CursorRow)
    BY <1>3 DEF MarkPrompt
  <2> QED
    BY <1>1, <2>1, <2>2, BeginIs
<1>4. CASE MarkInput
  BY <1>4, OpenedShort DEF MarkInput
<1>5. CASE MarkOutput
  BY <1>5, OpenedShort DEF MarkOutput
<1>6. CASE MarkUndefined
  <2>1. blocks' = <<>>
    BY <1>6 DEF MarkUndefined
  <2> QED
    BY <1>1, <2>1
<1>7. CASE \E hasCode \in BOOLEAN : MarkExit(hasCode)
  <2>1. PICK hasCode \in BOOLEAN : MarkExit(hasCode)
    BY <1>7
  <2>2. CASE blocks' = WithLast(blocks, EndedBy(Last(blocks), hasCode))
    BY <1>1, <2>2 DEF WithLast
  <2> QED
    BY <1>2, <2>1, <2>2 DEF MarkExit
<1>8. CASE Frame
  BY <1>1, <1>8, FrameShort DEF Frame
<1>9. CASE \E id \in RowsNamed : Reveal(id)
  <2>1. PICK id \in RowsNamed : Reveal(id)
    BY <1>9
  <2> DEFINE bs == [i \in DOMAIN blocks |-> IF Hides(blocks[i], id)
          THEN [blocks[i] EXCEPT !.collapsed = FALSE] ELSE blocks[i]]
  <2>2. FrameShell(bs)
    BY <2>1 DEF Reveal
  <2>3. \A i \in DOMAIN blocks : bs[i] \in Block
    <3> TAKE i \in DOMAIN blocks
    <3>1. blocks[i] \in Block /\ bs[i] \in {[blocks[i] EXCEPT !.collapsed = FALSE], blocks[i]}
      BY <1>1
    <3> QED
      BY <3>1, FlagSet
  <2>4. bs = [i \in 1 .. Len(blocks) |-> bs[i]] /\ DOMAIN blocks = 1 .. Len(blocks)
    BY <1>1
  <2> HIDE DEF bs
  <2>5. bs \in Seq(Block) /\ Len(bs) = Len(blocks)
    BY <1>1, <2>3, <2>4
  <2>6. Len(blocks') <= Len(bs)
    BY <1>1, <2>2, <2>5, FrameShort
  <2>7. blocks' \in Seq(Block)
    BY <1>1, BlocksStep DEF BInv, ShellOK, ListOK
  <2> QED
    BY <1>1, <2>5, <2>6, <2>7
<1>10. ASSUME NEW t, blocks' = t, DOMAIN t = 1 .. Len(blocks) PROVE Len(blocks') <= MaxBlocks
  <2>1. blocks' \in Seq(Block)
    BY <1>1, BlocksStep DEF BInv, ShellOK, ListOK
  <2> QED
    BY <1>1, <1>10, <2>1
<1>11. CASE Fold \/ FoldAll \/ Reset
  BY <1>1, <1>10, <1>11 DEF Fold, FoldAll, Reset, User
<1>12. CASE PrintChar \/ MoveTo \/ Erase \/ ShiftChars \/ ShiftLines \/ SetMargins \/ IndexUp
            \/ SaveOrRestore \/ AltScreen \/ NewLine
  <2>1. UNCHANGED shell
    BY <1>12 DEF PrintChar, MoveTo, Erase, ShiftChars, ShiftLines, SetMargins, IndexUp,
        SaveOrRestore, AltScreen, NewLine, Edit
  <2> QED
    BY <1>2, <2>1 DEF shell
<1>13. CASE NoteInterruptedCommand \/ AskToNotify \/ ResizeTo \/ ClearScrollback \/ Scroll
           \/ UNCHANGED vars
  <2>1. UNCHANGED blocks
    BY <1>13 DEF NoteInterruptedCommand, AskToNotify, ResizeTo, ClearScrollback, Scroll, User,
        shell, vars
  <2> QED
    BY <1>2, <2>1
<1> QED
  BY <1>3, <1>4, <1>5, <1>6, <1>7, <1>8, <1>9, <1>11, <1>12, <1>13 DEF Next

\* A session starts with it and keeps it.
LEMMA CeilingInit == Init => CInv
  BY InitBlocks, TerminalAssumption DEF Init, CInv
LEMMA CeilingKept == ASSUME CInv, [Next]_vars PROVE CInv'
  BY CeilingStep, BlocksStep DEF CInv

\* And it says what the run checks.
LEMMA BlocksAreSound == ASSUME CInv PROVE BlocksSound
<1>1. blocks \in Seq(Block) /\ ListOK(blocks, runningBlockId, cmds, high)
          /\ DOMAIN blocks = 1 .. Len(blocks)
  BY DEF CInv, BInv, ShellOK, ListOK
<1>2. \A b \in ToSet(blocks) : \E i \in 1 .. Len(blocks) : b = blocks[i]
  BY <1>1 DEF ToSet
<1>3. TypeOK
  <2>1. Sound(grid, Widths)
    BY ShapeIsSound DEF CInv, BInv, GInv, Shape
  <2>2. \A b \in ToSet(blocks) : {b.prompt, b.input, b.first, b.last} \subseteq 0 .. RowIds - 1
    <3> TAKE b \in ToSet(blocks)
    <3>1. b \in Block
      BY <1>1, <1>2
    <3>2. BlockShape(b)
      BY <3>1, BlockIs
    <3>3. \A r \in RowId : r \in 0 .. RowIds - 1
      BY RowIdIs, GridAssumption
    <3> QED
      BY <3>2, <3>3 DEF BlockShape
  <2> QED
    BY <2>1, <2>2 DEF TypeOK, CInv, BInv, ShellOK
<1>4. StatusIsItsCommands
  BY <1>1, <1>2 DEF StatusIsItsCommands, ListOK, StatusOK
<1>5. OneRunningLast
  BY <1>1 DEF OneRunningLast, ListOK, RunsLast
<1>6. BlocksDisjoint
  BY <1>1 DEF BlocksDisjoint, ListOK, Below
<1>7. JournalledOnce
  BY DEF JournalledOnce, CInv, BInv, ShellOK, Filed
<1> QED
  BY <1>3, <1>4, <1>5, <1>6, <1>7 DEF BlocksSound

\* The list of blocks is one of commands in order, each with its own status and filed once,
\* for any grid and any number of marks missing, repeated or trimmed, links dropped and
\* terminals reset.
THEOREM BlocksAlwaysSound == Spec => []BlocksSound
<1>1. CInv /\ [Next]_vars => CInv'
  BY CeilingKept
<1>2. CInv => BlocksSound
  BY BlocksAreSound
<1> QED
  BY <1>1, <1>2, CeilingInit, PTL DEF Spec

----------------------------------------------------------------------------
(* What a step may take from the list.                                     *)

\* What EndedBlocksStay says of one block.
Stays(b) ==
  \/ b.running \/ CounterRestarted \/ CounterBehind(grid) \/ (\E c \in ToSet(blocks') : c.id = b.id)
  \/ (\A r \in RowsOf(b) : r < FirstKept(grid)) \/ PromptAbove(b) \/ MakesRoom(b)
Has(bs, id) == \E j \in DOMAIN bs : bs[j].id = id

\* A block of a list by its number.
LEMMA HasIs == ASSUME NEW bs, NEW id PROVE Has(bs, id) <=> \E c \in ToSet(bs) : c.id = id
  BY DEF Has, ToSet

\* A block whose last row is below the oldest has no row left.
LEMMA RowsAbove ==
  ASSUME NEW b \in Block, NEW o \in Int, LastRow(b) < o PROVE \A r \in RowsOf(b) : r < o
<1>1. BlockShape(b)
  BY BlockIs
<1>2. b.first \in Int /\ b.last \in Int /\ b.prompt \in Int /\ b.input \in Int
  BY <1>1, RowIdIs DEF BlockShape
<1> QED
  BY <1>2 DEF RowsOf, LastRow, Larger

\* What TrimBlocks must keep it keeps.
LEMMA TrimHas ==
  ASSUME NEW bs \in Seq(Block), NEW o \in Int, NEW i \in 1 .. Len(bs), LastRow(bs[i]) >= o
  PROVE  Has(TrimBlocks(bs, o), bs[i].id)
<1> DEFINE t == TrimBlocks(bs, o)
<1>1. /\ t \in Seq(Block)
      /\ \E e : Picks(bs, t, e) /\ \A k \in 1 .. Len(bs) : LastRow(bs[k]) >= o
           <=> \E j \in 1 .. Len(t) : e[j] = k
  BY TrimIs
<1> HIDE DEF t
<1>2. PICK e : Picks(bs, t, e) /\ \A k \in 1 .. Len(bs) : LastRow(bs[k]) >= o
          <=> \E j \in 1 .. Len(t) : e[j] = k
  BY <1>1
<1>3. PICK j \in 1 .. Len(t) : e[j] = i
  BY <1>2
<1>4. t[j] = bs[i] /\ j \in DOMAIN t
  BY <1>1, <1>2, <1>3 DEF Picks
<1> QED
  BY <1>4 DEF Has, t

\* Replacing the last block by itself, changed, loses none.
LEMMA LastHas ==
  ASSUME NEW bs \in Seq(Block), bs # <<>>, NEW d, d.id = Last(bs).id, NEW id, Has(bs, id)
  PROVE  Has(WithLast(bs, d), id)
<1>1. Len(bs) \in DOMAIN bs /\ Last(bs) = bs[Len(bs)]
  BY LastIs
<1>2. /\ DOMAIN WithLast(bs, d) = DOMAIN bs /\ WithLast(bs, d)[Len(bs)] = d
      /\ \A j \in DOMAIN bs : j # Len(bs) => WithLast(bs, d)[j] = bs[j]
  BY <1>1 DEF WithLast
<1>3. PICK j \in DOMAIN bs : bs[j].id = id
  BY DEF Has
<1>4. WithLast(bs, d)[j].id = id
  BY <1>1, <1>2, <1>3
<1> QED
  BY <1>2, <1>4 DEF Has

\* A prompt takes from the list what has scrolled out, and what it cuts short above the cursor.
LEMMA BeginStays ==
  ASSUME CInv, ~CounterBehind(grid), NEW i \in 1 .. Len(blocks)
  PROVE  LET b == blocks[i]
         IN  \/ Has(BeginBlock(CursorRow), b.id)
             \/ \A r \in RowsOf(b) : r < FirstKept(grid)
             \/ \E r \in RowsOf(b) : r >= CursorRow
             \/ i = 1 /\ Len(blocks) = MaxBlocks
<1> DEFINE row == CursorRow  b == blocks[i]  e == Ended(row)  nb == NewBlock(row)
           o == Oldest(grid)  a == Append(e, nb)
<1>0. BInv /\ Len(blocks) <= MaxBlocks /\ MaxBlocks \in Nat \ {0}
  BY TerminalAssumption DEF CInv
<1>1. BeginBlock(row) = Newest(TrimBlocks(a, o), MaxBlocks)
  BY DEF BeginBlock, Ended
<1>2. row \in RowId /\ row \in Nat /\ grid.total <= row /\ grid.total \in Nat
  BY <1>0, CursorIs
<1>3. o \in Int /\ o = FirstKept(grid) /\ o <= grid.total
  BY <1>0, OldestIs
<1>4. nb \in Block
  BY <1>0, <1>2, NewBlockIs
<1>5. blocks \in Seq(Block) /\ b \in Block /\ Len(blocks) \in Nat
  BY <1>0 DEF BInv, ShellOK, ListOK
<1>6. BlockShape(b)
  BY <1>5, BlockIs
<1>7. ASSUME blocks # <<>>, ~Last(blocks).hasExit
      PROVE  Last(blocks) = blocks[Len(blocks)] /\ ClosedAt(Last(blocks), row) \in Block
  BY <1>2, <1>5, <1>7, LastIs, ClosedIs
<1>8. e \in Seq(Block) /\ Len(e) = Len(blocks)
          /\ (e[i] = b \/ (e[i] = ClosedAt(b, row) /\ ~b.hasExit))
  <2>1. CASE HasOpenBlock(blocks)
    <3>1. blocks # <<>> /\ ~Last(blocks).hasExit
              /\ e = WithLast(blocks, ClosedAt(Last(blocks), row))
      BY <2>1 DEF HasOpenBlock, Ended
    <3>2. Last(blocks) = blocks[Len(blocks)] /\ ClosedAt(Last(blocks), row) \in Block
      BY <1>7, <3>1
    <3> DEFINE d == ClosedAt(Last(blocks), row)
    <3>3. e = WithLast(blocks, d) /\ d \in Block
      BY <3>1, <3>2
    <3>4. i = Len(blocks) => d = ClosedAt(b, row) /\ ~b.hasExit
      BY <3>1, <3>2
    <3> HIDE DEF d, e
    <3>5. LET w == WithLast(blocks, d)
          IN  /\ w \in Seq(Block) /\ Len(w) = Len(blocks) /\ w[Len(blocks)] = d
              /\ \A k \in 1 .. Len(blocks) : k # Len(blocks) => w[k] = blocks[k]
      BY <1>5, <3>1, <3>3, WithLastIs
    <3> QED
      BY <3>3, <3>4, <3>5
  <2>2. CASE ~HasOpenBlock(blocks)
    BY <1>5, <2>2 DEF Ended
  <2> QED
    BY <2>1, <2>2
<1> HIDE DEF e, o, nb
<1>9. a \in Seq(Block) /\ i \in 1 .. Len(a) /\ a[i] = e[i] /\ e[i] \in Block
          /\ Len(a) = Len(blocks) + 1
  BY <1>4, <1>5, <1>8
<1> HIDE DEF a
<1>10. LastRow(e[i]) \in Int
  BY <1>9, LastRowIs, RowIdIs
<1>11. e[i].id = b.id
  BY <1>2, <1>5, <1>8, ClosedIs
<1>12. CASE LastRow(e[i]) >= o
  <2> DEFINE t == TrimBlocks(a, o)  u == Newest(t, MaxBlocks)
  <2>1. /\ t \in Seq(Block)
        /\ \E f : /\ Picks(a, t, f)
                  /\ \A k \in 1 .. Len(a) : LastRow(a[k]) >= o <=> \E j \in 1 .. Len(t) : f[j] = k
    BY <1>3, <1>9, TrimIs
  <2>2. Len(t) <= Len(a) /\ (Len(t) = Len(a) => \A k \in 1 .. Len(a) : LastRow(a[k]) >= o)
    BY <1>3, <1>9, TrimShortens
  <2> HIDE DEF t
  <2>3. PICK f : /\ Picks(a, t, f)
                 /\ \A k \in 1 .. Len(a) : LastRow(a[k]) >= o <=> \E j \in 1 .. Len(t) : f[j] = k
    BY <2>1
  <2>4. PICK j \in 1 .. Len(t) : f[j] = i
    BY <1>9, <1>12, <2>3
  <2>5. t[j] = e[i] /\ Len(t) \in Nat /\ Len(a) \in Nat
    BY <1>9, <2>1, <2>3, <2>4 DEF Picks
  <2>6. /\ u \in Seq(Block)
        /\ \A k \in 1 .. Len(t) : Len(t) <= MaxBlocks \/ (k # 1 /\ Len(t) = MaxBlocks + 1)
                                    => \E l \in 1 .. Len(u) : u[l] = t[k]
    BY <1>0, <2>1, NewestPicks
  <2> HIDE DEF u
  <2>7. CASE Len(t) <= MaxBlocks \/ j # 1
    <3>1. PICK l \in 1 .. Len(u) : u[l] = t[j]
      BY <1>0, <1>5, <1>9, <2>2, <2>4, <2>5, <2>6, <2>7
    <3>2. l \in DOMAIN u /\ u[l].id = b.id
      BY <1>11, <2>5, <2>6, <3>1
    <3> QED
      BY <1>1, <3>2 DEF Has, t, u
  <2>8. CASE ~(Len(t) <= MaxBlocks) /\ j = 1
    <3>1. Len(t) = Len(a) /\ Len(blocks) = MaxBlocks
      BY <1>0, <1>5, <1>9, <2>2, <2>5, <2>8
    <3>2. PICK m \in 1 .. Len(t) : f[m] = 1
      <4>1. 1 \in 1 .. Len(a) /\ LastRow(a[1]) >= o
        BY <1>9, <2>2, <2>5, <3>1
      <4> QED
        BY <2>3, <4>1
    <3>3. ~(1 < m)
      <4>1. \A k, l \in 1 .. Len(t) : k < l => f[k] < f[l]
        BY <2>3 DEF Picks
      <4>2. ~(f[1] < 1)
        BY <1>9, <2>4, <2>8
      <4> QED
        BY <2>4, <2>8, <3>2, <4>1, <4>2
    <3>4. m = 1
      BY <3>3
    <3> QED
      BY <2>4, <2>8, <3>1, <3>2, <3>4
  <2> QED
    BY <2>7, <2>8
<1>13. CASE LastRow(e[i]) < o
  <2>1. CASE e[i] = b
    BY <1>3, <1>5, <1>13, <2>1, RowsAbove
  <2>2. CASE e[i] = ClosedAt(b, row) /\ ~b.hasExit
    <3>1. /\ e[i].prompt = b.prompt /\ e[i].input = b.input
          /\ (e[i].hasOutput /\ e[i].last = row - 1)
               \/ (e[i].hasOutput = b.hasOutput /\ e[i].last = b.last)
      BY <1>2, <1>5, <2>2, ClosedIs
    <3>2. CASE e[i].hasOutput = b.hasOutput /\ e[i].last = b.last
      <4>1. LastRow(e[i]) = LastRow(b)
        BY <3>1, <3>2 DEF LastRow
      <4> QED
        BY <1>3, <1>5, <1>13, <4>1, RowsAbove
    <3>3. CASE e[i].hasOutput /\ e[i].last = row - 1
      <4>1. row <= o
        BY <1>2, <1>3, <1>13, <3>3 DEF LastRow
      <4>2. \A r \in RowsOf(b) : r \in Int
        BY <1>6, RowIdIs DEF RowsOf, BlockShape
      <4> QED
        BY <1>2, <1>3, <4>1, <4>2
    <3> QED
      BY <3>1, <3>2, <3>3
  <2> QED
    BY <1>8, <2>1, <2>2
<1> QED
  BY <1>3, <1>10, <1>12, <1>13

\* A frame takes what has scrolled out.
LEMMA FrameStays ==
  ASSUME BInv, NEW t \in Seq(Block), Len(t) = Len(blocks),
      \A i \in 1 .. Len(blocks) : Alike(blocks[i], t[i]),
         blocks' = Framed(t), NEW i \in 1 .. Len(blocks)
  PROVE  Stays(blocks[i])
<1>1. SUFFICES ASSUME ~CounterRestarted, ~CounterBehind(grid) PROVE Stays(blocks[i])
  BY DEF Stays
<1>2. Oldest(grid) \in Int /\ Oldest(grid) = FirstKept(grid)
  BY <1>1, OldestIs
<1>3. blocks' = TrimBlocks(t, Oldest(grid))
  BY <1>1 DEF Framed
<1>4. LastRow(t[i]) = LastRow(blocks[i]) /\ t[i].id = blocks[i].id
  BY DEF Alike, LastRow
<1>5. blocks[i] \in Block
  BY DEF BInv, ShellOK, ListOK
<1>6. LastRow(blocks[i]) \in Int
  BY <1>5, LastRowIs, RowIdIs
<1>7. CASE LastRow(blocks[i]) >= Oldest(grid)
  <2>1. Has(blocks', blocks[i].id)
    BY <1>2, <1>3, <1>4, <1>7, TrimHas
  <2> QED
    BY <2>1, HasIs DEF Stays
<1>8. CASE LastRow(blocks[i]) < Oldest(grid)
  BY <1>2, <1>5, <1>8, RowsAbove DEF Stays
<1> QED
  BY <1>2, <1>6, <1>7, <1>8

\* B and C lose no block that still has a row.
LEMMA OpenStays ==
  ASSUME CInv, NEW d, OpenedAt(CursorRow) # <<>>, d.id = Last(OpenedAt(CursorRow)).id,
         blocks' = WithLast(OpenedAt(CursorRow), d), CountBlock, NEW i \in 1 .. Len(blocks)
  PROVE  Stays(blocks[i])
<1>1. blocks \in Seq(Block) /\ Has(blocks, blocks[i].id) /\ nextBlockId \in Nat
  BY DEF CInv, BInv, ShellOK, ListOK, Has
<1>2. CASE HasOpenBlock(blocks)
  <2>1. OpenedAt(CursorRow) = blocks
    BY <1>2 DEF OpenedAt
  <2>2. Has(blocks', blocks[i].id)
    BY <1>1, <2>1, LastHas
  <2> QED
    BY <2>2, HasIs DEF Stays
<1>3. CASE ~HasOpenBlock(blocks)
  <2>1. OpenedAt(CursorRow) = BeginBlock(CursorRow) /\ nextBlockId' # nextBlockId
    BY <1>1, <1>3 DEF OpenedAt, CountBlock
  <2>2. HighAfter(IF CursorRow >= high THEN CursorRow ELSE Unordered)
    BY DEF HighAfter
  <2>3. ListOK(BeginBlock(CursorRow), 0, 0, IF CursorRow >= high THEN CursorRow ELSE Unordered)
            /\ ~CounterBehind(grid)
    BY <2>1, <2>2, BeginIs DEF CInv
  <2>4. BeginBlock(CursorRow) \in Seq(Block)
    BY <2>3 DEF ListOK
  <2>5. CASE Has(BeginBlock(CursorRow), blocks[i].id)
    <3>1. Has(blocks', blocks[i].id)
      BY <2>1, <2>4, <2>5, LastHas
    <3> QED
      BY <3>1, HasIs DEF Stays
  <2>6. CASE \A r \in RowsOf(blocks[i]) : r < FirstKept(grid)
    BY <2>6 DEF Stays
  <2>7. CASE \E r \in RowsOf(blocks[i]) : r >= CursorRow
    BY <2>1, <2>7 DEF Stays, PromptAbove
  <2>8. CASE i = 1 /\ Len(blocks) = MaxBlocks
    BY <2>1, <2>8 DEF Stays, MakesRoom
  <2> QED
    BY <2>3, <2>5, <2>6, <2>7, <2>8, BeginStays
<1> QED
  BY <1>2, <1>3

\* Nor does any other mark.
LEMMA MarksStay ==
  ASSUME CInv, NEW i \in 1 .. Len(blocks),
         MarkPrompt \/ MarkInput \/ MarkOutput \/ MarkUndefined
             \/ \E hasCode \in BOOLEAN : MarkExit(hasCode)
  PROVE  Stays(blocks[i])
<1>0. blocks \in Seq(Block) /\ Has(blocks, blocks[i].id) /\ nextBlockId \in Nat
          /\ blocks[i] \in Block
  BY DEF CInv, BInv, ShellOK, ListOK, Has
<1>1. CASE MarkPrompt
  <2>1. blocks' = BeginBlock(CursorRow) /\ nextBlockId' # nextBlockId
    BY <1>0, <1>1 DEF MarkPrompt
  <2>2. CASE CounterBehind(grid)
    BY <2>2 DEF Stays
  <2>3. CASE ~CounterBehind(grid)
    BY <2>1, <2>3, BeginStays, HasIs DEF Stays, PromptAbove, MakesRoom
  <2> QED
    BY <2>2, <2>3
<1>2. CASE MarkInput
  <2> DEFINE b == Last(OpenedAt(CursorRow))  d == [b EXCEPT !.input = CursorRow]
  <2>1. HighAfter(high')
    BY <1>2, MarkHigh DEF CInv, MarkInput
  <2>2. OpenedAt(CursorRow) # <<>> /\ blocks' = WithLast(OpenedAt(CursorRow), d) /\ CountBlock
    BY <1>2 DEF MarkInput
  <2>3. b \in Block
    BY <2>1, <2>2, OpenedIs DEF CInv
  <2>4. BlockShape(b)
    BY <2>3, BlockIs
  <2>5. d.id = b.id
    BY <2>4 DEF BlockShape, IsBlock, BlockFields
  <2> HIDE DEF d
  <2> QED
    BY <2>2, <2>5, OpenStays
<1>3. CASE MarkOutput
  <2> DEFINE b == Last(OpenedAt(CursorRow))  d == [b EXCEPT !.cmd = cmds + 1, !.first = CursorRow,
          !.running = TRUE]
  <2>1. HighAfter(high')
    BY <1>3, MarkHigh DEF CInv, MarkOutput, StartsCommand
  <2>2. OpenedAt(CursorRow) # <<>> /\ blocks' = WithLast(OpenedAt(CursorRow), d) /\ CountBlock
    BY <1>3 DEF MarkOutput, StartsCommand
  <2>3. b \in Block
    BY <2>1, <2>2, OpenedIs DEF CInv
  <2>4. BlockShape(b)
    BY <2>3, BlockIs
  <2>5. d.id = b.id
    BY <2>4 DEF BlockShape, IsBlock, BlockFields
  <2> HIDE DEF d
  <2> QED
    BY <2>2, <2>5, OpenStays
<1>4. CASE MarkUndefined
  <2>1. BeginBlock(CursorRow) = <<>> /\ Mark
    BY <1>4 DEF MarkUndefined, StartsCommand
  <2>2. HighAfter(high')
    BY <2>1, MarkHigh DEF CInv
  <2>3. CounterBehind(grid)
    BY <2>1, <2>2, BeginIs DEF CInv
  <2> QED
    BY <2>3 DEF Stays
<1>5. CASE \E hasCode \in BOOLEAN : MarkExit(hasCode)
  <2>1. PICK hasCode \in BOOLEAN : MarkExit(hasCode)
    BY <1>5
  <2>2. CASE blocks' = blocks
    BY <1>0, <2>2, HasIs DEF Stays
  <2>3. CASE HasOpenBlock(blocks) /\ Ends(Last(blocks), hasCode)
    <3> DEFINE b == Last(blocks)  d == NoteExit(b, hasCode)
    <3>1. blocks # <<>> /\ blocks' = WithLast(blocks, d)
      BY <2>1, <2>3 DEF HasOpenBlock, MarkExit, EndedBy
    <3>2. b \in Block
      BY <1>0, <3>1, LastIs
    <3>3. BlockShape(b)
      BY <3>2, BlockIs
    <3>4. d.id = b.id
      BY <3>3 DEF NoteExit, BlockShape, IsBlock, BlockFields
    <3> HIDE DEF d
    <3>5. Has(blocks', blocks[i].id)
      BY <1>0, <3>1, <3>4, LastHas
    <3> QED
      BY <3>5, HasIs DEF Stays
  <2> QED
    BY <2>1, <2>2, <2>3 DEF MarkExit
<1> QED
  BY <1>1, <1>2, <1>3, <1>4, <1>5

\* Nor does any step.
LEMMA StaysStep == ASSUME CInv, [Next]_vars, NEW i \in 1 .. Len(blocks) PROVE Stays(blocks[i])
<1>0. /\ blocks \in Seq(Block) /\ DOMAIN blocks = 1 .. Len(blocks) /\ Len(blocks) \in Nat
      /\ \A k \in 1 .. Len(blocks) : blocks[k] \in Block
  BY DEF CInv, BInv, ShellOK, ListOK
<1>1. ASSUME NEW t, DOMAIN t = DOMAIN blocks, t[i].id = blocks[i].id, blocks' = t
      PROVE Stays(blocks[i])
  BY <1>0, <1>1 DEF Stays, ToSet
<1>2. CASE UNCHANGED blocks
  BY <1>1, <1>2
<1>3. CASE MarkPrompt \/ MarkInput \/ MarkOutput \/ MarkUndefined
          \/ \E hasCode \in BOOLEAN : MarkExit(hasCode)
  BY <1>3, MarksStay
<1>4. CASE Frame
  <2>1. blocks' = Framed(blocks)
    BY <1>4 DEF Frame, FrameShell
  <2>2. \A k \in 1 .. Len(blocks) : Alike(blocks[k], blocks[k])
    BY DEF Alike
  <2> QED
    BY <1>0, <2>1, <2>2, FrameStays DEF CInv
<1>5. CASE \E id \in RowsNamed : Reveal(id)
  <2>1. PICK id \in RowsNamed : Reveal(id)
    BY <1>5
  <2> DEFINE t == [k \in DOMAIN blocks |-> IF Hides(blocks[k], id)
          THEN [blocks[k] EXCEPT !.collapsed = FALSE] ELSE blocks[k]]
  <2>2. blocks' = Framed(t)
    BY <2>1 DEF Reveal, FrameShell
  <2>3. \A k \in 1 .. Len(blocks) : t[k] \in Block /\ Alike(blocks[k], t[k])
    <3> TAKE k \in 1 .. Len(blocks)
    <3>1. blocks[k] \in Block /\ t[k] \in {[blocks[k] EXCEPT !.collapsed = FALSE], blocks[k]}
      BY <1>0
    <3> QED
      BY <3>1, FlagSet
  <2>4. t = [k \in 1 .. Len(blocks) |-> t[k]]
    BY <1>0
  <2> HIDE DEF t
  <2>5. t \in Seq(Block) /\ Len(t) = Len(blocks)
    BY <1>0, <2>3, <2>4
  <2> QED
    BY <2>2, <2>3, <2>5, FrameStays DEF CInv
<1>6. CASE Fold
  <2>1. PICK k \in DOMAIN blocks : blocks' = [blocks EXCEPT ![k].collapsed = ~@]
    BY <1>6 DEF Fold, User
  <2> DEFINE t == [blocks EXCEPT ![k].collapsed = ~@]
  <2>2. DOMAIN t = DOMAIN blocks /\ t[i] \in {[blocks[i] EXCEPT !.collapsed = ~blocks[i].collapsed],
            blocks[i]}
    BY <1>0
  <2>3. t[i].id = blocks[i].id
    BY <1>0, <2>2, FlagSet DEF Alike
  <2> HIDE DEF t
  <2> QED
    BY <1>1, <2>1, <2>2, <2>3 DEF t
<1>7. CASE FoldAll
  <2>1. PICK c \in BOOLEAN : blocks' = [k \in DOMAIN blocks |-> IF blocks[k].hasOutput
            THEN [blocks[k] EXCEPT !.collapsed = c] ELSE blocks[k]]
    BY <1>7 DEF FoldAll, User
  <2> DEFINE t == [k \in DOMAIN blocks |-> IF blocks[k].hasOutput
          THEN [blocks[k] EXCEPT !.collapsed = c] ELSE blocks[k]]
  <2>2. DOMAIN t = DOMAIN blocks /\ t[i] \in {[blocks[i] EXCEPT !.collapsed = c], blocks[i]}
    BY <1>0
  <2>3. t[i].id = blocks[i].id
    BY <1>0, <2>2, FlagSet DEF Alike
  <2>4. blocks' = t
    BY <2>1
  <2> HIDE DEF t
  <2> QED
    BY <1>1, <2>2, <2>3, <2>4
<1>8. CASE Reset
  <2> DEFINE t == [k \in DOMAIN blocks |-> [blocks[k] EXCEPT !.old = TRUE]]
  <2>1. blocks' = t
    BY <1>8 DEF Reset
  <2>2. DOMAIN t = DOMAIN blocks /\ t[i] = [blocks[i] EXCEPT !.old = TRUE]
    BY <1>0
  <2>3. t[i].id = blocks[i].id
    BY <1>0, <2>2, FlagSet DEF Alike
  <2> HIDE DEF t
  <2> QED
    BY <1>1, <2>1, <2>2, <2>3
<1>9. CASE PrintChar \/ MoveTo \/ Erase \/ ShiftChars \/ ShiftLines \/ SetMargins \/ IndexUp
          \/ SaveOrRestore \/ AltScreen \/ NewLine
  <2>1. UNCHANGED shell
    BY <1>9 DEF PrintChar, MoveTo, Erase, ShiftChars, ShiftLines, SetMargins, IndexUp,
        SaveOrRestore, AltScreen, NewLine, Edit
  <2> QED
    BY <1>2, <2>1 DEF shell
<1>10. CASE NoteInterruptedCommand \/ AskToNotify \/ ResizeTo \/ ClearScrollback \/ Scroll
           \/ UNCHANGED vars
  <2>1. UNCHANGED blocks
    BY <1>10 DEF NoteInterruptedCommand, AskToNotify, ResizeTo, ClearScrollback, Scroll, User,
        shell, vars
  <2> QED
    BY <1>2, <2>1
<1> QED
  BY <1>3, <1>4, <1>5, <1>6, <1>7, <1>8, <1>9, <1>10 DEF Next

\* A command that has ended leaves the list with its last row and not before, unless the counter
\* of lines restarted, a prompt came above it, or it is the first of a list at its ceiling.
THEOREM BlocksStay == Spec => EndedBlocksStay
<1>1. CInv /\ [Next]_vars => CInv'
  BY CeilingKept
<1>2. CInv /\ [Next]_vars =>
        \A b \in ToSet(blocks) :
          b.running \/ CounterRestarted \/ CounterBehind(grid)
              \/ (\E c \in ToSet(blocks') : c.id = b.id)
          \/ (\A r \in RowsOf(b) : r < FirstKept(grid)) \/ PromptAbove(b) \/ MakesRoom(b)
  <2> SUFFICES ASSUME CInv, [Next]_vars, NEW b \in ToSet(blocks) PROVE Stays(b)
    BY DEF Stays
  <2>1. PICK i \in 1 .. Len(blocks) : b = blocks[i]
    BY DEF ToSet, CInv, BInv, ShellOK, ListOK
  <2> QED
    BY <2>1, StaysStep
<1> QED
  BY <1>1, <1>2, CeilingInit, PTL DEF Spec, EndedBlocksStay

\* A set of numbers that is not empty has a least.
LEMMA LeastIs ==
  ASSUME NEW S, \A x \in S : x \in Nat, S # {}
  PROVE  \E x \in S : \A y \in S : x <= y
<1>1. PICK t \in S : t \in Nat
  OBVIOUS
<1> DEFINE U == S \cap (0 .. t)  m == Nth(U, 1)
<1>2. /\ IsFiniteSet(U) /\ t \in U /\ \A x \in U : x \in Nat
  <2>1. IsFiniteSet(0 .. t) /\ U \in SUBSET (0 .. t)
    BY <1>1, FS_Interval
  <2> QED
    BY <1>1, <2>1, FS_Subset
<1> HIDE DEF U
<1>3. /\ Cardinality(U) \in Nat /\ \A i \in U : Rank(U, i) \in 1 .. Cardinality(U)
      /\ \A k \in 1 .. Cardinality(U) : Nth(U, k) \in U /\ Rank(U, Nth(U, k)) = k
      /\ \A x, y \in U : x < y => Rank(U, x) < Rank(U, y)
  BY <1>2, Ranks
<1>4. 1 \in 1 .. Cardinality(U)
  BY <1>2, <1>3
<1>5. m \in U /\ Rank(U, m) = 1
  BY <1>3, <1>4
<1> HIDE DEF m
<1>6. \A y \in U : ~(y < m)
  <2> SUFFICES ASSUME NEW y \in U, y < m PROVE FALSE
    OBVIOUS
  <2>1. Rank(U, y) < 1 /\ Rank(U, y) \in 1 .. Cardinality(U)
    BY <1>3, <1>5
  <2> QED
    BY <1>3, <2>1
<1>7. m \in S /\ m <= t /\ m \in Nat
  BY <1>1, <1>2, <1>5 DEF U
<1>8. \A y \in S : m <= y
  <2> TAKE y \in S
  <2>1. CASE y \in U
    BY <1>2, <1>6, <1>7, <2>1
  <2>2. CASE y \notin U
    BY <1>1, <1>7, <2>2 DEF U
  <2> QED
    BY <2>1, <2>2
<1> QED
  BY <1>7, <1>8

\* The row the display starts at, counted on.
Start(g) == g.total - g.view

\* The row id of a view row, before it wraps.
At(g, src) == Start(g) + src
\* The counter of lines does not wrap within the display.
Short(g) == Shape(g) /\ g.total + 2 * g.rows + ScrollbackMax < RowIds

\* The block a view row is folded into, if any.
LEMMA HitIs ==
  ASSUME NEW g, NEW bs \in Seq(Block), NEW src
  PROVE  LET hit == FoldAt(g, bs, src)  id == Unsigned(At(g, src))
         IN  /\ hit \in 0 .. Len(bs)
             /\ hit = 0 <=> g.altActive \/ \A i \in 1 .. Len(bs) : ~Hides(bs[i], id)
             /\ hit # 0 => ~g.altActive /\ hit \in 1 .. Len(bs) /\ Hides(bs[hit], id)
<1> DEFINE id == Unsigned(At(g, src))  I == {i \in 1 .. Len(bs) : Hides(bs[i], id)}
<1>1. FoldAt(g, bs, src) = IF g.altActive THEN 0 ELSE IF I # {} THEN Min(I) ELSE 0
  BY DEF FoldAt, SelectInSeq, At, Start, TopOfView
<1>2. Len(bs) \in Nat /\ \A i \in I : i \in Nat /\ i \in 1 .. Len(bs) /\ i # 0 /\ Hides(bs[i], id)
  OBVIOUS
<1>3. I = {} <=> \A i \in 1 .. Len(bs) : ~Hides(bs[i], id)
  OBVIOUS
<1> HIDE DEF I
<1>4. I # {} => Min(I) \in I
  BY <1>2, LeastIs DEF Min
<1>5. 0 \in 0 .. Len(bs) /\ \A i \in 1 .. Len(bs) : i \in 0 .. Len(bs)
  BY <1>2
<1> HIDE DEF id
<1> QED
  BY <1>1, <1>2, <1>3, <1>4, <1>5 DEF id

\* The rows of the display, each from the one above it.
LEMMA RowMapIs ==
  ASSUME NEW g, NEW bs, g.rows \in Nat, g.rows >= 1
  PROVE  LET s == RowMap(g, bs)
         IN  s[0] = SlotAt(g, bs, 0) /\ \A d \in 1 .. g.rows - 1 : s[d] = SlotAt(g, bs,
             s[d - 1].next)
<1> DEFINE Step(d, f) == SlotAt(g, bs, IF d = 0 THEN 0 ELSE f[d - 1].next)
           IsMap(f, n) == f = [d \in 0 .. n - 1 |-> Step(d, f)]
           Bad == {n \in 1 .. g.rows : ~\E f : IsMap(f, n)}
<1>1. RowMap(g, bs) = CHOOSE f : IsMap(f, g.rows)
  BY DEF RowMap, Rows
<1>2. Bad = {}
  <2>1. SUFFICES ASSUME Bad # {} PROVE FALSE
    OBVIOUS
  <2>2. \A n \in Bad : n \in Nat
    OBVIOUS
  <2>3. PICK n \in Bad : \A m \in Bad : n <= m
    <3> HIDE DEF Bad
    <3> QED
      BY <2>1, <2>2, LeastIs
  <2>4. n \in Nat /\ n \in 1 .. g.rows /\ ~\E f : IsMap(f, n)
    BY <2>3
  <2>5. n # 1
    <3> DEFINE f == [d \in 0 .. 0 |-> SlotAt(g, bs, 0)]
    <3>1. f = [d \in 0 .. 0 |-> Step(d, f)]
      OBVIOUS
    <3>2. IsMap(f, 1)
      BY <3>1
    <3> QED
      BY <2>4, <3>2
  <2>6. n - 1 \in 1 .. g.rows /\ n - 1 \in Nat /\ n - 1 \notin Bad
    BY <2>3, <2>4, <2>5
  <2>7. PICK f : IsMap(f, n - 1)
    BY <2>6
  <2> DEFINE h == [d \in 0 .. n - 1 |-> Step(d, f)]
  <2>8. \A d \in 0 .. n - 2 : f[d] = h[d]
    BY <2>4, <2>7
  <2>9. \A d \in 0 .. n - 1 : Step(d, f) = Step(d, h)
    <3> TAKE d \in 0 .. n - 1
    <3>1. d # 0 => d - 1 \in 0 .. n - 2
      BY <2>4
    <3> HIDE DEF h
    <3> QED
      BY <2>8, <3>1
  <2>10. IsMap(h, n)
    BY <2>9
  <2> QED
    BY <2>4, <2>10
<1>3. g.rows \in 1 .. g.rows
  OBVIOUS
<1>4. \E f : IsMap(f, g.rows)
  BY <1>2, <1>3
<1>5. IsMap(RowMap(g, bs), g.rows)
  <2> HIDE DEF IsMap
  <2> QED
    BY <1>1, <1>4
<1> DEFINE s == RowMap(g, bs)
<1> HIDE DEF s
<1>6. s = [d \in 0 .. g.rows - 1 |-> Step(d, s)]
  BY <1>5 DEF s
<1>7. 0 \in 0 .. g.rows - 1 /\ \A d \in 1 .. g.rows - 1 : d \in 0 .. g.rows - 1 /\ d # 0
  OBVIOUS
<1>8. s[0] = SlotAt(g, bs, 0) /\ \A d \in 1 .. g.rows - 1 : s[d] = SlotAt(g, bs, s[d - 1].next)
  BY <1>6, <1>7
<1> QED
  BY <1>8 DEF s

\* The numbers of a grid whose counter is away from where it wraps.
LEMMA ShortIs ==
  ASSUME NEW g, Short(g)
  PROVE  /\ Start(g) \in Int /\ -ScrollbackMax <= Start(g) /\ Start(g) + g.rows < Limit
         /\ g.rows \in Nat /\ g.rows >= 2 /\ g.rows \in Heights /\ Limit \in Int
         /\ Limit = RowIds - ScrollbackMax
         /\ RowIds \in Nat /\ ScrollbackMax \in Nat /\ ScrollbackMax < RowIds
<1>1. PICK t \in Nat, v \in Nat, r \in Nat, l \in Nat :
        g.total = t /\ g.view = v /\ g.rows = r /\ Len(g.scrollback) = l /\ v <= l
            /\ l <= ScrollbackMax /\ r >= 2 /\ r \in Heights
  BY Numbers DEF Short
<1>2. RowIds \in Nat /\ ScrollbackMax \in Nat /\ t + 2 * r + ScrollbackMax < RowIds
  BY <1>1, GridAssumption DEF Short
<1> QED
  BY <1>1, <1>2 DEF Start, Limit

\* What a row of the display shows, and where the next one starts.
LEMMA SlotIs ==
  ASSUME NEW g, Short(g), NEW bs \in Seq(Block), NEW src \in Nat, At(g, src) < RowIds
  PROVE  LET s == SlotAt(g, bs, src)
         IN  /\ s.src = src /\ s.next \in Nat /\ s.next > src
             /\ s.hit = 0 => s.next = src + 1
             /\ s.hit # 0 => LET b == bs[s.hit]
                             IN  /\ s.hit \in 1 .. Len(bs) /\ ~g.altActive /\ b.collapsed
                                 /\ b.hasOutput
                                 /\ b.first \in Nat /\ b.last \in Nat /\ b.first <= At(g, src)
                                 /\ At(g, src) <= b.last
                                 /\ At(g, s.next) = b.last + 1 /\ b.last + g.rows < Limit
             /\ s.hit = 0 <=> g.altActive \/ \A i \in 1 .. Len(bs) : ~Hides(bs[i],
                  Unsigned(At(g, src)))
<1> DEFINE hit == FoldAt(g, bs, src)  u == At(g, src)  s == SlotAt(g, bs, src)
<1>1. /\ Start(g) \in Int /\ -ScrollbackMax <= Start(g) /\ g.rows \in Nat /\ g.rows \in Heights
      /\ Limit \in Int /\ Limit = RowIds - ScrollbackMax /\ RowIds \in Nat /\ ScrollbackMax \in Nat
  BY ShortIs
<1>2. s = [src |-> src, hit |-> hit, next |-> src + IF hit = 0 THEN 1
          ELSE RowsFolded(bs[hit], Unsigned(u))]
  BY DEF SlotAt, At, Start, TopOfView
<1>3. /\ hit \in 0 .. Len(bs)
      /\ hit = 0 <=> g.altActive \/ \A i \in 1 .. Len(bs) : ~Hides(bs[i], Unsigned(u))
      /\ hit # 0 => ~g.altActive /\ hit \in 1 .. Len(bs) /\ Hides(bs[hit], Unsigned(u))
  BY HitIs
<1>4. u \in Int /\ -ScrollbackMax <= u /\ u < RowIds /\ u = Start(g) + src
  BY <1>1 DEF At
<1> HIDE DEF hit, s, u
<1>5. s.src = src /\ s.hit = hit /\ s.next = src + IF hit = 0 THEN 1
          ELSE RowsFolded(bs[hit], Unsigned(u))
  BY <1>2
<1>6. CASE hit = 0
  BY <1>3, <1>5, <1>6 DEF s, u
<1>7. CASE hit # 0
  <2> DEFINE b == bs[hit]  id == Unsigned(u)
  <2>1. hit \in 1 .. Len(bs) /\ ~g.altActive /\ b.collapsed /\ b.hasOutput
            /\ id \in b.first .. b.last
    BY <1>3, <1>7 DEF Hides
  <2>2. b \in Block
    BY <2>1
  <2>3. BlockShape(b)
    BY <2>2, BlockIs
  <2> HIDE DEF b
  <2>4. /\ b.first \in Nat /\ b.last \in Nat /\ b.last < Limit
             /\ \A h \in Heights : b.last + h < Limit
    BY <2>3, RowIdIs DEF BlockShape
  <2>5. id = u /\ u >= 0
    <3>1. id \in Int /\ id < Limit
      BY <1>1, <2>1, <2>4
    <3>2. u \in -RowIds .. -1 => id = u + RowIds
      BY <1>4, UnsignedIs
    <3>3. u \in 0 .. RowIds - 1 => id = u
      BY <1>4, UnsignedIs
    <3> HIDE DEF id
    <3>4. CASE u < 0
      <4>1. u \in -RowIds .. -1 \/ u < -RowIds
        BY <1>1, <1>4, <3>4
      <4>2. ScrollbackMax <= RowIds
        BY <1>1, ShortIs
      <4>3. id = u + RowIds
        BY <1>1, <1>4, <3>2, <4>1, <4>2
      <4> QED
        BY <1>1, <1>4, <3>1, <4>3
    <3>5. CASE u >= 0
      BY <1>1, <1>4, <3>3, <3>5
    <3> QED
      BY <1>4, <3>4, <3>5
  <2>6. s.next = src + (b.last - u + 1) /\ b.first <= u /\ u <= b.last
    BY <1>4, <1>5, <1>7, <2>1, <2>4, <2>5 DEF RowsFolded, b
  <2>7. s.next \in Nat /\ s.next > src /\ At(g, s.next) = b.last + 1
    <3>1. PICK l \in Int, c \in Int, w \in Int : l = b.last /\ c = Start(g) /\ w = u
      BY <1>1, <1>4, <2>4
    <3>2. w = c + src /\ w <= l
      BY <1>4, <2>6, <3>1
    <3>3. s.next = src + (l - w + 1)
      BY <2>6, <3>1
    <3>4. src + (l - w + 1) \in Nat /\ src + (l - w + 1) > src /\ c + (src + (l - w + 1)) = l + 1
      BY ONLY src \in Nat, l \in Int, c \in Int, w \in Int, <3>2
    <3> QED
      BY <3>1, <3>3, <3>4 DEF At
  <2>8. b.last + g.rows < Limit
    BY <1>1, <2>4
  <2> QED
    BY <1>3, <1>5, <1>7, <2>1, <2>4, <2>6, <2>7, <2>8 DEF s, u, b
<1> QED
  BY <1>6, <1>7

\* The rows of the display: each starts where the one above it ends, and none wraps round.
Laid(g, bs, s) ==
  /\ s[0].src = 0
  /\ \A d \in Rows(g) : s[d] = SlotAt(g, bs, s[d].src) /\ s[d].src \in Nat
       /\ At(g, s[d].src) < RowIds
  /\ \A d \in Rows(g) : d # 0 => s[d].src = s[d - 1].next

\* The display is laid out row by row, each view row on one of them or folded away.
LEMMA LaidIs ==
  ASSUME NEW g, Short(g), NEW bs \in Seq(Block) PROVE Laid(g, bs, RowMap(g, bs))
<1> DEFINE s == RowMap(g, bs)
           Fine(d) == s[d].src \in Nat /\ At(g, s[d].src) <= (Limit - g.rows) + d
               /\ s[d] = SlotAt(g, bs, s[d].src)
           Bad == {d \in Rows(g) : ~Fine(d)}
<1>1. /\ Start(g) \in Int /\ Start(g) + g.rows < Limit /\ g.rows \in Nat /\ g.rows >= 2
      /\ Limit \in Int /\ Limit = RowIds - ScrollbackMax /\ RowIds \in Nat /\ ScrollbackMax \in Nat
  BY ShortIs
<1>2. s[0] = SlotAt(g, bs, 0) /\ \A d \in 1 .. g.rows - 1 : s[d] = SlotAt(g, bs, s[d - 1].next)
  BY <1>1, RowMapIs
<1> HIDE DEF s
<1>3. \A src : SlotAt(g, bs, src).src = src
  BY DEF SlotAt
<1>4. s[0].src = 0 /\ \A d \in 1 .. g.rows - 1 : s[d].src = s[d - 1].next
  BY <1>2, <1>3
<1>5. \A d \in 0 .. g.rows - 1 : s[d] = SlotAt(g, bs, s[d].src)
  <2> TAKE d \in 0 .. g.rows - 1
  <2>1. CASE d = 0
    BY <1>2, <1>4, <2>1
  <2>2. CASE d # 0
    <3>1. d \in 1 .. g.rows - 1
      BY <1>1, <2>2
    <3> QED
      BY <1>2, <1>4, <3>1
  <2> QED
    BY <2>1, <2>2
<1>6. \A d \in 0 .. g.rows - 1 : d \in Int /\ d <= g.rows - 1
  BY <1>1
<1>7. ASSUME NEW d \in 0 .. g.rows - 1, Fine(d) PROVE At(g, s[d].src) < RowIds
  <2>1. PICK a \in Int : a = At(g, s[d].src) /\ a <= (Limit - g.rows) + d
    BY <1>1, <1>7 DEF At
  <2> QED
    BY <1>1, <1>6, <2>1
<1>8. Fine(0)
  BY <1>1, <1>4, <1>5 DEF At
<1>9. ASSUME NEW d \in 1 .. g.rows - 1, Fine(d - 1) PROVE Fine(d)
  <2>1. d - 1 \in 0 .. g.rows - 1 /\ d \in 0 .. g.rows - 1 /\ s[d].src = s[d - 1].next
    BY <1>1, <1>4
  <2> DEFINE p == s[d - 1]
  <2>2. p = SlotAt(g, bs, p.src) /\ p.src \in Nat /\ At(g, p.src) < RowIds
            /\ At(g, p.src) <= (Limit - g.rows) + (d - 1)
    BY <1>7, <1>9, <2>1
  <2> HIDE DEF p
  <2>3. /\ p.next \in Nat /\ (p.hit = 0 => p.next = p.src + 1)
        /\ p.hit # 0 => LET b == bs[p.hit] IN b.last \in Nat /\ At(g, p.next) = b.last + 1
             /\ b.last + g.rows < Limit
    BY <2>2, SlotIs
  <2>4. At(g, p.next) <= (Limit - g.rows) + d
    <3>1. CASE p.hit = 0
      <4>1. PICK c \in Int, k \in Int, l \in Int, n \in Int : c = Start(g) /\ k = p.src
                /\ l = Limit - g.rows /\ n = d
        BY <1>1, <2>2
      <4>2. c + k <= l + (n - 1)
        BY <2>2, <4>1 DEF At
      <4>3. At(g, p.next) = c + (k + 1)
        BY <2>3, <3>1, <4>1 DEF At
      <4>4. c + (k + 1) <= l + n
        BY ONLY c \in Int, k \in Int, l \in Int, n \in Int, <4>2
      <4> QED
        BY <4>1, <4>3, <4>4
    <3>2. CASE p.hit # 0
      <4>1. PICK l \in Nat : l + g.rows < Limit /\ At(g, p.next) = l + 1
        BY <2>3, <3>2
      <4> QED
        BY <1>1, <2>1, <4>1
    <3> QED
      BY <3>1, <3>2
  <2> QED
    BY <1>5, <2>1, <2>3, <2>4 DEF p
<1>10. Bad = {}
  <2>1. SUFFICES ASSUME Bad # {} PROVE FALSE
    OBVIOUS
  <2>2. \A d \in Bad : d \in Nat /\ d \in 0 .. g.rows - 1 /\ ~Fine(d)
    BY <1>1 DEF Rows
  <2>3. \A d \in 0 .. g.rows - 1 : d \in Bad \/ Fine(d)
    BY DEF Rows
  <2> HIDE DEF Bad, Fine
  <2>4. PICK d \in Bad : \A e \in Bad : d <= e
    BY <2>1, <2>2, LeastIs
  <2>5. d # 0
    BY <1>8, <2>2, <2>4
  <2>6. d \in 1 .. g.rows - 1 /\ d - 1 \in 0 .. g.rows - 1 /\ ~(d <= d - 1)
    BY <1>1, <2>2, <2>4, <2>5
  <2>7. Fine(d - 1)
    BY <2>3, <2>4, <2>6
  <2> QED
    BY <1>9, <2>2, <2>4, <2>6, <2>7
<1>11. \A d \in 0 .. g.rows - 1 : Fine(d)
  BY <1>10 DEF Rows
<1>12. \A d \in 0 .. g.rows - 1 : s[d].src \in Nat /\ At(g, s[d].src) < RowIds
  BY <1>7, <1>11
<1>13. \A d \in 0 .. g.rows - 1 : d # 0 => s[d].src = s[d - 1].next
  BY <1>1, <1>4
<1> QED
  BY <1>4, <1>5, <1>12, <1>13 DEF Laid, Rows, s

\* A row lower on the display shows what lies past the one above it.
LEMMA RowsRise ==
  ASSUME NEW g, Short(g), NEW bs \in Seq(Block), NEW s, Laid(g, bs, s)
  PROVE  /\ \A d \in Rows(g) : s[d].next \in Nat /\ s[d].next > s[d].src /\ s[d].src \in Nat
         /\ \A d, e \in Rows(g) : d < e => s[e].src >= s[d].next
         /\ \A d \in Rows(g) : s[d].src >= d
         /\ \A v \in Nat : v < s[g.rows - 1].next
              => \E d \in Rows(g) : s[d].src <= v /\ v < s[d].next
<1>1. g.rows \in Nat /\ g.rows >= 2
  BY ShortIs
<1>2. \A d \in Rows(g) : d \in Nat /\ (d # 0 => d - 1 \in Rows(g))
  BY <1>1 DEF Rows
<1>3. \A d \in Rows(g) : s[d].next \in Nat /\ s[d].next > s[d].src /\ s[d].src \in Nat
  <2> TAKE d \in Rows(g)
  <2>1. s[d] = SlotAt(g, bs, s[d].src) /\ s[d].src \in Nat /\ At(g, s[d].src) < RowIds
    BY DEF Laid
  <2> DEFINE p == s[d]
  <2> HIDE DEF p
  <2>2. p = SlotAt(g, bs, p.src) /\ p.src \in Nat /\ At(g, p.src) < RowIds
    BY <2>1 DEF p
  <2>3. p.next \in Nat /\ p.next > p.src
    BY <2>2, SlotIs
  <2> QED
    BY <2>1, <2>3 DEF p
<1>4. \A d \in Rows(g) : d # 0 => s[d].src = s[d - 1].next
  BY DEF Laid
<1>5. ASSUME NEW d \in Rows(g) PROVE \A e \in Rows(g) : d < e => s[e].src >= s[d].next
  <2> DEFINE Bad == {e \in Rows(g) : d < e /\ ~(s[e].src >= s[d].next)}
  <2>1. SUFFICES ASSUME Bad # {} PROVE FALSE
    OBVIOUS
  <2>2. PICK e \in Bad : \A f \in Bad : e <= f
    <3>1. \A e \in Bad : e \in Nat
      BY <1>2
    <3> HIDE DEF Bad
    <3> QED
      BY <2>1, <3>1, LeastIs
  <2>3. e \in Nat /\ d \in Nat /\ e # 0 /\ e - 1 \in Rows(g) /\ s[e].src = s[e - 1].next /\ d < e
            /\ ~(s[e].src >= s[d].next)
    BY <1>2, <1>4, <2>2
  <2>4. e - 1 # d
    BY <1>3, <2>3
  <2>5. d < e - 1 /\ e - 1 \notin Bad
    BY <2>2, <2>3, <2>4
  <2>6. s[e - 1].src >= s[d].next
    BY <2>3, <2>5
  <2> QED
    BY <1>3, <2>3, <2>6
<1>6. \A d \in Rows(g) : s[d].src >= d
  <2> DEFINE Bad == {d \in Rows(g) : ~(s[d].src >= d)}
  <2>1. SUFFICES ASSUME Bad # {} PROVE FALSE
    OBVIOUS
  <2>2. PICK d \in Bad : \A f \in Bad : d <= f
    <3>1. \A d \in Bad : d \in Nat
      BY <1>2
    <3> HIDE DEF Bad
    <3> QED
      BY <2>1, <3>1, LeastIs
  <2>3. d \in Nat /\ d # 0 /\ d - 1 \in Rows(g) /\ s[d].src = s[d - 1].next /\ ~(s[d].src >= d)
    BY <1>2, <1>3, <1>4, <2>2
  <2>4. s[d - 1].src >= d - 1
    BY <2>2, <2>3
  <2> QED
    BY <1>3, <2>3, <2>4
<1>7. ASSUME NEW v \in Nat, v < s[g.rows - 1].next
      PROVE \E d \in Rows(g) : s[d].src <= v /\ v < s[d].next
  <2> DEFINE Past == {d \in Rows(g) : v < s[d].next}
  <2>1. g.rows - 1 \in Past
    BY <1>1, <1>7 DEF Rows
  <2>2. PICK d \in Past : \A f \in Past : d <= f
    <3>1. \A d \in Past : d \in Nat
      BY <1>2
    <3> HIDE DEF Past
    <3> QED
      BY <2>1, <3>1, LeastIs
  <2>3. d \in Rows(g) /\ d \in Nat /\ v < s[d].next
    BY <1>2, <2>2
  <2>4. CASE d = 0
    BY <2>3, <2>4 DEF Laid
  <2>5. CASE d # 0
    <3>1. d - 1 \in Rows(g) /\ d - 1 \notin Past /\ s[d].src = s[d - 1].next
      BY <1>2, <1>4, <2>2, <2>3, <2>5
    <3> QED
      BY <1>3, <2>3, <3>1
  <2> QED
    BY <2>4, <2>5
<1> QED
  BY <1>3, <1>5, <1>6, <1>7

\* A view row that some display row stands for is hidden exactly if that one is a summary.
LEMMA StandsFor ==
  ASSUME NEW g, Short(g), NEW bs \in Seq(Block), NEW s, Laid(g, bs, s), NEW d \in Rows(g),
      NEW v \in Nat,
         s[d].src <= v, v < s[d].next
  PROVE  /\ s[d].hit = 0 => v = s[d].src /\ (g.altActive
              \/ \A i \in 1 .. Len(bs) : ~Hides(bs[i], Unsigned(At(g, v))))
         /\ s[d].hit # 0 => ~g.altActive /\ s[d].hit \in 1 .. Len(bs)
              /\ Hides(bs[s[d].hit], Unsigned(At(g, v)))
<1> DEFINE p == s[d]
<1>1. p = SlotAt(g, bs, p.src) /\ p.src \in Nat /\ At(g, p.src) < RowIds /\ p.src <= v /\ v < p.next
  BY DEF Laid
<1> HIDE DEF p
<1>2. /\ p.next \in Nat /\ (p.hit = 0 => p.next = p.src + 1)
      /\ p.hit # 0 => LET b == bs[p.hit]
                      IN  /\ p.hit \in 1 .. Len(bs) /\ ~g.altActive /\ b.collapsed /\ b.hasOutput
                          /\ b.first \in Nat /\ b.last \in Nat /\ b.first <= At(g, p.src)
                          /\ At(g, p.src) <= b.last
                          /\ At(g, p.next) = b.last + 1 /\ b.last + g.rows < Limit
      /\ p.hit = 0 <=> g.altActive \/ \A i \in 1 .. Len(bs) : ~Hides(bs[i], Unsigned(At(g, p.src)))
  BY <1>1, SlotIs
<1>3. CASE p.hit = 0
  <2>1. v = p.src
    BY <1>1, <1>2, <1>3
  <2> QED
    BY <1>2, <1>3, <2>1 DEF p
<1>4. CASE p.hit # 0
  <2> DEFINE b == bs[p.hit]
  <2>1. /\ p.hit \in 1 .. Len(bs) /\ ~g.altActive /\ b.collapsed /\ b.hasOutput
        /\ b.first \in Nat /\ b.last \in Nat /\ b.first <= At(g, p.src) /\ At(g, p.src) <= b.last
        /\ At(g, p.next) = b.last + 1 /\ b.last + g.rows < Limit
    BY <1>2, <1>4
  <2> HIDE DEF b
  <2>2. /\ Start(g) \in Int /\ g.rows \in Nat /\ Limit \in Int /\ Limit = RowIds - ScrollbackMax
        /\ RowIds \in Nat /\ ScrollbackMax \in Nat
    BY ShortIs
  <2>3. PICK c \in Int, l \in Nat, f \in Nat : c = Start(g) /\ l = b.last /\ f = b.first
    BY <2>1, <2>2
  <2>4. f <= c + p.src /\ c + p.next = l + 1 /\ l < RowIds
    BY <2>1, <2>2, <2>3 DEF At
  <2>5. f <= c + v /\ c + v <= l /\ c + v \in 0 .. RowIds - 1
    <3>1. PICK a \in Int, n \in Int : a = p.src /\ n = p.next /\ a <= v /\ v < n
      BY <1>1, <1>2
    <3>2. f <= c + a /\ c + n = l + 1
      BY <2>4, <3>1
    <3>3. f <= c + v /\ c + v <= l
      BY ONLY v \in Nat, c \in Int, l \in Nat, f \in Nat, a \in Int, n \in Int, <3>1, <3>2
    <3> QED
      BY <2>2, <2>3, <2>4, <3>3
  <2>6. At(g, v) = c + v /\ Unsigned(c + v) = c + v
    <3>1. c + v \in Int
      BY <2>3
    <3> QED
      BY <2>3, <2>5, <3>1, UnsignedIs DEF At
  <2>7. Unsigned(At(g, v)) \in b.first .. b.last
    BY <2>3, <2>5, <2>6
  <2>8. Hides(b, Unsigned(At(g, v)))
    BY <2>1, <2>7 DEF Hides
  <2> QED
    BY <1>4, <2>1, <2>8 DEF p, b
<1> QED
  BY <1>3, <1>4

\* One display row for each view row that is shown, one summary for each block folded.
LEMMA FoldedRows ==
  ASSUME NEW g, Short(g), NEW bs \in Seq(Block)
  PROVE  LET s == RowMap(g, bs)
             Folded(v) == ~g.altActive /\ \E b \in ToSet(bs) : Hides(b, Unsigned(TopOfView(g) + v))
         IN  /\ \A v \in Nat : v < s[g.rows - 1].next =>
                   (v \in {s[d].src : d \in {e \in Rows(g) : s[e].hit = 0}} <=> ~Folded(v))
             /\ \A d, e \in Rows(g) : s[d].hit # 0 /\ s[d].hit = s[e].hit => d = e
             /\ g.rows <= s[g.rows - 1].next
<1> DEFINE s == RowMap(g, bs)
<1>1. Laid(g, bs, s)
  BY LaidIs
<1> HIDE DEF s
<1>2. /\ \A d \in Rows(g) : s[d].next \in Nat /\ s[d].next > s[d].src /\ s[d].src \in Nat
      /\ \A d, e \in Rows(g) : d < e => s[e].src >= s[d].next
      /\ \A d \in Rows(g) : s[d].src >= d
      /\ \A v \in Nat : v < s[g.rows - 1].next => \E d \in Rows(g) : s[d].src <= v /\ v < s[d].next
  BY <1>1, RowsRise
<1>3. g.rows \in Nat /\ g.rows >= 2 /\ \A d \in Rows(g) : d \in Nat
  BY ShortIs DEF Rows
<1>4. ToSet(bs) = {bs[i] : i \in 1 .. Len(bs)}
  BY DEF ToSet
<1>5. ASSUME NEW v \in Nat, v < s[g.rows - 1].next
      PROVE  v \in {s[d].src : d \in {e \in Rows(g) : s[e].hit = 0}}
             <=> ~(~g.altActive /\ \E b \in ToSet(bs) : Hides(b, Unsigned(TopOfView(g) + v)))
  <2>1. PICK d \in Rows(g) : s[d].src <= v /\ v < s[d].next
    BY <1>2, <1>5
  <2>2. /\ s[d].hit = 0 => v = s[d].src /\ (g.altActive
             \/ \A i \in 1 .. Len(bs) : ~Hides(bs[i], Unsigned(At(g, v))))
        /\ s[d].hit # 0 => ~g.altActive /\ s[d].hit \in 1 .. Len(bs)
             /\ Hides(bs[s[d].hit], Unsigned(At(g, v)))
    BY <1>1, <2>1, StandsFor
  <2>3. At(g, v) = TopOfView(g) + v
    BY DEF At, Start, TopOfView
  <2>4. CASE s[d].hit = 0
    BY <1>4, <2>2, <2>3, <2>4
  <2>5. CASE s[d].hit # 0
    <3>1. \E b \in ToSet(bs) : Hides(b, Unsigned(TopOfView(g) + v))
      BY <1>4, <2>2, <2>3, <2>5
    <3>2. ASSUME NEW e \in Rows(g), s[e].hit = 0, v = s[e].src PROVE FALSE
      <4>1. d # e
        BY <2>5, <3>2
      <4>2. CASE d < e
        BY <1>2, <2>1, <3>2, <4>2
      <4>3. CASE e < d
        BY <1>2, <2>1, <3>2, <4>3
      <4> QED
        BY <1>3, <4>1, <4>2, <4>3
    <3> QED
      BY <2>2, <2>5, <3>1, <3>2
  <2> QED
    BY <2>4, <2>5
<1>6. ASSUME NEW d \in Rows(g), NEW e \in Rows(g), d < e, s[d].hit # 0, s[d].hit = s[e].hit
      PROVE FALSE
  <2> DEFINE p == s[d]  q == s[e]
  <2>1. /\ p = SlotAt(g, bs, p.src) /\ p.src \in Nat /\ At(g, p.src) < RowIds
        /\ q = SlotAt(g, bs, q.src) /\ q.src \in Nat /\ At(g, q.src) < RowIds
    BY <1>1 DEF Laid
  <2>2. p.next \in Nat /\ q.src >= p.next /\ p.hit # 0 /\ q.hit = p.hit
    BY <1>2, <1>6
  <2> HIDE DEF p, q
  <2>3. bs[p.hit].last \in Nat /\ At(g, p.next) = bs[p.hit].last + 1
    BY <2>1, <2>2, SlotIs
  <2>4. At(g, q.src) <= bs[q.hit].last
    BY <2>1, <2>2, SlotIs
  <2>5. PICK c \in Int, l \in Nat : c = Start(g) /\ l = bs[p.hit].last
    BY <2>3, ShortIs
  <2>6. c + p.next = l + 1 /\ c + q.src <= l
    BY <2>2, <2>3, <2>4, <2>5 DEF At
  <2> QED
    BY <2>1, <2>2, <2>5, <2>6
<1>7. \A d, e \in Rows(g) : s[d].hit # 0 /\ s[d].hit = s[e].hit => d = e
  BY <1>3, <1>6
<1>8. g.rows <= s[g.rows - 1].next
  <2>1. g.rows - 1 \in Rows(g)
    BY <1>3 DEF Rows
  <2>2. s[g.rows - 1].src >= g.rows - 1 /\ s[g.rows - 1].next > s[g.rows - 1].src
            /\ s[g.rows - 1].src \in Nat /\ s[g.rows - 1].next \in Nat
    BY <1>2, <2>1
  <2> QED
    BY <1>3, <2>2
<1> QED
  BY <1>5, <1>7, <1>8 DEF s

\* The invariant keeps the counter there.
LEMMA ShortGrid == ASSUME BInv PROVE Short(grid)
  BY CursorIs DEF BInv, GInv, Short

\* So a frame hides only output.
LEMMA FoldHides == ASSUME BInv PROVE FoldHidesOnlyOutput
<1> DEFINE bs == Framed(blocks)  s == RowMap(grid, bs)
<1>1. bs \in Seq(Block)
  <2>1. ListOK(blocks, runningBlockId, cmds, high) /\ ListOK(<<>>, runningBlockId, cmds, high)
            /\ Oldest(grid) \in Int
    BY NoBlocks, OldestIs DEF BInv, ShellOK
  <2>2. ListOK(bs, runningBlockId, cmds, high)
    BY <2>1, TrimmedOK DEF Framed
  <2> QED
    BY <2>2 DEF ListOK
<1>2. Short(grid)
  BY ShortGrid
<1>3. \A v \in 0 .. Smaller(s[grid.rows - 1].next, RowIds \div 2) - 1 : v \in Nat
          /\ v < s[grid.rows - 1].next
  <2>1. s[grid.rows - 1].next \in Nat
    <3>1. grid.rows - 1 \in Rows(grid)
      BY <1>2, ShortIs DEF Rows
    <3>2. Laid(grid, bs, s)
      BY <1>1, <1>2, LaidIs
    <3> QED
      BY <1>1, <1>2, <3>1, <3>2, RowsRise
  <2>2. RowIds \div 2 \in Nat
    BY GridAssumption
  <2> QED
    BY <2>1, <2>2 DEF Smaller
<1> HIDE DEF bs
<1>4. /\ \A v \in Nat : v < s[grid.rows - 1].next =>
             (v \in {s[d].src : d \in {e \in Rows(grid) : s[e].hit = 0}}
              <=> ~(~grid.altActive /\ \E b \in ToSet(bs) : Hides(b,
                  Unsigned(TopOfView(grid) + v))))
      /\ \A d, e \in Rows(grid) : s[d].hit # 0 /\ s[d].hit = s[e].hit => d = e
  BY <1>1, <1>2, FoldedRows
<1> HIDE DEF s
<1>5. \A v \in 0 .. Smaller(s[grid.rows - 1].next, RowIds \div 2) - 1 :
        v \in {s[d].src : d \in {e \in Rows(grid) : s[e].hit = 0}}
        <=> ~(~grid.altActive /\ \E b \in ToSet(bs) : Hides(b, Unsigned(TopOfView(grid) + v)))
  BY <1>3, <1>4
<1> QED
  BY <1>4, <1>5 DEF FoldHidesOnlyOutput, bs, s

\* A frame shows every row that is not output folded away, and one summary for each block
\* folded, for any size, any view and any list of blocks a session can have.
THEOREM FoldsHideOnlyOutput == Spec => []FoldHidesOnlyOutput
<1>1. BInv /\ [Next]_vars => BInv'
  BY BlocksStep
<1> QED
  BY <1>1, FoldHides, InitBlocks, PTL DEF Spec

----------------------------------------------------------------------------
(* A row revealed.                                                         *)

\* The index of a row counts from the oldest there is.
LEMMA IndexIs ==
  ASSUME BInv, NEW id \in RowsNamed, AbsIndex(grid, id) # -1
  PROVE  LET k == AbsIndex(grid, id)
         IN  k \in 0 .. Len(grid.scrollback) + grid.rows - 1 /\ id = Unsigned(FirstKept(grid) + k)
<1>1. PICK i \in 0 .. Len(grid.scrollback) + grid.rows - 1 : id = Unsigned(FirstKept(grid) + i)
  BY DEF RowsNamed, FirstKept
<1>0. /\ grid.total \in Nat /\ grid.rows \in Nat /\ Len(grid.scrollback) \in Nat
      /\ Len(grid.scrollback) <= ScrollbackMax
      /\ grid.total + 2 * grid.rows + ScrollbackMax < RowIds /\ RowIds \in Nat
      /\ ScrollbackMax \in Nat
  BY CursorIs
<1>a. PICK t \in Nat, l \in Nat, r \in Nat : t = grid.total /\ l = Len(grid.scrollback)
          /\ r = grid.rows
  BY <1>0
<1>b. PICK n \in Int : n = FirstKept(grid) /\ n = t - l
  BY <1>a DEF FirstKept
<1>2. /\ l <= ScrollbackMax /\ t + 2 * r + ScrollbackMax < RowIds /\ RowIds \in Nat
      /\ ScrollbackMax \in Nat
      /\ i \in 0 .. l + r - 1 /\ n \in Int /\ n = t - l /\ i \in Int
  BY <1>0, <1>1, <1>a, <1>b
<1>3. Oldest(grid) = Unsigned(n) /\ id = Unsigned(n + i)
  BY <1>1, <1>b DEF Oldest, FirstKept
<1>4. /\ n \in 0 .. RowIds - 1 => Unsigned(n) = n
      /\ n \in -RowIds .. -1 => Unsigned(n) = n + RowIds
      /\ n + i \in 0 .. RowIds - 1 => Unsigned(n + i) = n + i
      /\ n + i \in -RowIds .. -1 => Unsigned(n + i) = n + i + RowIds
  <2>1. n + i \in Int
    BY <1>2
  <2> QED
    BY <1>2, <2>1, UnsignedIs
<1>5. n \in -RowIds .. RowIds - 1 /\ n + i \in -RowIds .. RowIds - 1
          /\ n + i < RowIds - ScrollbackMax /\ n >= -ScrollbackMax
  <2>1. n <= t /\ n >= -ScrollbackMax /\ i >= 0 /\ n + i <= t + r /\ n + i >= -ScrollbackMax
    BY <1>2
  <2>2. t + r < RowIds - ScrollbackMax /\ ScrollbackMax < RowIds
    BY <1>2
  <2> QED
    BY <1>2, <2>1, <2>2
<1>6. AbsIndex(grid, id) = id - Oldest(grid) /\ ~(id < Oldest(grid))
  BY DEF AbsIndex
<1>7. id - Oldest(grid) = i
  <2>1. CASE n >= 0
    <3>1. Oldest(grid) = n /\ id = n + i
      BY <1>2, <1>3, <1>4, <1>5, <2>1
    <3> QED
      BY <1>2, <3>1
  <2>2. CASE n < 0
    <3>1. Oldest(grid) = n + RowIds
      BY <1>2, <1>3, <1>4, <1>5, <2>2
    <3>2. ~(n + i >= 0)
      <4>1. SUFFICES ASSUME n + i >= 0 PROVE FALSE
        OBVIOUS
      <4>2. id = n + i
        BY <1>2, <1>3, <1>4, <1>5, <4>1
      <4> QED
        BY <1>2, <1>5, <1>6, <3>1, <4>2
    <3>3. id = n + i + RowIds
      BY <1>2, <1>3, <1>4, <1>5, <3>2
    <3> QED
      BY <1>2, <3>1, <3>3
  <2> QED
    BY <1>2, <2>1, <2>2
<1> QED
  BY <1>1, <1>6, <1>7

\* The view goes back until the row is within the display.
LEMMA InView ==
  ASSUME NEW l \in Nat, NEW r \in Nat, r >= 2, NEW k \in 0 .. l + r - 1
  PROVE  LET back == Clamp(Clamp(l - k + r \div 2, 0, l), 0, l) IN back \in 0 .. l
      /\ (k - l) + back \in 0 .. r - 1
<1>1. PICK h \in Nat : h = r \div 2 /\ h <= r - 1
  OBVIOUS
<1> QED
  BY <1>1 DEF Clamp

\* The row revealed is on the display.
LEMMA RevealShows ==
  ASSUME BInv, NEW id \in RowsNamed, Reveal(id), ~grid.altActive
  PROVE  \E d \in Rows(grid) : LET slot == RowMap(grid', blocks')[d]
                               IN slot.hit = 0 /\ Unsigned(grid'.total - grid'.view + slot.src) = id
<1> DEFINE k == AbsIndex(grid, id)  l == Len(grid.scrollback)  h == SetView(grid,
        LinesBack(grid, k))
           t == [i \in DOMAIN blocks |-> IF Hides(blocks[i], id)
               THEN [blocks[i] EXCEPT !.collapsed = FALSE] ELSE blocks[i]]
           bs == blocks'  s == RowMap(h, bs)
<1>1. k # -1 /\ grid' = h /\ bs = Framed(t)
  BY DEF Reveal, FrameShell
<1>2. k \in 0 .. l + grid.rows - 1 /\ id = Unsigned(FirstKept(grid) + k)
  BY <1>1, IndexIs
<1>3. Shape(grid) /\ l \in Nat /\ grid.rows \in Nat /\ grid.rows >= 2 /\ grid.total \in Nat
  BY Numbers DEF BInv, GInv
<1> DEFINE back == Clamp(l - k + grid.rows \div 2, 0, l)  v == (k - l) + Clamp(back, 0, l)
<1>4. Clamp(back, 0, l) \in 0 .. l /\ v \in 0 .. grid.rows - 1
  BY <1>2, <1>3, InView
<1>5. back \in Int /\ LinesBack(grid, k) = back
  <2>1. l - k + grid.rows \div 2 \in Int
    BY <1>2, <1>3
  <2> QED
    BY <1>3, <2>1 DEF LinesBack, Clamp
<1>6. /\ SameSheet(grid, h) /\ h.altActive = grid.altActive /\ h.view = Clamp(back, 0, l)
  BY <1>3, <1>5, SetViewIs
<1> HIDE DEF h, t, k, back
<1>7. Short(h) /\ Rows(h) = Rows(grid) /\ ~h.altActive /\ h.total = grid.total
  BY <1>6, ShortGrid DEF SameSheet, Short, Rows
<1>8. bs \in Seq(Block) /\ \A j \in 1 .. Len(bs) : ~Hides(bs[j], id)
  <2>1. /\ blocks \in Seq(Block) /\ \A i \in 1 .. Len(blocks) : blocks[i] \in Block
        /\ DOMAIN blocks = 1 .. Len(blocks) /\ Len(blocks) \in Nat
    BY DEF BInv, ShellOK, ListOK
  <2>2. \A i \in 1 .. Len(blocks) : t[i] \in Block /\ ~Hides(t[i], id)
    <3> TAKE i \in 1 .. Len(blocks)
    <3>1. CASE ~Hides(blocks[i], id)
      BY <2>1, <3>1 DEF t
    <3>2. CASE Hides(blocks[i], id)
      <4>1. t[i] = [blocks[i] EXCEPT !.collapsed = FALSE]
        BY <2>1, <3>2 DEF t
      <4>2. BlockShape(blocks[i])
        BY <2>1, BlockIs
      <4>3. ~t[i].collapsed
        BY <4>1, <4>2 DEF BlockShape, IsBlock, BlockFields
      <4> QED
        BY <2>1, <4>1, <4>3, FlagSet DEF Hides
    <3> QED
      BY <3>1, <3>2
  <2>3. t \in Seq(Block) /\ Len(t) = Len(blocks)
    <3>1. t = [i \in 1 .. Len(blocks) |-> t[i]]
      BY <2>1 DEF t
    <3> QED
      BY <2>1, <2>2, <3>1
  <2>4. Oldest(grid) \in Int
    BY OldestIs
  <2>5. CASE CounterRestarted
    <3>1. bs = TrimBlocks(<<>>, Oldest(grid)) /\ <<>> \in Seq(Block)
      BY <1>1, <2>5 DEF Framed
    <3>2. bs \in Seq(Block) /\ \E e : Picks(<<>>, bs, e)
      BY <2>4, <3>1, TrimIs
    <3> QED
      BY <3>2 DEF Picks
  <2>6. CASE ~CounterRestarted
    <3>1. bs = TrimBlocks(t, Oldest(grid))
      BY <1>1, <2>6 DEF Framed
    <3>2. bs \in Seq(Block) /\ \E e : Picks(t, bs, e)
      BY <2>3, <2>4, <3>1, TrimIs
    <3> QED
      BY <2>2, <2>3, <3>2 DEF Picks
  <2> QED
    BY <2>5, <2>6
<1>9. At(h, v) = FirstKept(grid) + k
  <2>1. PICK c \in Int, w \in Int : c = Clamp(back, 0, l) /\ w = k
    BY <1>2, <1>4
  <2> QED
    BY <1>3, <1>6, <1>7, <2>1 DEF At, Start, FirstKept
<1> HIDE DEF v, s, bs
<1>10. Laid(h, bs, s)
  BY <1>7, <1>8, LaidIs DEF s
<1>11. v \in Nat /\ v < s[h.rows - 1].next
  <2>1. h.rows <= s[h.rows - 1].next /\ h.rows = grid.rows
    BY <1>6, <1>7, <1>8, FoldedRows DEF s, SameSheet
  <2>2. s[h.rows - 1].next \in Nat
    <3>1. h.rows - 1 \in Rows(h)
      BY <1>3, <2>1 DEF Rows
    <3> QED
      BY <1>7, <1>8, <1>10, <3>1, RowsRise
  <2> QED
    BY <1>3, <1>4, <2>1, <2>2
<1>12. PICK d \in Rows(h) : s[d].src <= v /\ v < s[d].next
  BY <1>7, <1>8, <1>10, <1>11, RowsRise
<1>13. /\ s[d].hit = 0 => v = s[d].src
       /\ s[d].hit # 0 => s[d].hit \in 1 .. Len(bs) /\ Hides(bs[s[d].hit], Unsigned(At(h, v)))
  BY <1>7, <1>8, <1>10, <1>11, <1>12, StandsFor
<1>14. s[d].hit = 0 /\ v = s[d].src
  BY <1>2, <1>8, <1>9, <1>13
<1>15. Unsigned(h.total - h.view + s[d].src) = id
  BY <1>2, <1>9, <1>14 DEF At, Start
<1> QED
  BY <1>1, <1>7, <1>12, <1>14, <1>15 DEF s, bs

\* A bookmark, a journal entry or a match of a search is on the display of the next frame,
\* whatever was folded around it.
THEOREM RowsRevealed == Spec => RevealShowsTheRow
<1>1. BInv /\ [Next]_vars => BInv'
  BY BlocksStep
<1>2. BInv /\ [Next]_vars =>
        \A id \in RowsNamed : Reveal(id) /\ ~grid.altActive =>
          \E d \in Rows(grid) : LET slot == RowMap(grid', blocks')[d]
                                IN slot.hit = 0
                                    /\ Unsigned(grid'.total - grid'.view + slot.src) = id
  BY RevealShows
<1> QED
  BY <1>1, <1>2, InitBlocks, PTL DEF Spec, RevealShowsTheRow

\* BeginBlock trims the block it has just made only while the counter of lines is behind the
\* scrollback, as a full reset leaves it: nothing else empties the list under it.
THEOREM OnlyBehindEmpty == Spec => EmptyOnlyBehind
<1>1. BInv /\ [Next]_vars => BInv'
  BY BlocksStep
<1>2. ASSUME BInv, MarkUndefined PROVE CounterBehind(grid)
  <2>1. Mark /\ BeginBlock(CursorRow) = <<>>
    BY <1>2 DEF MarkUndefined, StartsCommand
  <2>2. HighAfter(high')
    BY <2>1 DEF Mark, HighAfter
  <2>3. ~CounterBehind(grid) => BeginBlock(CursorRow) # <<>>
    BY <1>2, <2>2, BeginIs
  <2> QED
    BY <2>1, <2>3
<1>3. BInv /\ [Next]_vars => (MarkUndefined => CounterBehind(grid))
  BY <1>2
<1> QED
  BY <1>1, <1>3, InitBlocks, PTL DEF Spec, EmptyOnlyBehind

\* Blocks go on naming their rows while lines scroll out, fold and are searched: they stay while
\* they have a row, every row named can be shown, and only a counter behind the scrollback
\* empties the list.
THEOREM BlocksAlwaysFollowRows == Spec => BlocksFollowRows
  BY BlocksStay, RowsRevealed, OnlyBehindEmpty DEF BlocksFollowRows
=============================================================================
