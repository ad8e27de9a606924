-------------------------------- MODULE Grid --------------------------------
(***************************************************************************)
(* The cell grid of a terminal (src/src/term/grid.cpp): two screens, the   *)
(* scrollback, the cursor and the view, as operators on a record.          *)
(*                                                                         *)
(* A cell is what the operations tell apart: blank, a narrow character, a  *)
(* regional indicator (half of a flag), or one half of a double-width      *)
(* pair.  Colours, tab stops and zero-width characters are left out.  The  *)
(* modes a server sets at will and only printing reads (insert, autowrap)  *)
(* are given to each print.                                                *)
(***************************************************************************)
EXTENDS Integers, Sequences

CONSTANTS ScrollbackMax, \* m_scrollbackMax
          RowIds         \* row ids are unsigned: an id below zero is this much larger

ASSUME GridAssumption == ScrollbackMax \in Nat /\ RowIds \in Nat \ {0}

Blank == "blank"
Narrow == "narrow"
Indicator == "indicator"
WideLead == "lead"
WideTail == "tail"
Kinds == {Blank, Narrow, Indicator, WideLead, WideTail}
Printed == {Narrow, Indicator, WideLead}

Clamp(n, lo, hi) == IF n < lo THEN lo ELSE IF n > hi THEN hi ELSE n
Smaller(a, b) == IF a < b THEN a ELSE b
Unsigned(n) == n % RowIds

Columns(g) == 0 .. g.cols - 1
Rows(g) == 0 .. g.rows - 1
BlankRow(cols) == [x \in 0 .. cols - 1 |-> Blank]
BlankScreen(cols, rows) == [y \in 0 .. rows - 1 |-> BlankRow(cols)]
NowhereSaved == [x |-> 0, y |-> 0, valid |-> FALSE]

Fresh(cols, rows) ==
  [cols |-> cols, rows |-> rows, main |-> BlankScreen(cols, rows), alt |-> BlankScreen(cols, rows),
   altActive |-> FALSE, scrollback |-> <<>>, total |-> 0, view |-> 0, x |-> 0, y |-> 0,
   lastX |-> -1, lastY |-> -1, wrap |-> FALSE, top |-> 0, bot |-> rows - 1,
   savedMain |-> NowhereSaved, savedAlt |-> NowhereSaved]

Screen(g) == IF g.altActive THEN g.alt ELSE g.main
SetScreen(g, s) == IF g.altActive THEN [g EXCEPT !.alt = s] ELSE [g EXCEPT !.main = s]
Row(g) == Screen(g)[g.y]
SetRow(g, row) == SetScreen(g, [Screen(g) EXCEPT ![g.y] = row])
NoWrap(g) == [g EXCEPT !.wrap = FALSE]

\* Grids of a size: the screens have it, the lines scrolled out may have had another.
Cursors == [x : Nat, y : Nat, valid : BOOLEAN]
Lines(widths) == UNION {[0 .. w - 1 -> Kinds] : w \in widths}
Grids(cols, rows, widths) ==
  LET Screens == [0 .. rows - 1 -> [0 .. cols - 1 -> Kinds]]
  IN [cols : {cols}, rows : {rows}, main : Screens, alt : Screens, altActive : BOOLEAN,
      scrollback : Seq(Lines(widths)), total : Nat, view : Nat, x : 0 .. cols - 1, y : 0 .. rows - 1,
      lastX : Int, lastY : Int, wrap : BOOLEAN, top : 0 .. rows - 1, bot : 0 .. rows - 1,
      savedMain : Cursors, savedAlt : Cursors]
\* A wrap is pending only at the last column, the scroll region has two rows at
\* least, the scrollback is bounded and the view reaches no further than it.
Sound(g, widths) ==
  /\ g \in Grids(g.cols, g.rows, widths)
  /\ g.wrap => g.x = g.cols - 1
  /\ g.top < g.bot
  /\ g.view <= Len(g.scrollback) /\ Len(g.scrollback) <= ScrollbackMax

----------------------------------------------------------------------------
(* Double-width pairs within a row.                                        *)

IsPair(row, x) == {x, x + 1} \subseteq DOMAIN row /\ row[x] = WideLead /\ row[x + 1] = WideTail
Orphan(row, x) == (row[x] = WideLead /\ ~IsPair(row, x)) \/ (row[x] = WideTail /\ ~IsPair(row, x - 1))
HealOrphan(row, x) == IF x \in DOMAIN row /\ Orphan(row, x) THEN [row EXCEPT ![x] = Blank] ELSE row
\* Overwriting one half of a pair blanks the other.
KeepOther(row, x) == row                                                  \* (faulty)
ClearWideAt(row, x) ==
  CASE IsPair(row, x) -> [row EXCEPT ![x + 1] = Blank]
    [] IsPair(row, x - 1) -> [row EXCEPT ![x - 1] = Blank]
    [] OTHER -> row
BlankBetween(row, a, b) == [x \in DOMAIN row |-> IF x \in a .. b THEN Blank ELSE row[x]]

----------------------------------------------------------------------------
(* Scrolling.                                                              *)

Newest(lines, n) == IF Len(lines) > n THEN SubSeq(lines, Len(lines) - n + 1, Len(lines)) ELSE lines
\* A line takes its id with it into the scrollback, which is bounded.
PushScrollback(g, row) ==
  IF g.altActive THEN g
  ELSE [g EXCEPT !.scrollback = Newest(Append(@, g.main[row]), ScrollbackMax), !.total = @ + 1]

Moved(g, top, bot, n) ==
  [y \in Rows(g) |-> IF y \notin top .. bot THEN Screen(g)[y]
                     ELSE IF y + n \in top .. bot THEN Screen(g)[y + n] ELSE BlankRow(g.cols)]
ScrollUpRegion(g, top, bot, n) == SetScreen(g, Moved(g, top, bot, Clamp(n, 0, bot - top + 1)))
ScrollDownRegion(g, top, bot, n) == SetScreen(g, Moved(g, top, bot, -Clamp(n, 0, bot - top + 1)))

WholeScreen(g) == g.top = 0 /\ g.bot = g.rows - 1
LineFeed(g) ==
  IF g.y = g.bot
  THEN ScrollUpRegion(IF WholeScreen(g) THEN PushScrollback(NoWrap(g), g.top) ELSE NoWrap(g), g.top, g.bot, 1)
  ELSE [g EXCEPT !.wrap = FALSE, !.y = IF @ < g.rows - 1 THEN @ + 1 ELSE @]
ReverseIndex(g) ==
  IF g.y = g.top THEN ScrollDownRegion(NoWrap(g), g.top, g.bot, 1)
  ELSE [g EXCEPT !.wrap = FALSE, !.y = IF @ > 0 THEN @ - 1 ELSE @]
ScrollUp(g, n) == ScrollUpRegion(g, g.top, g.bot, n)
ScrollDown(g, n) == ScrollDownRegion(g, g.top, g.bot, n)
InsertLines(g, n) == IF g.y \in g.top .. g.bot THEN ScrollDownRegion(g, g.y, g.bot, n) ELSE g
DeleteLines(g, n) == IF g.y \in g.top .. g.bot THEN ScrollUpRegion(g, g.y, g.bot, n) ELSE g

----------------------------------------------------------------------------
(* The cursor.  Every relative or absolute movement ends in SetCursor.     *)

SetCursor(g, x, y) ==
  [g EXCEPT !.wrap = FALSE, !.x = Clamp(x, 0, g.cols - 1), !.y = Clamp(y, 0, g.rows - 1)]
SetScrollRegion(g, top, bot) ==
  LET t == IF top < 0 THEN 0 ELSE top
      b == IF bot <= 0 \/ bot >= g.rows THEN g.rows - 1 ELSE bot
      r == IF t >= b THEN [g EXCEPT !.top = 0, !.bot = g.rows - 1] ELSE [g EXCEPT !.top = t, !.bot = b]
  IN SetCursor(r, 0, r.top)
Saved(g) == [x |-> g.x, y |-> g.y, valid |-> TRUE]
SaveCursor(g) == IF g.altActive THEN [g EXCEPT !.savedAlt = Saved(g)] ELSE [g EXCEPT !.savedMain = Saved(g)]
RestoreCursor(g) ==
  LET s == IF g.altActive THEN g.savedAlt ELSE g.savedMain
  IN IF s.valid THEN SetCursor(g, s.x, s.y) ELSE g

----------------------------------------------------------------------------
(* Editing.                                                                *)

EraseLine(g, mode) ==
  LET a == IF mode = 0 THEN g.x ELSE 0
      b == IF mode = 1 THEN g.x ELSE g.cols - 1
  IN SetRow(NoWrap(g), HealOrphan(HealOrphan(BlankBetween(Row(g), a, b), a - 1), b + 1))
BlankRows(g, ys) == SetScreen(g, [y \in Rows(g) |-> IF y \in ys THEN BlankRow(g.cols) ELSE Screen(g)[y]])
EraseDisplay(g, mode) ==
  CASE mode = 0 -> BlankRows(EraseLine(g, 0), g.y + 1 .. g.rows - 1)
    [] mode = 1 -> BlankRows(EraseLine(g, 1), 0 .. g.y - 1)
    [] mode = 2 -> BlankRows(NoWrap(g), Rows(g))
    [] mode = 3 -> [BlankRows(NoWrap(g), Rows(g)) EXCEPT !.scrollback = <<>>, !.view = 0]

Room(g, n) == Clamp(n, 1, g.cols - g.x)
InsertChars(g, n) ==
  LET k == Room(g, n)
      row == [x \in Columns(g) |-> IF x < g.x THEN Row(g)[x] ELSE IF x < g.x + k THEN Blank ELSE Row(g)[x - k]]
  IN SetRow(g, HealOrphan(HealOrphan(HealOrphan(row, g.x - 1), g.x + k), g.cols - 1))
DeleteChars(g, n) ==
  LET k == Room(g, n)
      row == [x \in Columns(g) |-> IF x < g.x THEN Row(g)[x] ELSE IF x + k < g.cols THEN Row(g)[x + k] ELSE Blank]
  IN SetRow(g, HealOrphan(HealOrphan(row, g.x - 1), g.x))
EraseChars(g, n) ==
  LET k == Room(g, n)
  IN SetRow(g, HealOrphan(HealOrphan(BlankBetween(Row(g), g.x, g.x + k - 1), g.x - 1), g.x + k))

----------------------------------------------------------------------------
(* Printing.                                                               *)

Advance(g, w) ==
  IF g.x + w >= g.cols THEN [g EXCEPT !.x = g.cols - 1, !.wrap = TRUE] ELSE [g EXCEPT !.x = @ + w]

\* The second half of a flag makes a pair of the cells the two have.
JoinsFlag(g, kind) ==
  /\ kind = Indicator /\ ~g.wrap
  /\ g.lastX \in Columns(g) /\ g.lastY \in Rows(g) /\ g.x = g.lastX + 1 /\ g.y = g.lastY
  /\ Row(g)[g.lastX] = Indicator
JoinFlag(g) == Advance(SetRow(g, [Row(g) EXCEPT ![g.lastX] = WideLead, ![g.x] = WideTail]), 1)

WrapNow(g, autowrap) == IF g.wrap /\ autowrap THEN LineFeed([g EXCEPT !.x = 0]) ELSE g
\* A wide character that does not fit in the last column wraps early.
WrapEarly(g, w, autowrap) ==
  IF ~(w = 2 /\ g.x = g.cols - 1) THEN g
  ELSE LET b == SetRow(g, [ClearWideAt(Row(g), g.x) EXCEPT ![g.x] = Blank])
       IN IF autowrap THEN LineFeed([b EXCEPT !.x = 0]) ELSE [b EXCEPT !.x = g.cols - 2]
Draw(g, kind, w) ==
  LET row == [ClearWideAt(Row(g), g.x) EXCEPT ![g.x] = kind]
      both == IF w = 2 THEN [ClearWideAt(row, g.x + 1) EXCEPT ![g.x + 1] = WideTail] ELSE row
  IN [SetRow(g, both) EXCEPT !.lastX = g.x, !.lastY = g.y]
PutChar(g, kind, insert, autowrap) ==
  LET w == IF kind = WideLead THEN 2 ELSE 1
      at == WrapEarly(WrapNow(g, autowrap), w, autowrap)
  IN IF JoinsFlag(g, kind) THEN JoinFlag(g)
     ELSE Advance(Draw(IF insert THEN InsertChars(at, w) ELSE at, kind, w), w)

----------------------------------------------------------------------------
(* The alternate screen, a reset and a new size.                           *)

WholeRegion(g) == [g EXCEPT !.top = 0, !.bot = g.rows - 1, !.wrap = FALSE]
EnterAlt(g) ==
  IF g.altActive THEN g
  ELSE [WholeRegion(g) EXCEPT !.savedMain = Saved(g), !.altActive = TRUE, !.x = 0, !.y = 0, !.view = 0,
                              !.alt = BlankScreen(g.cols, g.rows)]
ExitAlt(g) ==
  LET left == [WholeRegion(g) EXCEPT !.altActive = FALSE]
  IN IF ~g.altActive THEN g
     ELSE IF g.savedMain.valid
          THEN [left EXCEPT !.x = Smaller(g.savedMain.x, g.cols - 1), !.y = Smaller(g.savedMain.y, g.rows - 1)]
          ELSE left
\* The counter of lines restarts; the scrollback and the saved cursors stay.
ResetAll(g) ==
  [WholeRegion(g) EXCEPT !.altActive = FALSE, !.main = BlankScreen(g.cols, g.rows), !.x = 0, !.y = 0,
                         !.alt = BlankScreen(g.cols, g.rows), !.view = 0, !.total = 0]
Resize(g, cols, rows) ==
  LET Kept(s) == [y \in 0 .. rows - 1 |-> [x \in 0 .. cols - 1 |->
                    IF y < g.rows /\ x < g.cols THEN s[y][x] ELSE Blank]]
  IN IF cols = g.cols /\ rows = g.rows THEN g
     ELSE [g EXCEPT !.cols = cols, !.rows = rows, !.main = Kept(@), !.alt = Kept(@),
                    !.x = Smaller(@, cols - 1), !.y = Smaller(@, rows - 1),
                    !.top = 0, !.bot = rows - 1, !.wrap = FALSE, !.view = 0]

----------------------------------------------------------------------------
(* The view.                                                               *)

SetView(g, back) == [g EXCEPT !.view = Clamp(back, 0, Len(g.scrollback))]
ScrollView(g, delta) == IF g.altActive THEN g ELSE SetView(g, g.view + delta)
\* No more lines kept than n, and what is cut is gone for good.
SetScrollbackMax(g, n) ==
  [g EXCEPT !.scrollback = Newest(@, n), !.view = Smaller(@, Smaller(Len(g.scrollback), n))]

\* The lowest row id the grid can address, and the row an id denotes.
Oldest(g) == Unsigned(g.total - Len(g.scrollback))
AbsIndex(g, id) ==
  IF id < Oldest(g) \/ id - Oldest(g) >= Len(g.scrollback) + g.rows THEN -1 ELSE id - Oldest(g)
TopOfView(g) == g.total - g.view
=============================================================================
