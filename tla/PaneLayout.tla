----------------------------- MODULE PaneLayout -----------------------------
(***************************************************************************)
(* The tree of panes of one tab (src/src/sessions/PaneLayout.cpp): its     *)
(* operations as operators, with no state of their own.                    *)
(*                                                                         *)
(* A node is the path to it from the root, 1 for the first child and 2 for *)
(* the second; a layout is a function from its nodes.  The ratio is in     *)
(* hundredths.                                                             *)
(***************************************************************************)
EXTENDS Integers, FiniteSets, Sequences, SequencesExt

CONSTANTS MinCols, MinRows, \* kMinPaneCols and kMinPaneRows
          Step              \* what a resize adds to a ratio, in hundredths

ASSUME LayoutAssumption == MinCols \in Nat \ {0} /\ MinRows \in Nat \ {0} /\ Step \in 1 .. 100

NoPane == -1
Empty == [n \in {} |-> NoPane]   \* before the first split was tried
Leaf(p) == [pane |-> p, dir |-> "V", ratio |-> 50]
Single(p) == [n \in {<<>>} |-> Leaf(p)]

IsLeaf(t, n) == Append(n, 1) \notin DOMAIN t
Leaves(t) == {n \in DOMAIN t : IsLeaf(t, n)}
PanesOf(t) == {t[n].pane : n \in Leaves(t)}
Count(t) == Cardinality(Leaves(t))
LeafOf(t, p) == CHOOSE n \in Leaves(t) : t[n].pane = p
\* Left to right, then top to bottom.
Earlier(m, n) == \E i \in DOMAIN m \cap DOMAIN n : m[i] < n[i] /\ \A j \in 1 .. i - 1 : m[j] = n[j]
Before(t, n) == {m \in Leaves(t) : Earlier(m, n)}
Panes(t) == [i \in 1 .. Count(t) |-> t[CHOOSE n \in Leaves(t) : Cardinality(Before(t, n)) = i - 1].pane]
\* The pane that comes first of some of them.
First(t, ps) ==
  LET all == Panes(t)
  IN all[CHOOSE i \in DOMAIN all : all[i] \in ps /\ \A j \in 1 .. i - 1 : all[j] \notin ps]

\* Every node below the root hangs on another, and has a sibling.
IsTree(t) ==
  /\ IsFiniteSet(DOMAIN t) /\ DOMAIN t \subseteq Seq({1, 2}) /\ <<>> \in DOMAIN t
  /\ t \in [DOMAIN t -> [pane : Nat \cup {NoPane}, dir : {"V", "H"}, ratio : 10 .. 90]]
  /\ \A n \in DOMAIN t : /\ \A k \in 0 .. Len(n) : SubSeq(n, 1, k) \in DOMAIN t
                         /\ Append(n, 1) \in DOMAIN t <=> Append(n, 2) \in DOMAIN t
                         /\ IsLeaf(t, n) => t[n].pane # NoPane

----------------------------------------------------------------------------
(* Geometry, in cells.                                                     *)

Rect(col, row, cols, rows) == [col |-> col, row |-> row, cols |-> cols, rows |-> rows]
Hidden == Rect(0, 0, 0, 0)
Full(w) == Rect(0, 0, w.cols, w.rows)
Visible(r) == r.cols > 0 /\ r.rows > 0

\* One cell is the divider's, the first child has its share of the others and
\* the second what is left.
FirstShare(avail, ratio) == (2 * avail * ratio + 100) \div 200
SecondShare(avail, ratio) == avail - FirstShare(avail, ratio)
Avail(size) == IF size = 0 THEN 0 ELSE size - 1
SplitRect(r, node, child) ==
  LET n == IF node.dir = "V" THEN Avail(r.cols) ELSE Avail(r.rows)
      a == FirstShare(n, node.ratio)  b == SecondShare(n, node.ratio)
  IN CASE node.dir = "V" /\ child = 1 -> [r EXCEPT !.cols = a]
       [] node.dir = "V" /\ child = 2 -> [r EXCEPT !.col = @ + a + 1, !.cols = b]
       [] node.dir = "H" /\ child = 1 -> [r EXCEPT !.rows = a]
       [] node.dir = "H" /\ child = 2 -> [r EXCEPT !.row = @ + a + 1, !.rows = b]
\* The line between the halves.  A rectangle with no cells to share has one too,
\* beside it.
Divider(r, node) ==
  LET a == SplitRect(r, node, 1)
  IN IF node.dir = "V" THEN Rect(a.col + a.cols, r.row, 1, r.rows) ELSE Rect(r.col, a.row + a.rows, r.cols, 1)
Walk(t, w) ==
  LET rect[n \in DOMAIN t] == IF n = <<>> THEN Full(w) ELSE SplitRect(rect[Front(n)], t[Front(n)], Last(n))
  IN rect

Zoomed(t, zoom) == zoom # NoPane /\ zoom \in PanesOf(t)
\* The rectangle of every pane; the zoomed one has the whole area.
Rects(t, zoom, w) ==
  LET rect == Walk(t, w) IN
  [p \in PanesOf(t) |-> IF ~Zoomed(t, zoom) THEN rect[LeafOf(t, p)]
                        ELSE IF p = zoom THEN Full(w) ELSE Hidden]
\* The panes that a click can hit: those with a cell.
Clickable(rects) == {p \in DOMAIN rects : Visible(rects[p])}

----------------------------------------------------------------------------
(* Structure.                                                              *)

HasRoom(r, dir) == IF dir = "V" THEN r.cols >= 2 * MinCols + 1 ELSE r.rows >= 2 * MinRows + 1
CanSplit(t, zoom, p, dir, w) == p \in PanesOf(t) /\ HasRoom(Rects(t, zoom, w)[p], dir)
Split(t, p, new, dir) ==
  LET n == LeafOf(t, p) IN
  [m \in DOMAIN t \cup {Append(n, 1), Append(n, 2)} |->
     CASE m = n -> [pane |-> NoPane, dir |-> dir, ratio |-> 50]
       [] m = Append(n, 1) -> Leaf(p)
       [] m = Append(n, 2) -> Leaf(new)
       [] OTHER -> t[m]]

\* The sibling, with what is below it, takes the place of the split.
Close(t, p) ==
  LET gone == LeafOf(t, p)  par == Front(gone)  keep == Append(par, 3 - Last(gone))
      Lifted(n) == par \o SubSeq(n, Len(keep) + 1, Len(n))
      Above == {n \in DOMAIN t : ~IsPrefix(par, n)}
      Kept  == {n \in DOMAIN t : IsPrefix(keep, n)}
  IN [n \in Above \cup {Lifted(k) : k \in Kept} |->
        IF n \in Above THEN t[n] ELSE t[keep \o SubSeq(n, Len(par) + 1, Len(n))]]

Swap(t, p, q) ==
  [n \in DOMAIN t |-> [t[n] EXCEPT !.pane = IF @ = p THEN q ELSE IF @ = q THEN p ELSE @]]
LeaveOut(t, p, w) == t                                                               \* (faulty)
\* Puts p back beside the first pane that has room for it.
Restore(t, p, w) ==
  LET hosts == {h \in PanesOf(t) : \E dir \in {"V", "H"} : CanSplit(t, NoPane, h, dir, w)}
      host  == First(t, hosts)
  IN IF hosts = {} THEN t
     ELSE Split(t, host, p, IF CanSplit(t, NoPane, host, "V", w) THEN "V" ELSE "H")
\* Taken out first, so that the room it leaves counts.
Move(t, p, to, dir, w) ==
  LET rest == Close(t, p) IN
  IF CanSplit(rest, NoPane, to, dir, w) THEN Split(rest, to, p, dir) ELSE Restore(rest, p, w)

ParentOf(t, p) == Front(LeafOf(t, p))
Turned(dir) == IF dir = "V" THEN "H" ELSE "V"
Rotate(t, p) == [t EXCEPT ![ParentOf(t, p)].dir = Turned(@)]
Clamped(r) == IF r < 10 THEN 10 ELSE IF r > 90 THEN 90 ELSE r
\* A positive delta grows the named pane, whichever side it is on.
Resize(t, p, delta) ==
  [t EXCEPT ![ParentOf(t, p)].ratio = Clamped(@ + (IF Last(LeafOf(t, p)) = 1 THEN delta ELSE -delta))]

----------------------------------------------------------------------------
(* Navigation.                                                             *)

Spans(lo, len, other, olen) == lo < other + olen /\ lo + len > other
\* How far r lies in a direction from me, or -1.
Gap(me, r, d) ==
  LET beside == Spans(r.row, r.rows, me.row, me.rows)  stacked == Spans(r.col, r.cols, me.col, me.cols)
      g == CASE d = "Left"  -> me.col - (r.col + r.cols)
             [] d = "Right" -> r.col - (me.col + me.cols)
             [] d = "Up"    -> me.row - (r.row + r.rows)
             [] d = "Down"  -> r.row - (me.row + me.rows)
  IN IF (IF d \in {"Left", "Right"} THEN beside ELSE stacked) THEN g ELSE -1
\* The nearest pane that way, by its looks rather than by the tree; of two as
\* near the one that comes first.
Neighbour(t, zoom, from, d, w) ==
  LET rects == Rects(t, zoom, w)
      GapTo(p) == Gap(rects[from], rects[p], d)
      there == {p \in DOMAIN rects \ {from} : Visible(rects[p]) /\ GapTo(p) >= 0}
      nearest == {p \in there : \A q \in there : GapTo(p) <= GapTo(q)}
  IN IF from \notin DOMAIN rects \/ rects[from].cols = 0 \/ there = {} THEN NoPane ELSE First(t, nearest)
Cycle(t, from, delta) ==
  LET all == Panes(t)  i == CHOOSE i \in DOMAIN all : all[i] = from IN
  IF all = <<>> THEN NoPane
  ELSE IF from \notin Range(all) THEN all[1] ELSE all[((i - 1 + delta) % Len(all)) + 1]

----------------------------------------------------------------------------
(* Serialisation: a leaf is the place of its pane in order, from 0, and 0  *)
(* for one that is not there.                                              *)

Placed(order, p) == IF p \in Range(order) THEN (CHOOSE i \in DOMAIN order : order[i] = p) - 1 ELSE 0
Renamed(t, F(_)) == [n \in DOMAIN t |-> IF IsLeaf(t, n) THEN [t[n] EXCEPT !.pane = F(@)] ELSE t[n]]
SerializeAsShown(t, order) == Renamed(t, LAMBDA p : Placed(Panes(t), p))             \* (faulty)
Serialize(t, order) == Renamed(t, LAMBDA p : Placed(order, p))
\* Read only when every pane is named exactly once.
Readable(s, order) ==
  /\ \A n \in Leaves(s) : s[n].pane < Len(order)
  /\ Count(s) = Len(order) /\ {s[n].pane : n \in Leaves(s)} = 0 .. Len(order) - 1
Deserialize(s, order) == Renamed(s, LAMBDA i : order[i + 1])
=============================================================================
