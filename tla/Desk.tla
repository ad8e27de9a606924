-------------------------------- MODULE Desk --------------------------------
(***************************************************************************)
(* The tabs of one window and the panes of each: splitting, closing,       *)
(* moving, zooming and locking panes, the broadcast set, the closing       *)
(* animation and close-on-exit, and workspaces saved and reopened          *)
(* (src/src/app.cpp over src/src/sessions/PaneLayout.cpp).                 *)
(*                                                                         *)
(* Everything runs on the UI thread, one command at a time.  All profiles  *)
(* leave the same gap around the grid.                                     *)
(***************************************************************************)
EXTENDS PaneLayout

CONSTANTS Windows,     \* the grids a window can have, [cols, rows]
          Profiles,    \* the ids of the profiles that are saved
          AdHoc,       \* the id of a profile that was not saved: the empty one
          Workspaces,  \* what can be reopened: saved tabs, as SaveTab writes them
          Budgets      \* bounds: how many more tabs are opened, panes made, layouts
                       \* rearranged, panes locked or named as targets, and tabs
                       \* closed or shells ended

Dirs == {"Left", "Right", "Up", "Down"}

ASSUME DeskAssumption ==
  /\ Windows \subseteq [cols : Nat \ {0, 1}, rows : Nat \ {0, 1}] /\ Windows # {}
  /\ AdHoc \notin Profiles /\ Profiles \cup {AdHoc} \subseteq STRING
  /\ \A w \in Workspaces :
       /\ w \in [profile : STRING, others : Seq(STRING), layout : {w.layout}, focus : Nat, locked : SUBSET Nat]
       /\ w.layout = Empty \/ IsTree(w.layout)
  /\ Budgets \subseteq [tabs : Nat, panes : Nat, edits : Nat, marks : Nat, ends : Nat]

VARIABLES
  tabs,    \* m_sessions: each tab's id, its panes' sessions by pane id, its layout,
           \* zoom, focus, broadcast set, next pane id and whether its shell has exited
  active,  \* m_active, from 1; 0 for none
  window,  \* the grid
  closing, \* m_closingTab, from 1, or 0, and (a history) the id of the tab it was asked for
  budget   \* what remains of the bounds

deskVars == <<tabs, active, window, closing, budget>>

Session(profile, size) == [profile |-> profile, readOnly |-> FALSE, size |-> size]
NewTab(id, profile) ==
  [id |-> id, panes |-> [p \in {0} |-> Session(profile, window)], tree |-> Empty, zoom |-> NoPane,
   focus |-> 0, broadcast |-> {}, next |-> 1, exited |-> FALSE]
NotClosing == [at |-> 0, id |-> 0]

DeskInit ==
  /\ window \in Windows
  /\ \E p \in Profiles \cup {AdHoc} : tabs = <<NewTab(0, p)>>
  /\ active = 1 /\ closing = NotClosing /\ budget \in Budgets

Spend(what) == budget[what] > 0 /\ budget' = [budget EXCEPT ![what] = @ - 1]
Cur == tabs[active]
SetCur(t) == tabs' = [tabs EXCEPT ![active] = t]

----------------------------------------------------------------------------
(* The grid.                                                               *)

\* A lone pane is the tab's own and has the whole grid.  A hidden pane keeps the
\* size it had, which is not followed.
Unfollowed == [cols |-> 0, rows |-> 0]
SizeTab(t, w) ==
  LET rects == Rects(t.tree, t.zoom, w)
      NewSize(p) == IF Count(t.tree) <= 1 THEN IF p = 0 THEN w ELSE Unfollowed
                    ELSE IF p \in DOMAIN rects /\ Visible(rects[p])
                         THEN [cols |-> rects[p].cols, rows |-> rects[p].rows]
                         ELSE Unfollowed
  IN [t EXCEPT !.panes = [p \in DOMAIN t.panes |-> [t.panes[p] EXCEPT !.size = NewSize(p)]]]
UpdateActiveTab(ts, w) == [ts EXCEPT ![active] = SizeTab(@, w)]                      \* (faulty)
UpdateGridDims(ts, w) == [i \in DOMAIN ts |-> SizeTab(ts[i], w)]

ResizeWindow ==
  /\ window' \in Windows \ {window}
  /\ tabs' = UpdateGridDims(tabs, window')
  /\ UNCHANGED <<active, closing, budget>>

----------------------------------------------------------------------------
(* Tabs.                                                                   *)

\* A profile is connected from the connection dialog, which lays everything out
\* again, or from the jump list, which does not.
Opens(t) == \E ts \in {UpdateGridDims(Append(tabs, t), window), Append(tabs, t)} : tabs' = ts /\ active' = Len(ts)
ConnectProfile ==
  /\ Spend("tabs") /\ \E p \in Profiles \cup {AdHoc} : Opens(NewTab(budget.tabs, p))
  /\ UNCHANGED <<window, closing>>

\* The tab's own session is given the whole grid, split or not.
Selected(ts, i) == [ts EXCEPT ![i].panes[0].size = window]
SelectTab ==
  /\ \E i \in DOMAIN tabs : active' = i /\ tabs' = Selected(tabs, i)
  /\ UNCHANGED <<window, closing, budget>>

CloseSessionNow(ts, i) ==
  LET left == RemoveAt(ts, i)  next == IF i > Len(left) THEN Len(left) ELSE i IN
  /\ active' = next
  /\ tabs' = IF left = <<>> THEN left ELSE Selected(left, next)

MayCloseHidden(i, minimized) == closing.at = 0 \/ i # active \/ minimized            \* (faulty)
MayClose(i, minimized) == closing.at = 0
\* The tab in front collapses first; any other goes at once.
CloseSession(ts, i, minimized) ==
  /\ MayClose(i, minimized)
  /\ IF i # active \/ minimized
     THEN CloseSessionNow(ts, i) /\ UNCHANGED closing
     ELSE closing' = [at |-> i, id |-> ts[i].id] /\ tabs' = ts /\ UNCHANGED active
  /\ UNCHANGED window
CloseTab == Spend("ends") /\ \E i \in DOMAIN tabs : CloseSession(tabs, i, FALSE)

\* The shell of a tab ends and its profile says to close on exit.
ShellExits ==
  /\ Spend("ends")
  /\ \E i \in DOMAIN tabs : ~tabs[i].exited /\ tabs' = [tabs EXCEPT ![i].exited = TRUE]
  /\ UNCHANGED <<active, window, closing>>
Ticks == closing.at = 0
\* The first tab that asked is closed, one at a time.
CloseExited ==
  /\ Ticks
  /\ \E i \in DOMAIN tabs, minimized \in BOOLEAN :
       /\ tabs[i].exited /\ \A j \in 1 .. i - 1 : ~tabs[j].exited
       /\ LET ts == [tabs EXCEPT ![i].exited = FALSE] IN
            IF closing.at = 0 THEN CloseSession(ts, i, minimized)
            ELSE tabs' = ts /\ UNCHANGED <<active, window, closing>>
  /\ UNCHANGED budget
\* The animation is over.
FinishClosing ==
  /\ closing.at # 0 /\ closing' = NotClosing
  /\ CloseSessionNow(tabs, closing.at)
  /\ UNCHANGED <<window, budget>>

----------------------------------------------------------------------------
(* Panes of the tab in front.                                              *)

Others == UNCHANGED <<active, window, closing>>
Rest == Others /\ UNCHANGED budget
Rearranges == Spend("edits") /\ Others
Marks == Spend("marks") /\ Others
LayOut(t) == tabs' = UpdateGridDims([tabs EXCEPT ![active] = t], window)
\* The tab with its focused pane split for a session of the profile; as it was
\* where the layout refuses.
Started(t) == IF t.tree = Empty THEN [t EXCEPT !.tree = Single(0)] ELSE t
Targets(t, new) == t.broadcast
AddPane(t, profile, dir) ==
  LET s == Started(t)  new == t.next IN
  IF ~CanSplit(s.tree, s.zoom, s.focus, dir, window) THEN s
  ELSE [s EXCEPT !.tree = Split(@, s.focus, new, dir), !.zoom = NoPane, !.focus = new,
                 !.next = @ + 1, !.broadcast = Targets(t, new),
                 !.panes = [p \in DOMAIN @ \cup {new} |-> IF p = new THEN Session(profile, window) ELSE @[p]]]
SplitFor(profile, dir) ==
  LET t == AddPane(Cur, profile, dir) IN IF t.next = Cur.next THEN SetCur(t) ELSE LayOut(t)
SplitPane ==
  /\ active # 0 /\ Spend("panes")
  /\ \E dir \in {"V", "H"} : SplitFor(Cur.panes[Cur.focus].profile, dir)
  /\ Others

WithoutFocus(t) == t.broadcast \ {t.focus}
\* The tab's own pane stays.
CloseSplit ==
  /\ active # 0 /\ Count(Cur.tree) > 1 /\ Cur.focus # 0 /\ Cur.focus \in PanesOf(Cur.tree)
  /\ LET gone == Cur.focus  left == Close(Cur.tree, gone) IN
       LayOut([Cur EXCEPT !.tree = left, !.zoom = IF @ = gone THEN NoPane ELSE @,
                          !.focus = First(left, PanesOf(left)), !.broadcast = WithoutFocus(Cur),
                          !.panes = [p \in DOMAIN @ \ {gone} |-> @[p]]])
  /\ Rest

FocusPane ==
  /\ active # 0
  /\ \/ \E d \in Dirs : LET to == Neighbour(Cur.tree, Cur.zoom, Cur.focus, d, window) IN
          to # NoPane /\ SetCur([Cur EXCEPT !.focus = to])
     \/ \E delta \in {1, -1} : LET to == Cycle(Cur.tree, Cur.focus, delta) IN
          to \notin {NoPane, Cur.focus} /\ SetCur([Cur EXCEPT !.focus = to])
     \/ Count(Cur.tree) > 1 /\ \E p \in Clickable(Rects(Cur.tree, Cur.zoom, window)) : SetCur([Cur EXCEPT !.focus = p])
  /\ Rest

MovePane ==
  /\ active # 0
  /\ \E d \in Dirs : LET to == Neighbour(Cur.tree, Cur.zoom, Cur.focus, d, window) IN
       /\ to # NoPane
       /\ LayOut([Cur EXCEPT !.tree =
            Move(@, Cur.focus, to, IF d \in {"Left", "Right"} THEN "V" ELSE "H", window)])
  /\ Rearranges
SwapPaneWith ==
  /\ active # 0
  /\ \E d \in Dirs : LET to == Neighbour(Cur.tree, Cur.zoom, Cur.focus, d, window) IN
       to # NoPane /\ LayOut([Cur EXCEPT !.tree = Swap(@, Cur.focus, to)])
  /\ Rearranges
\* The focused pane is one of two halves.
HasSibling == active # 0 /\ Count(Cur.tree) > 1 /\ Cur.focus \in PanesOf(Cur.tree)
ResizePane ==
  /\ HasSibling
  /\ \E delta \in {Step, -Step} : LayOut([Cur EXCEPT !.tree = Resize(@, Cur.focus, delta)])
  /\ Rearranges
RotatePane == HasSibling /\ LayOut([Cur EXCEPT !.tree = Rotate(@, Cur.focus)]) /\ Rearranges
ToggleZoomPane ==
  /\ active # 0 /\ Count(Cur.tree) > 1
  /\ LayOut([Cur EXCEPT !.zoom = IF Zoomed(Cur.tree, @) THEN NoPane ELSE Cur.focus])
  /\ Rest

\* A pane that is locked leaves the broadcast.
ToggleReadOnlyPane ==
  /\ active # 0
  /\ LET lock == ~Cur.panes[Cur.focus].readOnly IN
       SetCur([Cur EXCEPT !.panes[Cur.focus].readOnly = lock,
                          !.broadcast = IF lock THEN WithoutFocus(Cur) ELSE @])
  /\ Marks
Unlocked(t) == {p \in PanesOf(t.tree) \cap DOMAIN t.panes : ~t.panes[p].readOnly}
PickBroadcastTargets ==
  /\ active # 0 /\ Count(Cur.tree) > 1
  /\ \E p \in Unlocked(Cur) : SetCur([Cur EXCEPT !.broadcast = SymDiff(@, {p})])
  /\ Marks
BroadcastAll == active # 0 /\ SetCur([Cur EXCEPT !.broadcast = Unlocked(Cur)]) /\ Marks
StopBroadcast == active # 0 /\ SetCur([Cur EXCEPT !.broadcast = {}]) /\ Marks

----------------------------------------------------------------------------
(* Workspaces.                                                             *)

\* The tab's own pane and then, in id order, those of its others that came from
\* a saved profile.
SavedPanes(t) == <<0>> \o SetToSortSeq({p \in PanesOf(t.tree) \ {0} : t.panes[p].profile # AdHoc}, <)
SaveTab(t) ==
  LET ps == IF Count(t.tree) > 1 THEN SavedPanes(t) ELSE <<0>>
      Index(p) == Placed(ps, p)
  IN [profile |-> t.panes[0].profile, others |-> [i \in 1 .. Len(ps) - 1 |-> t.panes[ps[i + 1]].profile],
      layout |-> IF Len(ps) = 1 THEN Empty ELSE Serialize(t.tree, SavedPanes(t)),
      focus |-> IF Len(ps) = 1 THEN 0 ELSE Index(t.focus),
      locked |-> IF Len(ps) = 1 THEN {} ELSE {Index(p) : p \in {p \in Range(ps) : t.panes[p].readOnly}}]

\* Each pane is split off the one before; one whose profile is gone is passed
\* over, and the first that finds no room is the last.
AddSaved(s, profile) ==
  LET t == AddPane(s.tab, profile, "V") IN
  IF s.full \/ profile \notin Profiles THEN s
  ELSE IF t.next = s.tab.next THEN [s EXCEPT !.tab = t, !.full = TRUE]
  ELSE [s EXCEPT !.tab = t, !.order = Append(@, s.tab.next)]
Reopened(w, id) ==
  LET upto[k \in 0 .. Len(w.others)] ==
        IF k = 0 THEN [tab |-> NewTab(id, w.profile), order |-> <<0>>, full |-> FALSE]
        ELSE AddSaved(upto[k - 1], w.others[k])
  IN upto[Len(w.others)]
\* The layout comes back where it names every pane once; the locks and the focus
\* by their place in the order, and no broadcast and no zoom.
OpenWorkspaceTab(w, id) ==
  LET s == Reopened(w, id)  t == s.tab
      Locked(p) == \E k \in w.locked : k < Len(s.order) /\ s.order[k + 1] = p
  IN [t EXCEPT
       !.tree  = IF w.layout # Empty /\ Len(s.order) > 1 /\ Readable(w.layout, s.order)
                 THEN Deserialize(w.layout, s.order) ELSE @,
       !.panes = [p \in DOMAIN t.panes |-> [t.panes[p] EXCEPT !.readOnly = @ \/ Locked(p)]],
       !.focus = IF w.focus < Len(s.order) THEN s.order[w.focus + 1] ELSE @,
       !.broadcast = {}, !.zoom = NoPane]
\* A workspace of several tabs is opened tab by tab.
OpenWorkspace ==
  /\ \E w \in Workspaces :
       /\ budget.tabs > 0 /\ budget.panes >= Len(w.others)
       /\ budget' = [budget EXCEPT !.tabs = @ - 1, !.panes = @ - Len(w.others)]
       /\ w.profile \in Profiles
       /\ tabs' = UpdateGridDims(Append(tabs, OpenWorkspaceTab(w, budget.tabs)), window) /\ active' = Len(tabs')
  /\ UNCHANGED <<window, closing>>

DeskNext == \/ ResizeWindow \/ ConnectProfile \/ SelectTab \/ CloseTab \/ ShellExits \/ CloseExited \/ FinishClosing
        \/ SplitPane \/ CloseSplit \/ FocusPane \/ MovePane \/ SwapPaneWith \/ ResizePane \/ RotatePane
        \/ ToggleZoomPane \/ ToggleReadOnlyPane \/ PickBroadcastTargets \/ BroadcastAll \/ StopBroadcast
        \/ OpenWorkspace
DeskSpec == DeskInit /\ [][DeskNext]_deskVars
----------------------------------------------------------------------------
(* Properties.                                                             *)

Sizes == [cols : Nat, rows : Nat]
\* Tabs, panes, layouts and sizes have their types, and the active index is one
\* of a tab while there are any.
DeskTypeOK ==
  /\ window \in Windows /\ budget \in [tabs : Nat, panes : Nat, edits : Nat, marks : Nat, ends : Nat]
  /\ active \in DOMAIN tabs \cup {0} /\ (active = 0 <=> tabs = <<>>)
  /\ closing \in [at : Nat, id : Nat]
  /\ \A i \in DOMAIN tabs : LET t == tabs[i] IN
       /\ t.id \in Nat /\ t.exited \in BOOLEAN /\ t.next \in Nat
       /\ \A p \in DOMAIN t.panes :
            p \in 0 .. t.next - 1 /\ t.panes[p] \in [profile : Profiles \cup {AdHoc}, readOnly : BOOLEAN, size : Sizes]
       /\ \A n \in DOMAIN t.tree : t.tree[n] \in [pane : Nat \cup {NoPane}, dir : {"V", "H"}, ratio : 10 .. 90]

\* What a tab refers to is alive: its focus, its zoom, every pane its layout shows
\* and every target of its broadcast, none of which is locked.
RefersToTheLiving ==
  \A i \in DOMAIN tabs : LET t == tabs[i] IN
    /\ PanesOf(t.tree) \cup ({t.focus, t.zoom, 0} \ {NoPane}) \subseteq DOMAIN t.panes
    /\ t.broadcast \subseteq {p \in DOMAIN t.panes : ~t.panes[p].readOnly}

\* No pane has a cell outside the grid or of another pane.  While every split has
\* cells to share, each cell is one pane's or one divider's.
CellsOf(r) == (r.col .. r.col + r.cols - 1) \X (r.row .. r.row + r.rows - 1)
Owned(t, w) ==
  LET rect == Walk(t, w) IN
  [n \in DOMAIN t |-> CellsOf(IF IsLeaf(t, n) THEN rect[n] ELSE Divider(rect[n], t[n]))]
CellsOwnedOnce ==
  \A i \in DOMAIN tabs : tabs[i].tree # Empty =>
    LET t == tabs[i].tree  own == Owned(t, window)  grid == CellsOf(Full(window))
        Apart(ns) == \A m, n \in ns : m # n => own[m] \cap own[n] = {}
    IN /\ Apart(Leaves(t)) /\ \A n \in Leaves(t) : own[n] \subseteq grid
       /\ (\A n \in DOMAIN t \ Leaves(t) : Visible(Walk(t, window)[n])) =>
            Apart(DOMAIN t) /\ UNION Range(own) = grid

\* The size a server was last told is the one its pane has on the screen, in
\* every tab, or the whole grid for the own pane of a tab that was selected.
SizesTold ==
  \A i \in DOMAIN tabs : LET t == tabs[i]  rects == Rects(t.tree, t.zoom, window) IN
    0 \in DOMAIN rects => \A p \in Clickable(rects) :
      \/ t.panes[p].size = [cols |-> rects[p].cols, rows |-> rects[p].rows]
      \/ p = 0 /\ t.panes[p].size = window

SameTab(i, j) == i \in DOMAIN tabs /\ j \in DOMAIN tabs' /\ tabs[i].id = tabs'[j].id
\* A pane that lives on stays in its layout unless no pane left in it could be
\* split.
NoPaneVanishes ==
  [][\A i \in DOMAIN tabs, j \in DOMAIN tabs' : SameTab(i, j) =>
       LET now == PanesOf(tabs'[j].tree) IN
       \A p \in (PanesOf(tabs[i].tree) \cap DOMAIN (tabs'[j].panes)) \ now :
         \A q \in now, dir \in {"V", "H"} : ~CanSplit(tabs'[j].tree, NoPane, q, dir, window)]_deskVars

\* A split leaves room for a terminal in both halves, unless it was made in a
\* zoomed pane.
SplitsHaveRoom ==
  [][\A i \in DOMAIN tabs, j \in DOMAIN tabs' :
       SameTab(i, j) /\ tabs'[j].next > tabs[i].next /\ tabs[i].zoom = NoPane =>
         LET rects == Rects(tabs'[j].tree, NoPane, window)
             halves == {tabs[i].next, tabs[i].focus}
             Usable(r) == r.cols >= MinCols /\ r.rows >= MinRows
         IN Usable(Rects(Started(tabs[i]).tree, NoPane, window)[tabs[i].focus]) =>
              \A p \in halves : Usable(rects[p])]_deskVars

\* A session that has just been started is nobody's broadcast target, whatever
\* its tab was broadcasting.
NeverSweptIn ==
  [][\A j \in DOMAIN tabs' : \A p \in tabs'[j].broadcast :
       \E i \in DOMAIN tabs : SameTab(i, j) /\ p \in DOMAIN tabs[i].panes]_deskVars

\* The tab that is torn down when the animation ends is the one that was closed.
ClosesTheRightTab == closing.at # 0 => closing.at \in DOMAIN tabs /\ tabs[closing.at].id = closing.id

\* A tab whose shell has exited keeps asking to be closed until it is closing.
NoExitForgotten ==
  [][\A i \in DOMAIN tabs, j \in DOMAIN tabs' : SameTab(i, j) /\ tabs[i].exited =>
       tabs'[j].exited \/ closing'.id = tabs'[j].id]_deskVars

\* What a reopened tab has of the one that was saved: its layout, its profiles,
\* its locks and its focus.
IsBack(back, t) ==
  /\ DOMAIN back.tree = DOMAIN t.tree
  /\ \A n \in DOMAIN t.tree :
       IF ~IsLeaf(t.tree, n) THEN back.tree[n] = t.tree[n]
       ELSE LET p == t.tree[n].pane  q == back.tree[n].pane IN
            /\ back.panes[q].readOnly = t.panes[p].readOnly
            /\ back.panes[q].profile = t.panes[p].profile
            /\ q = back.focus <=> p = t.focus
Saveable(t) ==
  /\ Count(t.tree) > 1 /\ 0 \in PanesOf(t.tree) /\ t.focus \in PanesOf(t.tree)
  /\ \A p \in PanesOf(t.tree) : t.panes[p].profile \in Profiles
ComesBack(t, w) == Reopened(w, 1).full \/ IsBack(OpenWorkspaceTab(w, 1), t)
\* A split tab saved now and reopened, with its profiles still there and room for
\* its panes, has its layout, its focus and its locks again.
RoundTrip == \A i \in DOMAIN tabs : Saveable(tabs[i]) => ComesBack(tabs[i], SaveTab(tabs[i]))

\* Every name that outlives a command, an index, a pane's id, names what it was given for.
ReferencesHold == DeskTypeOK /\ RefersToTheLiving /\ ClosesTheRightTab

\* The grid is shared out once, and each server knows its share.
GridShared == CellsOwnedOnce /\ SizesTold

\* No command loses a pane, starves one, types into one unasked, or forgets an exit.
NobodyForgotten == NoPaneVanishes /\ SplitsHaveRoom /\ NeverSweptIn /\ NoExitForgotten
=============================================================================
