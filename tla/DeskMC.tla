------------------------------- MODULE DeskMC -------------------------------
\* A workspace with one pane beside two stacked ones, the second of them locked,
\* and the same one with a profile that has been deleted since.
EXTENDS Desk

TwoWindows == {[cols |-> 11, rows |-> 5], [cols |-> 4, rows |-> 2]}
Node(dir) == [pane |-> NoPane, dir |-> dir, ratio |-> 50]
Nested == (<<>> :> Node("V")) @@ (<<1>> :> Leaf(0)) @@ (<<2>> :> Node("H"))
          @@ (<<2, 1>> :> Leaf(1)) @@ (<<2, 2>> :> Leaf(2))
Saved(others) == [profile |-> "p", others |-> others, layout |-> Nested, focus |-> 1, locked |-> {2}]
TwoWorkspaces == {Saved(<<"p", "p">>), Saved(<<"gone", "p">>)}
\* Layouts rearranged or marked in one tab, a workspace or a tab opened beside one,
\* tabs that end.
Budget(ts, ps, edits, marks, ends) == [tabs |-> ts, panes |-> ps, edits |-> edits, marks |-> marks, ends |-> ends]
FewBudgets == {Budget(0, 2, 2, 0, 0), Budget(0, 2, 1, 1, 0), Budget(1, 2, 0, 0, 0), Budget(1, 1, 0, 1, 0), Budget(2, 1, 0, 0, 2)}
=============================================================================
