----------------------------- MODULE TerminalMC -----------------------------
\* A screen a program has drawn, then edited; and a shell at a prompt.
EXTENDS Terminal

Row4(a, b, c, d) == [x \in 0 .. 3 |-> <<a, b, c, d>>[x + 1]]
Rows4 == {Row4(WideLead, WideTail, WideLead, WideTail), Row4(Narrow, WideLead, WideTail, Narrow), Row4(Indicator, WideLead, WideTail, Narrow)}
Drawn(row, x, y) ==
  [Fresh(4, 2) EXCEPT !.main = [i \in 0 .. 1 |-> IF i = y THEN row ELSE BlankRow(4)],
                      !.x = x, !.y = y, !.lastX = x - 1, !.lastY = y]
DrawnScreens == {Drawn(r, x, y) : r \in Rows4, x \in 0 .. 3, y \in 0 .. 1}

Budget(e, l, m, r, u) == [edits |-> e, lines |-> l, marks |-> m, resets |-> r, user |-> u]
Scenario(gs, b) == [screens |-> gs, budget |-> b]
\* Edits of what is drawn, with a line fed or the window resized; lines fed over it and a
\* reset; marks alone, folded and searched, around an edit, around a reset.
Prompt == {Fresh(2, 2)}
ManyScenarios == {
  Scenario(DrawnScreens, Budget(2, 1, 0, 0, 1)), Scenario(DrawnScreens, Budget(3, 0, 0, 0, 0)),
  Scenario(DrawnScreens, Budget(1, 3, 0, 1, 0)),
  Scenario(Prompt, Budget(0, 3, 5, 0, 0)), Scenario(Prompt, Budget(0, 1, 4, 0, 2)), Scenario(Prompt, Budget(0, 2, 3, 0, 2)),
  Scenario(Prompt, Budget(1, 2, 3, 0, 0)), Scenario(Prompt, Budget(0, 2, 4, 1, 0))}
TwoSizes == {[cols |-> 3, rows |-> 3], [cols |-> 2, rows |-> 2]}
=============================================================================
