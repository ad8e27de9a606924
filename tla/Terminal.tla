------------------------------ MODULE Terminal ------------------------------
(***************************************************************************)
(* One terminal: the escape sequences that reach its grid                  *)
(* (src/src/term/vtparser.cpp over Grid) and the command blocks the app    *)
(* keeps from the shell's OSC 133 marks (src/src/app.cpp,                  *)
(* src/src/sessions/CommandBlocks.cpp).                                    *)
(*                                                                         *)
(* A block names rows of the grid by ids that count every line ever        *)
(* pushed.  Sequences, frames, drops of the link and the user's commands   *)
(* come in any order; marks may be missing or repeated, as a shell's may.  *)
(* Journal and screen text are the serial of the command they belong to.   *)
(***************************************************************************)
EXTENDS Grid, SequencesExt

CONSTANTS Scenarios, \* what to start from: grids, fresh or as a program has drawn them, and
                     \* the bound on the edits, lines, marks, resets and user's changes to come
          Sizes,     \* what a grid can be resized to, [cols, rows]
          Counts,    \* the parameters sequences are given
          MaxBlocks  \* kMaxBlocks

Budgets == [edits : Nat, lines : Nat, marks : Nat, resets : Nat, user : Nat]
Screens == UNION {s.screens : s \in Scenarios}
Widths  == {z.cols : z \in Sizes} \cup {g.cols : g \in Screens}
Heights == {z.rows : z \in Sizes} \cup {g.rows : g \in Screens}
\* Row ids stand for 64-bit ones: they do not run out.
FitsIn(g, b) == \A h \in Heights : g.total + b.edits + b.lines + 2 * h + ScrollbackMax < RowIds

ASSUME TerminalAssumption ==
  /\ \A z \in Sizes : {z.cols, z.rows} \subseteq Nat \ {0, 1}
  /\ Counts \subseteq Nat \ {0} /\ MaxBlocks \in Nat \ {0}
  /\ \A s \in Scenarios : s.budget \in Budgets
  /\ \A s \in Scenarios : \A g \in s.screens :
       /\ {g.cols, g.rows} \subseteq Nat \ {0, 1} /\ Sound(g, Widths)
       /\ ~g.altActive /\ FitsIn(g, s.budget)

VARIABLES
  grid,
  blocks, nextBlockId, runningBlockId, \* the session's command blocks
  outputStartRow,   \* the row of the last C mark, 0 for none
  blocksPushedSeen, \* the counter of lines at the last frame
  cmdRunning,       \* between C and D
  pendingCmd,       \* the command lifted at C and not yet filed, 0 for none
  notifyRunning,    \* 0, or (a history) the command running when the user asked
  journal,          \* the commands filed, in order
  undefined,        \* the process stopped on undefined behaviour
  cmds, high, left, \* histories: commands started; the highest row marked, Unordered once
                    \* a mark was above it; where the cursor was when the main screen was left
  budget

shell == <<blocks, nextBlockId, runningBlockId, outputStartRow, cmdRunning, pendingCmd,
           notifyRunning, journal, cmds, high>>
vars == <<grid, shell, blocksPushedSeen, undefined, left, budget>>

Nowhere == <<-1, -1>>
Unordered == RowIds

Init ==
  /\ \E s \in Scenarios : grid \in s.screens /\ budget = s.budget
  /\ blocks = <<>> /\ nextBlockId = 1 /\ runningBlockId = 0 /\ outputStartRow = 0
  /\ blocksPushedSeen = 0 /\ cmdRunning = FALSE /\ pendingCmd = 0 /\ notifyRunning = 0
  /\ journal = <<>> /\ undefined = FALSE /\ cmds = 0 /\ high = 0 /\ left = Nowhere

Spend(what) == ~undefined /\ budget[what] > 0 /\ budget' = [budget EXCEPT ![what] = @ - 1]
\* The grid changes, and with it where the main screen was left.
Becomes(g) ==
  /\ grid' = g
  /\ left' = IF ~g.altActive THEN Nowhere ELSE IF grid.altActive THEN left ELSE <<grid.x, grid.y>>

----------------------------------------------------------------------------
(* Sequences that edit the screen.                                         *)

Edit(g) == Becomes(g) /\ Spend("edits") /\ UNCHANGED <<shell, blocksPushedSeen, undefined>>

PrintChar == \E k \in Printed, insert, autowrap \in BOOLEAN : Edit(PutChar(grid, k, insert, autowrap))
\* CUU, CUD, CUF, CUB, CNL, CPL, CHA, VPA, CUP, HT, BS and CR.
MoveTo == \E x \in Columns(grid), y \in Rows(grid) : Edit(SetCursor(grid, x, y))
Erase == \E mode \in 0 .. 3 : Edit(EraseDisplay(grid, mode)) \/ (mode < 3 /\ Edit(EraseLine(grid, mode)))
ShiftChars == \E n \in Counts : \/ Edit(InsertChars(grid, n))
                                \/ Edit(DeleteChars(grid, n))
                                \/ Edit(EraseChars(grid, n))
ShiftLines == \E n \in Counts : \/ Edit(InsertLines(grid, n)) \/ Edit(DeleteLines(grid, n))
                                \/ Edit(ScrollUp(grid, n)) \/ Edit(ScrollDown(grid, n))
SetMargins == \E top, bot \in Rows(grid) : Edit(SetScrollRegion(grid, top, bot))
IndexUp == Edit(ReverseIndex(grid))
SaveOrRestore == Edit(SaveCursor(grid)) \/ Edit(RestoreCursor(grid))
\* ?47 and ?1047, then ?1049.
AltScreen ==
  \/ Edit(EnterAlt(grid)) \/ Edit(ExitAlt(grid))
  \/ Edit(EraseDisplay(EnterAlt(SaveCursor(grid)), 2))
  \/ Edit(RestoreCursor(ExitAlt(grid)))

NewLine == Becomes(LineFeed(grid)) /\ Spend("lines") /\ UNCHANGED <<shell, blocksPushedSeen, undefined>>

\* ESC c, or the session connected again.
Reset ==
  /\ Becomes(ResetAll(grid)) /\ Spend("resets")
  /\ blocks' = [i \in DOMAIN blocks |-> [blocks[i] EXCEPT !.old = TRUE]]  \* a history
  /\ UNCHANGED <<nextBlockId, runningBlockId, outputStartRow, cmdRunning, pendingCmd, notifyRunning,
                 journal, cmds, high, blocksPushedSeen, undefined>>

----------------------------------------------------------------------------
(* Command blocks.                                                         *)

NewBlock(row) ==
  [id |-> nextBlockId, prompt |-> row, input |-> row, first |-> 0, last |-> 0, hasOutput |-> FALSE,
   running |-> FALSE, hasExit |-> FALSE, collapsed |-> FALSE, cmd |-> 0, exitOf |-> 0, old |-> FALSE]

Larger(a, b) == IF a > b THEN a ELSE b
LastRow(b) == IF b.hasOutput THEN b.last ELSE Larger(b.input, b.prompt)
FirstRow(b) == IF b.hasOutput THEN b.first ELSE b.prompt                   \* (faulty)
OutlivesRows(bs, oldest) == SelectSeq(bs, LAMBDA b : FirstRow(b) >= oldest) \* (faulty)
\* Those that are left keep their order.
TrimBlocks(bs, oldest) ==
  LET kept == {i \in DOMAIN bs : LastRow(bs[i]) >= oldest}
      Place(i) == Cardinality({j \in kept : j <= i})
  IN [k \in 1 .. Cardinality(kept) |-> bs[CHOOSE i \in kept : Place(i) = k]]

HasOpenBlock(bs) == bs # <<>> /\ ~Last(bs).hasExit
WithLast(bs, b) == [bs EXCEPT ![Len(bs)] = b]

\* The open block ends without a status when the next prompt comes.
ClosedAt(b, row) ==
  IF b.first > 0 /\ row > b.first
  THEN [b EXCEPT !.running = FALSE, !.last = row - 1, !.hasOutput = TRUE]
  ELSE [b EXCEPT !.running = FALSE]
BeginBlock(row) ==
  LET ended == IF HasOpenBlock(blocks) THEN WithLast(blocks, ClosedAt(Last(blocks), row)) ELSE blocks
  IN Newest(TrimBlocks(Append(ended, NewBlock(row)), Oldest(grid)), MaxBlocks)

CursorRow == grid.total + grid.y
\* The blocks once the open one, or else a new one, is the last.
OpenedAt(row) == IF HasOpenBlock(blocks) THEN blocks ELSE BeginBlock(row)
CountBlock == nextBlockId' = IF HasOpenBlock(blocks) THEN nextBlockId ELSE nextBlockId + 1

Mark ==
  /\ Spend("marks")
  /\ high' = IF CursorRow >= high THEN CursorRow ELSE Unordered
  /\ UNCHANGED <<grid, blocksPushedSeen, left>>

MarkPrompt ==
  /\ Mark
  /\ blocks' = BeginBlock(CursorRow)
  /\ nextBlockId' = nextBlockId + 1
  /\ UNCHANGED <<runningBlockId, outputStartRow, cmdRunning, pendingCmd, notifyRunning, journal, cmds, undefined>>

MarkInput ==
  /\ Mark
  /\ LET bs == OpenedAt(CursorRow) IN
       /\ bs # <<>>
       /\ blocks' = WithLast(bs, [Last(bs) EXCEPT !.input = CursorRow])
  /\ CountBlock
  /\ UNCHANGED <<runningBlockId, outputStartRow, cmdRunning, pendingCmd, notifyRunning, journal, cmds, undefined>>

StartsCommand ==
  /\ Mark
  /\ cmds' = cmds + 1 /\ pendingCmd' = cmds + 1
  /\ cmdRunning' = TRUE /\ outputStartRow' = CursorRow
  /\ CountBlock
  /\ UNCHANGED <<notifyRunning, journal>>

MarkOutput ==
  /\ StartsCommand
  /\ LET bs == OpenedAt(CursorRow) IN
       /\ bs # <<>>
       /\ blocks' = WithLast(bs, [Last(bs) EXCEPT !.cmd = cmds + 1, !.first = CursorRow, !.running = TRUE])
       /\ runningBlockId' = Last(bs).id
  /\ UNCHANGED undefined

\* BeginBlock trimmed the block it made and returns the last element of an empty
\* vector: B and C write through it.  The process stops, or goes on with the write
\* lost and whatever id it read.
MarkUndefined ==
  /\ ~HasOpenBlock(blocks) /\ BeginBlock(CursorRow) = <<>>
  /\ blocks' = <<>>
  /\ undefined' \in BOOLEAN
  /\ \/ /\ Mark /\ CountBlock
        /\ UNCHANGED <<runningBlockId, outputStartRow, cmdRunning, pendingCmd, notifyRunning, journal, cmds>>
     \/ StartsCommand /\ runningBlockId' \in 0 .. nextBlockId

\* The D mark ends the open block when a C mark started it.
NoteExit(b, hasCode) ==
  LET ended == [b EXCEPT !.running = FALSE, !.hasExit = hasCode, !.exitOf = IF hasCode THEN cmds ELSE 0]
  IN IF outputStartRow > 0 /\ CursorRow > outputStartRow /\ ~grid.altActive
     THEN [ended EXCEPT !.first = outputStartRow, !.last = CursorRow - 1, !.hasOutput = TRUE]
     ELSE [ended EXCEPT !.hasOutput = FALSE]
EndsAnyBlock(b, hasCode) == TRUE                                           \* (faulty)
EndedBy(b, hasCode) == NoteExit(b, hasCode)
Ends(b, hasCode) == b.running
PendingFiled == pendingCmd' = 0
File == journal' = IF pendingCmd = 0 THEN journal ELSE Append(journal, pendingCmd)

MarkExit(hasCode) ==
  /\ Mark
  /\ IF HasOpenBlock(blocks) /\ Ends(Last(blocks), hasCode)
     THEN /\ blocks' = WithLast(blocks, EndedBy(Last(blocks), hasCode))
          /\ notifyRunning' = 0
     ELSE UNCHANGED <<blocks, notifyRunning>>
  /\ cmdRunning' = FALSE /\ runningBlockId' = 0 /\ outputStartRow' = 0
  /\ File /\ PendingFiled
  /\ UNCHANGED <<nextBlockId, cmds, undefined>>

\* The link dropped while a command ran: filed as interrupted.
NoteInterruptedCommand ==
  /\ ~undefined /\ cmdRunning /\ cmdRunning' = FALSE
  /\ File /\ PendingFiled
  /\ outputStartRow' = 0
  /\ UNCHANGED <<grid, blocks, nextBlockId, runningBlockId, notifyRunning, cmds, high,
                 blocksPushedSeen, undefined, left, budget>>

----------------------------------------------------------------------------
(* Frames and the user.                                                    *)

CounterRestarted == grid.total < blocksPushedSeen
\* The blocks a frame leaves.
Framed(bs) == TrimBlocks(IF CounterRestarted THEN <<>> ELSE bs, Oldest(grid))
FrameShell(bs) ==
  /\ blocks' = Framed(bs)
  /\ blocksPushedSeen' = grid.total
  /\ IF CounterRestarted THEN runningBlockId' = 0 /\ outputStartRow' = 0 /\ notifyRunning' = 0
                         ELSE UNCHANGED <<runningBlockId, outputStartRow, notifyRunning>>

Frame ==
  /\ ~undefined /\ FrameShell(blocks)
  /\ UNCHANGED <<grid, nextBlockId, cmdRunning, pendingCmd, journal, cmds, high, undefined, left, budget>>

Hides(b, id) == b.collapsed /\ b.hasOutput /\ id \in b.first .. b.last
\* The block that folds a view row away, 0 for none.
FoldAt(g, bs, src) ==
  IF g.altActive THEN 0 ELSE SelectInSeq(bs, LAMBDA b : Hides(b, Unsigned(TopOfView(g) + src)))
SkipOneMore(b, id) == b.last - id + 2                                      \* (faulty)
RowsFolded(b, id) == b.last - id + 1
\* A row of the display: the view row it shows and, if it is a summary, the block (its
\* index); and the view row that follows.
SlotAt(g, bs, src) ==
  LET hit == FoldAt(g, bs, src)
  IN [src |-> src, hit |-> hit,
      next |-> src + IF hit = 0 THEN 1 ELSE RowsFolded(bs[hit], Unsigned(TopOfView(g) + src))]
RowMap(g, bs) ==
  LET slot[d \in Rows(g)] == SlotAt(g, bs, IF d = 0 THEN 0 ELSE slot[d - 1].next)
  IN slot

\* A bookmark, a journal entry or a match of a search is shown, unfolded.
LinesBack(g, index) == Clamp(Len(g.scrollback) - index + g.rows \div 2, 0, Len(g.scrollback))
Reveal(id) ==
  /\ AbsIndex(grid, id) # -1
  /\ FrameShell([i \in DOMAIN blocks |-> IF Hides(blocks[i], id) THEN [blocks[i] EXCEPT !.collapsed = FALSE]
                                                                   ELSE blocks[i]])
  /\ grid' = SetView(grid, LinesBack(grid, AbsIndex(grid, id)))
  /\ Spend("user")
  /\ UNCHANGED <<nextBlockId, cmdRunning, pendingCmd, journal, cmds, high, undefined, left>>

User(bs) ==
  /\ Spend("user") /\ blocks' = bs
  /\ UNCHANGED <<nextBlockId, runningBlockId, outputStartRow, cmdRunning, pendingCmd, journal, cmds, high,
                 blocksPushedSeen, undefined>>
Fold ==
  /\ \E i \in DOMAIN blocks : blocks[i].hasOutput /\ User([blocks EXCEPT ![i].collapsed = ~@])
  /\ UNCHANGED <<grid, left, notifyRunning>>
FoldAll ==
  /\ \E c \in BOOLEAN : /\ User([i \in DOMAIN blocks |-> IF blocks[i].hasOutput THEN [blocks[i] EXCEPT !.collapsed = c]
                                                                            ELSE blocks[i]])
                        /\ grid' = IF c THEN SetView(grid, 0) ELSE grid
  /\ UNCHANGED <<left, notifyRunning>>
AskToNotify ==
  /\ cmdRunning /\ User(blocks)
  /\ notifyRunning' = IF notifyRunning = 0 THEN cmds ELSE 0
  /\ UNCHANGED <<grid, left>>
ResizeTo == \E z \in Sizes : Becomes(Resize(grid, z.cols, z.rows)) /\ User(blocks) /\ UNCHANGED notifyRunning
ClearScrollback ==
  /\ Becomes(SetScrollbackMax(grid, 0)) /\ User(blocks) /\ UNCHANGED notifyRunning
Scroll ==
  /\ \E d \in {-1, 1} : grid' = ScrollView(grid, d) \/ grid' = SetView(grid, 0)
  /\ User(blocks) /\ UNCHANGED <<left, notifyRunning>>

RowsNamed == {Unsigned(grid.total - Len(grid.scrollback) + i) : i \in 0 .. Len(grid.scrollback) + grid.rows - 1}
Next ==
  \/ PrintChar \/ MoveTo \/ Erase \/ ShiftChars \/ ShiftLines \/ SetMargins \/ IndexUp \/ SaveOrRestore
  \/ AltScreen \/ NewLine \/ Reset
  \/ MarkPrompt \/ MarkInput \/ MarkOutput \/ MarkUndefined \/ \E hasCode \in BOOLEAN : MarkExit(hasCode)
  \/ NoteInterruptedCommand \/ Frame \/ \E id \in RowsNamed : Reveal(id)
  \/ Fold \/ FoldAll \/ AskToNotify \/ ResizeTo \/ ClearScrollback \/ Scroll

Spec == Init /\ [][Next]_vars

----------------------------------------------------------------------------
(* Properties.                                                             *)

\* The grid is sound, the list no longer than its ceiling, and a block's row ids are ones
\* the counter has had.
TypeOK ==
  /\ Sound(grid, Widths) /\ Len(blocks) <= MaxBlocks
  /\ \A b \in ToSet(blocks) : {b.prompt, b.input, b.first, b.last} \subseteq 0 .. RowIds - 1
  /\ cmdRunning \in BOOLEAN /\ pendingCmd \in 0 .. cmds /\ notifyRunning \in 0 .. cmds

WholeRow(row) == \A x \in DOMAIN row : ~Orphan(row, x)
Whole(g) == \A y \in Rows(g) : WholeRow(g.main[y]) /\ WholeRow(g.alt[y])
CutsByFlag == JoinsFlag(grid, Indicator) /\ grid' = JoinFlag(grid) /\ IsPair(Row(grid), grid.x)
\* No sequence leaves half of a double-width character on either screen (what
\* ClearWideAt and HealOrphan are for), except the second half of a flag written over
\* one, and a narrower window.
PairsStayWhole == [][Whole(grid) => Whole(grid') \/ CutsByFlag \/ grid'.cols < grid.cols]_vars

FirstKept(g) == g.total - Len(g.scrollback)
LineOf(g, id) == IF id < g.total THEN g.scrollback[id - FirstKept(g) + 1] ELSE g.main[id - g.total]
\* A row id denotes one line for as long as the scrollback has it: a line pushed keeps
\* the id it had on the screen, and nothing but a reset gives the ids anew (grid.h:122).
LineKeepsItsId ==
  [][grid'.total >= grid.total =>
       \A id \in FirstKept(grid') .. grid'.total - 1 :
         id >= FirstKept(grid) => LineOf(grid', id) = LineOf(grid, id)]_vars

\* A full-screen program that ends gives the cursor back where it took it, whatever it
\* saved and restored meanwhile, unless the terminal was reset.
CursorComesBack ==
  [][grid.altActive /\ ~grid'.altActive /\ grid' # ResetAll(grid) =>
       /\ grid'.x = Smaller(left[1], grid.cols - 1)
       /\ grid'.y = Smaller(left[2], grid.rows - 1)]_vars

\* An exit status belongs to the command whose text the block carries, however marks
\* are missing, repeated or trimmed ("never a fabricated status", CommandBlocks.h:78).
StatusIsItsCommands == \A b \in ToSet(blocks) : b.hasExit => b.exitOf = b.cmd /\ b.cmd # 0

\* At most one block is running, the last, and it is the one the session names.
OneRunningLast ==
  \A i \in DOMAIN blocks : blocks[i].running => i = Len(blocks) /\ blocks[i].id = runningBlockId

\* Blocks do not overlap as long as the marks come down the screen.
BlocksDisjoint ==
  high # Unordered =>
    \A i, j \in DOMAIN blocks : i < j =>
      /\ blocks[i].prompt <= blocks[j].prompt
      /\ blocks[i].hasOutput => blocks[i].last < blocks[j].prompt

RowsOf(b) == IF b.hasOutput THEN b.first .. b.last ELSE {b.prompt, b.input}
CounterBehind(g) == g.total < Len(g.scrollback)
\* A prompt no lower than b's rows: what b has of them is cut short.
PromptAbove(b) == nextBlockId' # nextBlockId /\ \E r \in RowsOf(b) : r >= CursorRow
\* A new block takes the place of the first when the list is at its ceiling.
MakesRoom(b) == nextBlockId' # nextBlockId /\ Len(blocks) = MaxBlocks /\ b = blocks[1]
\* A block that has ended leaves the list with its last row, and not before, unless the
\* counter of lines restarted, a prompt came above it or it has to make room.
EndedBlocksStay ==
  [][\A b \in ToSet(blocks) :
       b.running \/ CounterRestarted \/ CounterBehind(grid) \/ (\E c \in ToSet(blocks') : c.id = b.id)
       \/ (\A r \in RowsOf(b) : r < FirstKept(grid)) \/ PromptAbove(b) \/ MakesRoom(b)]_vars

\* A frame shows every row that is not output folded away, and one summary for each
\* block folded.
FoldHidesOnlyOutput ==
  LET bs == Framed(blocks)
      slot == RowMap(grid, bs)
      shown == {slot[d].src : d \in {e \in Rows(grid) : slot[e].hit = 0}}
      Folded(v) == ~grid.altActive /\ \E b \in ToSet(bs) : Hides(b, Unsigned(TopOfView(grid) + v))
  IN /\ \A v \in 0 .. Smaller(slot[grid.rows - 1].next, RowIds \div 2) - 1 : v \in shown <=> ~Folded(v)
     /\ \A d, e \in Rows(grid) : slot[d].hit # 0 /\ slot[d].hit = slot[e].hit => d = e

\* A row revealed is on the display of the next frame, whatever was folded around it.
RevealShowsTheRow ==
  [][\A id \in RowsNamed : Reveal(id) /\ ~grid.altActive =>
       \E d \in Rows(grid) : LET slot == RowMap(grid', blocks')[d]
                             IN slot.hit = 0 /\ Unsigned(grid'.total - grid'.view + slot.src) = id]_vars

\* BeginBlock trims the block it has just made only while the counter of lines is behind
\* the scrollback, as a full reset leaves it (app.cpp:9537-9542): no resize, scroll or
\* cleared scrollback empties the list.
EmptyOnlyBehind == [][MarkUndefined => CounterBehind(grid)]_vars

\* A command is filed in the journal once: by its D mark or as interrupted, never both.
JournalledOnce == \A i, j \in DOMAIN journal : journal[i] = journal[j] => i = j

\* The list of blocks is one of commands in order, each with its own status and filed once.
BlocksSound == TypeOK /\ StatusIsItsCommands /\ OneRunningLast /\ BlocksDisjoint /\ JournalledOnce

\* Whatever order the sequences come in, characters, line numbers and the main screen's
\* cursor survive them.
ScreenHolds == PairsStayWhole /\ LineKeepsItsId /\ CursorComesBack

\* Blocks go on naming their rows while lines scroll out, fold and are searched.
BlocksFollowRows == EndedBlocksStay /\ RevealShowsTheRow /\ EmptyOnlyBehind

----------------------------------------------------------------------------
(* Statements of the repository that the code does not keep.               *)

\* BeginBlock returns the block it made (app.cpp:9514).
NeverUndefined == ~undefined
\* A block survives while any row it names is still addressable (CommandBlocks.cpp:195):
\* a running one is trimmed although its output is on the screen.
RunningBlockStays ==
  [][\A b \in ToSet(blocks) :
       b.running /\ b.first >= FirstKept(grid) /\ ~CounterRestarted => \E c \in ToSet(blocks') : c.id = b.id]_vars
\* "notify me when this one finishes" (Session.h:100): the command reported is the one asked about.
ReportsWhatWasAsked ==
  [][notifyRunning # 0 /\ notifyRunning' = 0 /\ nextBlockId' = nextBlockId /\ HasOpenBlock(blocks)
     /\ Last(blocks).running /\ runningBlockId = Last(blocks).id /\ cmdRunning /\ ~cmdRunning'
     => notifyRunning = Last(blocks).cmd]_vars
\* After a reset a frame drops every block from before it (app.cpp:12428-12430).
NoBlockFromBeforeReset == [][Frame => \A b \in ToSet(blocks') : ~b.old]_vars
=============================================================================
