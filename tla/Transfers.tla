------------------------------ MODULE Transfers ------------------------------
(***************************************************************************)
(* One tab of the SFTP browser: its transfer queue with pause, resume,     *)
(* retry, cancel and clear, the worker thread that runs one transfer after *)
(* another over its own connection, the decision to append to a partial    *)
(* file, and the watch that uploads a file edited in place                 *)
(* (src/src/ui/SftpBrowser.cpp, src/src/ssh/SftpClient.cpp, SyncPlan.cpp). *)
(*                                                                         *)
(* All transfers concern one pair of files, one on each side, the hardest  *)
(* case.  A file is the versions its blocks come from, in order; no block  *)
(* is a file that is missing or empty.  Two saves are further apart than   *)
(* the tolerance on modification times, and a transfer's own write is told *)
(* from another by the version it writes.                                  *)
(***************************************************************************)
EXTENDS Naturals, FiniteSets, Sequences

CONSTANTS Sizes,         \* Sizes[v] is the number of blocks of version v
          MaxTransfers,  \* bound: transfers a tab ever holds
          Troubles       \* what may fail: "connect", "stat", "open", "move"

ASSUME TransfersAssumption ==
  /\ Sizes \in Seq(Nat \ {0}) /\ Sizes # <<>>
  /\ MaxTransfers \in Nat
  /\ Troubles \subseteq {"connect", "stat", "open", "move"}

VARIABLES
  local, remote, \* the two files
  saved,         \* the last version anybody saved
  xfers,         \* every Transfer made, by number
  listed,        \* t.xfers: the ones the queue shows
  jobs,          \* Worker.m_jobs, reduced to what each is for
  paused,        \* t.paused
  watch,         \* the EditWatch, with the time it has seen
  wk,            \* the worker thread and the transfer in its hands
  tab            \* "open", between an unpause and its scan, "closing", "closed"

vars == <<local, remote, saved, xfers, listed, jobs, paused, watch, wk, tab>>
files == <<local, remote, saved>>
queue == <<xfers, listed, jobs>>

Ids      == DOMAIN xfers
Ended    == {"done", "failed", "cancelled"}
NoRecord == [size |-> 0, time |-> 0]
Missing  == [data |-> <<>>, time |-> 0]
Saved(v) == [data |-> [b \in 1 .. Sizes[v] |-> v], time |-> v]
\* The time of a write of a block of version v.
Now(v)   == Len(Sizes) + v
Stat(f)  == [size |-> Len(f.data), time |-> f.time]
Source(x) == IF xfers[x].down THEN remote ELSE local
Dest(x)   == IF xfers[x].down THEN local ELSE remote
Idle == [at |-> "idle", x |-> 0, from |-> 0, pos |-> 0]

Init ==
  /\ saved = 1
  /\ \/ local = Missing /\ remote = Saved(1)
     \/ local = Saved(1) /\ remote = Missing
  /\ xfers = <<>> /\ listed = {} /\ jobs = <<>>
  /\ paused = FALSE /\ watch = [on |-> FALSE, seen |-> 0]
  /\ wk = [Idle EXCEPT !.at = "connecting"] /\ tab = "open"

----------------------------------------------------------------------------
(* The UI thread.                                                          *)

Post(x) == jobs' = Append(jobs, x)
NewTransfer(down) ==
  [down |-> down, st |-> "queued", cancel |-> FALSE, rec |-> NoRecord, keep |-> 0]
\* A Transfer as the queueing functions make it, listed and posted.
Add(down) ==
  /\ Len(xfers) < MaxTransfers
  /\ xfers' = Append(xfers, NewTransfer(down))
  /\ listed' = listed \cup {Len(xfers) + 1}
  /\ Post(Len(xfers) + 1)
Open  == tab = "open"

\* QueueDownload's single file, QueueUpload's, and QueuePair; an upload needs its
\* file to be there.
Queue(down) ==
  /\ Open /\ (down \/ local.data # <<>>)
  /\ Add(down)
  /\ UNCHANGED <<files, paused, watch, wk, tab>>

\* OpenRemote: the download, and the watch that will open the file.
OpenRemote ==
  /\ Open /\ ~watch.on
  /\ Add(TRUE)
  /\ watch' = [on |-> TRUE, seen |-> 0]
  /\ UNCHANGED <<files, paused, wk, tab>>

\* A directory's download is planned on the worker, which queues from there
\* (bound: one such job at a time).
QueueTree ==
  /\ Open /\ (\A i \in DOMAIN jobs : jobs[i] # 0) /\ Post(0)
  /\ UNCHANGED <<files, xfers, listed, paused, watch, wk, tab>>

Pause ==
  /\ Open /\ ~paused /\ paused' = TRUE
  /\ UNCHANGED <<files, queue, watch, wk, tab>>

\* The switch is thrown first; the paused transfers are collected after it.
Unpause ==
  /\ Open /\ paused /\ paused' = FALSE /\ tab' = "resuming"
  /\ UNCHANGED <<files, queue, watch, wk>>

\* The order in which t.xfers is walked.
InListOrder(ids) ==
  LET D == 1 .. Cardinality(ids)
  IN  CHOOSE s \in [D -> ids] : \A i, j \in D : i < j => s[i] < s[j]
Again(ids) ==
  /\ xfers' = [x \in Ids |-> IF x \in ids THEN [xfers[x] EXCEPT !.st = "queued"] ELSE xfers[x]]
  /\ jobs' = jobs \o InListOrder(ids)
UnfinishedOnes == {x \in listed : xfers[x].st \in {"paused", "queued"}}              \* (faulty)
PausedOnes == {x \in listed : xfers[x].st = "paused"}
Repost ==
  /\ tab = "resuming" /\ tab' = "open" /\ Again(PausedOnes)
  /\ UNCHANGED <<files, listed, paused, watch, wk>>

\* Those whose message RetryableError lets pass; the messages are left out.
RetryFailed ==
  /\ Open
  /\ \E ids \in SUBSET {x \in listed : xfers[x].st = "failed"} \ {{}} :
       /\ xfers' = [x \in Ids |-> IF x \in ids THEN [xfers[x] EXCEPT !.st = "queued", !.cancel = FALSE] ELSE xfers[x]]
       /\ jobs' = jobs \o InListOrder(ids)
  /\ UNCHANGED <<files, listed, paused, watch, wk, tab>>

\* The selected ones, or all that wait or run.  Nothing reads the flag of one
\* that has ended: a retry clears it.
Flag(ids) ==
  xfers' = [x \in Ids |-> IF x \in ids THEN [xfers[x] EXCEPT !.cancel = TRUE] ELSE xfers[x]]
Cancel ==
  /\ Open
  /\ \/ \E x \in {y \in listed : xfers[y].st \notin Ended} : Flag({x})
     \/ Flag({x \in listed : xfers[x].st \in {"queued", "running"}})
  /\ UNCHANGED <<files, listed, jobs, paused, watch, wk, tab>>

\* Only what has ended leaves the list.
Cleared == {x \in listed : xfers[x].st \in Ended}
ClearQueue ==
  /\ Open /\ Cleared # {} /\ listed' = listed \ Cleared
  /\ UNCHANGED <<files, xfers, jobs, paused, watch, wk, tab>>

\* Poll's edit watches: opened when the download has landed, uploaded again
\* when the file has another time.
Landed == \E x \in listed : xfers[x].down /\ xfers[x].st = "done"
Changed == watch.seen # 0 /\ local.time # watch.seen
OpenEditor ==
  /\ watch.seen = 0 /\ watch' = [watch EXCEPT !.seen = local.time]
  /\ UNCHANGED queue
Reupload ==
  /\ Changed /\ watch' = [watch EXCEPT !.seen = local.time]
  /\ Add(FALSE)
PollEdits ==
  /\ tab = "open" /\ watch.on /\ local.data # <<>> /\ Landed
  /\ OpenEditor \/ Reupload
  /\ UNCHANGED <<files, paused, wk, tab>>

\* CloseTab destroys the tab: ~Worker sets the stop flag, wakes the thread and
\* joins it.
CloseTab ==
  /\ Open /\ tab' = "closing"
  /\ UNCHANGED <<files, queue, paused, watch, wk>>
Joined ==
  /\ tab = "closing" /\ wk.at = "out" /\ tab' = "closed"
  /\ UNCHANGED <<files, queue, paused, watch, wk>>

----------------------------------------------------------------------------
(* The worker thread.                                                      *)

Worker(at) == wk.at = at
Set(x, st) == xfers' = [xfers EXCEPT ![x].st = st]
\* Of one that is done or cancelled nothing but that is ever read again.
Close(x, st) == xfers' = [xfers EXCEPT ![x] = [NewTransfer(@.down) EXCEPT !.st = st]]
Idles == wk' = Idle
OnFiles == UNCHANGED <<saved, listed, jobs, paused, watch, tab>>
OnQueue == UNCHANGED <<local, remote>> /\ OnFiles

Connect ==
  /\ Worker("connecting")
  /\ \/ Idles
     \/ "connect" \in Troubles /\ wk' = [wk EXCEPT !.at = "out"]
  /\ UNCHANGED xfers /\ OnQueue

StopSeen == tab \in {"closing", "closed"}
Leaves == StopSeen
Stop ==
  /\ Worker("idle") /\ Leaves /\ wk' = [wk EXCEPT !.at = "out"]
  /\ UNCHANGED xfers /\ OnQueue

\* The plan of a tree: it may hold no file this tab can take.
Planned ==
  /\ Idles
  /\ \/ UNCHANGED <<xfers, listed>> /\ jobs' = Tail(jobs)
     \/ /\ Len(xfers) < MaxTransfers
        /\ xfers' = Append(xfers, NewTransfer(TRUE))
        /\ listed' = listed \cup {Len(xfers) + 1}
        /\ jobs' = Append(Tail(jobs), Len(xfers) + 1)
AwakeUnlessPaused == ~StopSeen /\ jobs # <<>> /\ ~paused                             \* (faulty)
Awake == ~StopSeen /\ jobs # <<>>
Take ==
  /\ Worker("idle") /\ Awake
  /\ \/ Head(jobs) = 0 /\ Planned
     \/ /\ Head(jobs) # 0 /\ wk' = [Idle EXCEPT !.at = "start", !.x = Head(jobs)]
        /\ jobs' = Tail(jobs) /\ UNCHANGED <<xfers, listed>>
  /\ UNCHANGED <<files, paused, watch, tab>>

Start ==
  /\ Worker("start")
  /\ IF xfers[wk.x].cancel THEN Close(wk.x, "cancelled") /\ Idles
                           ELSE wk' = [wk EXCEPT !.at = "gate"] /\ UNCHANGED xfers
  /\ OnQueue
Gate ==
  /\ Worker("gate")
  /\ IF paused THEN Set(wk.x, "paused") /\ Idles
               ELSE wk' = [wk EXCEPT !.at = "decide"] /\ UNCHANGED xfers
  /\ OnQueue

\* DecideResume, and the offset it means.
ResumesBySize(partial, source, rec) == partial # 0 /\ partial < source.size          \* (faulty)
Resumes(partial, source, rec) ==
  /\ partial # 0 /\ partial < source.size
  /\ rec # NoRecord /\ rec.size = source.size /\ rec.time = source.time
Offset(partial, source, rec) == IF Resumes(partial, source, rec) THEN partial ELSE 0

\* The source's size and time as they are now become the record, before a byte
\* moves; a source that cannot be asked is none.
Decide ==
  /\ Worker("decide")
  /\ \E src \in {Stat(Source(wk.x))} \cup (IF "stat" \in Troubles THEN {NoRecord} ELSE {}) :
       LET x == wk.x  known == src.size # 0 IN
       /\ wk' = [wk EXCEPT !.at = "open", !.from = Offset(Len(Dest(x).data), src, xfers[x].rec)]
       /\ xfers' = [xfers EXCEPT ![x].st = "running", ![x].rec = IF known THEN src ELSE NoRecord,
                                 ![x].keep = IF known THEN src.time ELSE @]
  /\ OnQueue

Store(x, f) == IF xfers[x].down THEN local' = f /\ UNCHANGED remote ELSE remote' = f /\ UNCHANGED local
Fails(kind, at) == kind \in Troubles /\ wk' = [wk EXCEPT !.at = at]
\* DownloadFrom and UploadFrom up to the first block: a fresh start truncates,
\* a resumed one seeks; a source that is gone or too short ends it here.
OpenBoth ==
  /\ Worker("open")
  /\ LET x == wk.x  size == Len(Source(x).data)
         short == IF xfers[x].down THEN wk.from > 0 /\ size > 0 /\ wk.from >= size ELSE wk.from > size
     IN \/ /\ ~short /\ (xfers[x].down \/ size # 0)
           /\ wk' = [wk EXCEPT !.at = "move", !.pos = wk.from]
           /\ IF wk.from > 0 THEN UNCHANGED <<local, remote>> ELSE Store(x, Missing)
        \/ /\ short \/ size = 0
           /\ wk' = [wk EXCEPT !.at = "over"] /\ UNCHANGED <<local, remote>>
        \/ Fails("open", "over") /\ UNCHANGED <<local, remote>>
  /\ UNCHANGED xfers /\ OnFiles

\* One block and the progress callback, which says stop for a cancelled
\* transfer and for a paused queue.
Put(x, f, p, v) ==
  [data |-> IF xfers[x].down \/ p >= Len(f.data) THEN Append(f.data, v) ELSE [f.data EXCEPT ![p + 1] = v],
   time |-> Now(v)]
GoesOn(x) == ~xfers[x].cancel /\ ~paused
Move ==
  /\ Worker("move") /\ wk.pos < Len(Source(wk.x).data)
  /\ LET x == wk.x IN
       \/ /\ Store(x, Put(x, Dest(x), wk.pos, Source(x).data[wk.pos + 1]))
          /\ wk' = IF GoesOn(x) THEN [wk EXCEPT !.pos = @ + 1]
                   ELSE [wk EXCEPT !.pos = @ + 1, !.at = "closing"]
       \/ Fails("move", "closing") /\ UNCHANGED <<local, remote>>
  /\ UNCHANGED xfers /\ OnFiles
EndOfFile ==
  /\ Worker("move") /\ wk.pos >= Len(Source(wk.x).data)
  /\ wk' = [wk EXCEPT !.at = "landed"]
  /\ UNCHANGED xfers /\ OnQueue

\* A fresh download that failed leaves nothing behind.
Abandon ==
  /\ Worker("closing")
  /\ wk' = [wk EXCEPT !.at = "over"]
  /\ IF xfers[wk.x].down /\ wk.from = 0 THEN local' = Missing /\ UNCHANGED remote
                                        ELSE UNCHANGED <<local, remote>>
  /\ UNCHANGED xfers /\ OnFiles

\* Which of the ends it was is read from the flags as they are by now.
Failed ==
  /\ Worker("over") /\ Idles
  /\ LET x == wk.x IN
       IF xfers[x].cancel THEN Close(x, "cancelled")
       ELSE Set(x, IF paused THEN "paused" ELSE "failed")
  /\ OnQueue

\* The source's time goes to the copy; a verification, if this transfer was
\* queued with one, comes before it is done.
Preserve(x) == IF xfers[x].keep = 0 \/ Dest(x).data = <<>> THEN UNCHANGED <<local, remote>>
               ELSE Store(x, [Dest(x) EXCEPT !.time = xfers[x].keep])
Finish ==
  /\ Worker("landed") /\ Preserve(wk.x)
  /\ \/ Set(wk.x, "verifying") /\ wk' = [wk EXCEPT !.at = "hash"]
     \/ Close(wk.x, "done") /\ Idles
  /\ OnFiles
\* Whatever the digests say, and when there is none, the transfer is done: the
\* verdict goes to the list.
Hash == Worker("hash") /\ Close(wk.x, "done") /\ Idles /\ OnQueue

----------------------------------------------------------------------------
(* The world: the editor saves, and somebody saves on the server.  Neither *)
(* writes a file some unfinished transfer is to write.                     *)

Unwritten(down) == \A x \in Ids : xfers[x].down = down => xfers[x].st \in {"done", "cancelled"}
Save(f) == saved < Len(Sizes) /\ saved' = saved + 1 /\ f = Saved(saved + 1)
EditorSaves ==
  /\ watch.seen # 0 /\ Unwritten(TRUE) /\ Save(local')
  /\ UNCHANGED <<remote, queue, paused, watch, wk, tab>>
ServerSaves ==
  /\ Unwritten(FALSE) /\ Save(remote')
  /\ UNCHANGED <<local, queue, paused, watch, wk, tab>>

WorkerNext == \/ Connect \/ Stop \/ Take \/ Start \/ Gate \/ Decide \/ OpenBoth \/ Move
              \/ EndOfFile \/ Abandon \/ Failed \/ Finish \/ Hash
UiNext == \/ Queue(TRUE) \/ Queue(FALSE) \/ OpenRemote \/ QueueTree \/ Pause \/ Unpause \/ Repost
          \/ RetryFailed \/ Cancel \/ ClearQueue \/ PollEdits \/ CloseTab \/ Joined
Next == WorkerNext \/ UiNext \/ EditorSaves \/ ServerSaves
Spec == Init /\ [][Next]_vars
\* The worker's thread runs, the scan of an unpause follows it, the window's
\* timer polls and a joined thread lets the tab go.  A user owes nothing.
FairSpec == Spec /\ WF_vars(WorkerNext) /\ WF_vars(Repost) /\ WF_vars(PollEdits) /\ WF_vars(Joined)
----------------------------------------------------------------------------
(* Properties.                                                             *)

TypeOK ==
  LET Versions == 1 .. Len(Sizes)  Times == 0 .. 2 * Len(Sizes)
      Files == [data : Seq(Versions), time : Times]
      Transfer == [down : BOOLEAN, st : {"queued", "running", "verifying", "paused"} \cup Ended,
                   cancel : BOOLEAN, rec : [size : Nat, time : Times],
                   keep : Times]
  IN /\ {local, remote} \subseteq Files /\ saved \in Versions
     /\ xfers \in Seq(Transfer) /\ Len(xfers) <= MaxTransfers
     /\ listed \subseteq Ids /\ jobs \in Seq(Ids \cup {0})
     /\ paused \in BOOLEAN /\ watch \in [on : BOOLEAN, seen : Times]
     /\ wk \in [at : {"connecting", "idle", "start", "gate", "decide", "open", "move", "closing",
                      "over", "landed", "hash", "out"}, x : Ids \cup {0}, from : Nat, pos : Nat]
     /\ tab \in {"open", "resuming", "closing", "closed"}

\* A transfer that waits or runs is posted or in the worker's hands exactly
\* once, any other not at all, and one that has not ended is in the list, its
\* only handle, however pausing, resuming, retrying, cancelling and clearing
\* meet the worker.  Posted twice, a transfer would start over on its own copy.
Held(x) == Cardinality({i \in DOMAIN jobs : jobs[i] = x}) + (IF wk.x = x THEN 1 ELSE 0)
OneJob ==
  \A x \in Ids : /\ Held(x) = IF xfers[x].st \in {"queued", "running", "verifying"} THEN 1 ELSE 0
                 /\ xfers[x].st \notin Ended => x \in listed

\* What has landed is one version of the file, although it may be appended to
\* what an earlier attempt left: the source that still is as it was recorded
\* when this attempt began has been copied block for block.  That takes that an
\* attempt, once it has recorded its source, gets to write its own first block.
LandedWhole ==
  LET x == wk.x IN
  Worker("landed") /\ xfers[x].rec # NoRecord /\ xfers[x].rec = Stat(Source(x))
    => Dest(x).data = Source(x).data
OneVersion == "open" \notin Troubles => LandedWhole

Gone == tab \in {"closing", "closed"} \/ wk.at = "out"
St(x, sts) == x \in Ids /\ xfers[x].st \in sts
\* A queued transfer ends or is paused, unless the tab is closed or never had
\* its connection: the queue does not stall behind another transfer.
Settles ==
  \A x \in 1 .. MaxTransfers : St(x, {"queued"}) ~> (St(x, Ended \cup {"paused"}) \/ Gone)

\* A file saved in the editor reaches the server, as long as its download is
\* in the list, the tab is open and its uploads are neither stopped nor fail.
Edited == watch.seen # 0 /\ local = Saved(saved) /\ watch.seen # local.time
Excused ==
  \/ Gone \/ ~Landed \/ paused \/ Len(xfers) = MaxTransfers
  \/ \E x \in Ids : xfers[x].cancel \/ xfers[x].st \in {"failed", "paused"}
EditsArrive == Edited ~> (remote.data = local.data \/ Excused)

\* Closing a tab joins its worker: the thread leaves whatever it was at.
CloseReturns == tab = "closing" ~> tab = "closed"

\* Every transfer is posted as often as its state says, with the type invariant.
QueueSound == TypeOK /\ OneJob

\* The queue moves: its transfers end, edits arrive, and the tab can be closed.
QueueMoves == Settles /\ EditsArrive /\ CloseReturns

(* Statements of the repository that the code does not keep. *)

\* "A resume is only safe when the source's size and mtime were RECORDED when the
\* partial was written and still match now" (SyncPlan.h): the record is written before
\* anything is opened, and describes a partial that this transfer never wrote.
AppendsToItsOwn == LandedWhole
=============================================================================
