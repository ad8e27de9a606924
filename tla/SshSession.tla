----------------------------- MODULE SshSession -----------------------------
(***************************************************************************)
(* One terminal session (src/src/ssh/session.{h,cpp}): the UI thread that  *)
(* calls SshSession's methods, the network thread that runs ThreadMain,    *)
(* and the server at the other end of the socket.                          *)
(*                                                                         *)
(* The two threads share two atomics (m_running, m_stop), the abort slot   *)
(* m_socket, the host-key answer under m_hkMutex, the event deque under    *)
(* m_evMutex, the keystroke queue under m_outMutex, the pending forwards   *)
(* under m_fwdMutex and the byte ring m_output.  Each action below touches *)
(* the shared state the way one critical section or one atomic operation   *)
(* of the code does, so every interleaving of the two threads is explored. *)
(*                                                                         *)
(* Connections are numbered: the g-th successful Start runs connection g.  *)
(* A byte is a pair <<g, i>>, the i-th unit that connection carried.       *)
(***************************************************************************)
EXTENDS Naturals, Sequences

CONSTANTS RingCap,     \* units SpscRing holds
          MaxStarts,   \* bound: connections a behaviour makes
          MaxOut,      \* bound: units the server sends on one connection
          MaxKeys      \* bound: units the user types on one connection

ASSUME SessionAssumption ==
  /\ RingCap \in Nat \ {0}
  /\ MaxStarts \in Nat \ {0}
  /\ MaxOut \in Nat /\ MaxKeys \in Nat

VARIABLES
  \* --- shared between the threads ---
  running, stop,          \* m_running, m_stop
  socket,                 \* m_socket: the connection whose handle it holds, 0 = none
  hkDecided, hkAccepted,  \* the host-key answer
  events,                 \* m_events
  outQueue,               \* m_outQueue
  output,                 \* m_output, the SpscRing
  pendingForwards,        \* m_pendingForwards: the connection each was asked on
  cleanClose,             \* m_cleanClose
  \* --- the UI thread ---
  upc,                    \* where the UI thread is inside Start or Disconnect
  ucont,                  \* what follows the join: "return", or Start's "spawn"
  hostKeyPending,         \* Session::hostKeyPending
  \* --- the network thread ---
  wpc,                    \* where ThreadMain is
  chunk, writeBuf,        \* readBuf not yet pushed; writeBuf not yet written
  \* --- the operating system and the server ---
  gen,                    \* connections started so far
  open,                   \* connections whose socket is open
  net, produced,          \* units in flight to the client; how many were sent
  eof, dead,              \* the server closed the channel; the link broke
  \* --- history ---
  authed, pinned,         \* connections that sent credentials; that wrote the key
  trusted,                \* connections whose host key was listed, known or accepted
  typed, delivered,       \* what the user typed and the server received, per connection
  seen                    \* what the UI popped on the present connection

shared   == <<running, stop, socket, hkDecided, hkAccepted, events, outQueue,
              output, pendingForwards, cleanClose>>
ui       == <<upc, ucont, hostKeyPending>>
worker   == <<wpc, chunk, writeBuf>>
outside  == <<gen, open, net, produced, eof, dead>>
history  == <<authed, pinned, trusted, typed, delivered, seen>>
vars     == <<shared, ui, worker, outside, history>>

Gens  == 1 .. MaxStarts
Units == Gens \X Nat

\* SshEventType, without Status (progress text), ClipboardText and ForwardUp.
EventTypes == {"HostKeyPrompt", "Connected", "Closed", "Error"}
Terminal   == {"Closed", "Error"}
Event(t)   == [type |-> t, gen |-> gen]

\* PostEvent: append to the deque under m_evMutex.
PostEvent(t) == events' = Append(events, Event(t))

\* Before the channel is up the thread is connecting; in the I/O loop after.
Loop    == {"loop", "read", "push", "write", "eof"}
Ended   == {"none", "ended"}

Init ==
  /\ running = FALSE /\ stop = FALSE /\ socket = 0
  /\ hkDecided = FALSE /\ hkAccepted = FALSE
  /\ events = <<>> /\ outQueue = <<>> /\ output = <<>> /\ pendingForwards = {}
  /\ cleanClose = FALSE
  /\ upc = "idle" /\ ucont = "return" /\ hostKeyPending = FALSE
  /\ wpc = "none" /\ chunk = <<>> /\ writeBuf = <<>>
  /\ gen = 0 /\ open = {} /\ net = <<>> /\ produced = 0
  /\ eof = FALSE /\ dead = FALSE
  /\ authed = {} /\ pinned = {} /\ trusted = {}
  /\ typed = [g \in Gens |-> <<>>] /\ delivered = [g \in Gens |-> <<>>]
  /\ seen = <<>>

----------------------------------------------------------------------------
(* The UI thread.  PumpSshEvents drains the deque and then, in the same    *)
(* call, shows the modal host-key box; until it is answered the UI does    *)
(* nothing else to this session.                                           *)

UiFree == upc = "idle" /\ ~hostKeyPending

\* Start: refused while a thread runs; otherwise it first runs Disconnect,
\* which joins any previous thread.
Start ==
  /\ UiFree /\ ~running /\ gen < MaxStarts
  /\ stop' = TRUE /\ upc' = "releasePrompt" /\ ucont' = "spawn"
  /\ UNCHANGED <<running, socket, hkDecided, hkAccepted, events, outQueue, output,
                 pendingForwards, cleanClose, hostKeyPending, worker, outside, history>>

\* Disconnect, called by the user's command, by closing the tab or at exit.
Disconnect ==
  /\ UiFree /\ gen > 0
  /\ stop' = TRUE /\ upc' = "releasePrompt" /\ ucont' = "return"
  /\ UNCHANGED <<running, socket, hkDecided, hkAccepted, events, outQueue, output,
                 pendingForwards, cleanClose, hostKeyPending, worker, outside, history>>

\* Disconnect: unblock a pending host-key prompt with a refusal.
ReleasePrompt ==
  /\ upc = "releasePrompt"
  /\ hkDecided' = TRUE
  /\ hkAccepted' = (hkDecided /\ hkAccepted)
  /\ upc' = "abort"
  /\ UNCHANGED <<running, stop, socket, events, outQueue, output, pendingForwards,
                 cleanClose, ucont, hostKeyPending, worker, outside, history>>

\* Disconnect: take the handle out of the slot and close it under the worker.
AbortSocket ==
  /\ upc = "abort"
  /\ open' = open \ {socket} /\ socket' = 0
  /\ upc' = "join"
  /\ UNCHANGED <<running, stop, hkDecided, hkAccepted, events, outQueue, output,
                 pendingForwards, cleanClose, ucont, hostKeyPending, worker,
                 gen, net, produced, eof, dead, history>>

\* Disconnect: m_thread.join() returns once ThreadMain has.
Detached == UNCHANGED <<wpc, running>>                          \* (faulty)
Joined   == wpc \in Ended /\ wpc' = "none" /\ running' = FALSE
Join ==
  /\ upc = "join" /\ Joined
  /\ upc' = (IF ucont = "spawn" THEN "spawn" ELSE "idle")
  /\ UNCHANGED <<stop, socket, hkDecided, hkAccepted, events, outQueue, output,
                 pendingForwards, cleanClose, ucont, hostKeyPending, chunk, writeBuf,
                 outside, history>>

\* What Start resets, one lock after another, now that no thread runs.
\* m_pendingForwards is not among it.
KeepKeys     == UNCHANGED outQueue                              \* (faulty)
ClearKeys    == outQueue' = <<>>
KeepEvents   == UNCHANGED events                                \* (faulty)
ClearEvents  == events' = <<>>
KeepAnswer   == UNCHANGED <<hkDecided, hkAccepted>>             \* (faulty)
ForgetAnswer == hkDecided' = FALSE /\ hkAccepted' = FALSE

\* The rest of Start.
Spawn ==
  /\ upc = "spawn"
  /\ stop' = FALSE /\ output' = <<>>
  /\ ClearKeys /\ ClearEvents /\ ForgetAnswer
  /\ running' = TRUE /\ cleanClose' = FALSE
  /\ gen' = gen + 1 /\ wpc' = "resolve" /\ chunk' = <<>> /\ writeBuf' = <<>>
  /\ net' = <<>> /\ produced' = 0 /\ eof' = FALSE /\ dead' = FALSE
  /\ seen' = <<>>
  /\ upc' = "idle" /\ ucont' = "return"
  /\ UNCHANGED <<socket, pendingForwards, hostKeyPending, open, authed, pinned,
                 trusted, typed, delivered>>

\* PollEvent, as PumpSshEvents consumes it: a prompt raises hostKeyPending.
PollEvent ==
  /\ upc = "idle" /\ events # <<>>
  /\ events' = Tail(events)
  /\ hostKeyPending' = (hostKeyPending \/ Head(events).type = "HostKeyPrompt")
  /\ UNCHANGED <<running, stop, socket, hkDecided, hkAccepted, outQueue, output,
                 pendingForwards, cleanClose, upc, ucont, worker, outside, history>>

\* The modal box is answered once the deque is drained: AnswerHostKey.
AnswerHostKey(accept) ==
  /\ upc = "idle" /\ hostKeyPending /\ events = <<>>
  /\ hostKeyPending' = FALSE
  /\ hkDecided' = TRUE /\ hkAccepted' = accept
  /\ trusted' = IF accept THEN trusted \cup {gen} ELSE trusted
  /\ UNCHANGED <<running, stop, socket, events, outQueue, output, pendingForwards,
                 cleanClose, upc, ucont, worker, outside, authed, pinned, typed,
                 delivered, seen>>

\* Send: dropped unless a thread runs, otherwise queued under m_outMutex.
Send ==
  /\ UiFree /\ gen > 0 /\ Len(typed[gen]) < MaxKeys
  /\ running
  /\ LET key == <<gen, Len(typed[gen]) + 1>>
     IN /\ outQueue' = Append(outQueue, key)
        /\ typed' = [typed EXCEPT ![gen] = Append(@, key)]
  /\ UNCHANGED <<running, stop, socket, hkDecided, hkAccepted, events, output,
                 pendingForwards, cleanClose, ui, worker, outside, authed, pinned,
                 trusted, delivered, seen>>

\* DrainSessionOutput: pop what the ring holds, up to a buffer.
DrainOutput(n) ==
  /\ UiFree /\ n \in 1 .. Len(output)
  /\ seen' = seen \o SubSeq(output, 1, n)
  /\ output' = SubSeq(output, n + 1, Len(output))
  /\ UNCHANGED <<running, stop, socket, hkDecided, hkAccepted, events, outQueue,
                 pendingForwards, cleanClose, ui, worker, outside, authed, pinned,
                 trusted, typed, delivered>>

\* AddForward: queued whether or not a thread runs.  (Bound: one of a
\* connection waits.)
AddForward ==
  /\ UiFree /\ gen > 0
  /\ gen \notin pendingForwards
  /\ pendingForwards' = pendingForwards \cup {gen}
  /\ UNCHANGED <<running, stop, socket, hkDecided, hkAccepted, events, outQueue,
                 output, cleanClose, ui, worker, outside, history>>

----------------------------------------------------------------------------
(* The network thread.                                                     *)

\* Close the socket if the slot still holds it: whoever exchanges the handle
\* out of the slot is the one that closes it.
CloseSocket == socket' = 0 /\ open' = open \ {socket}

\* fail(): free everything and post Error.  m_running is cleared by a store of
\* its own, see Finish.
Fail == wpc' = "failed" /\ CloseSocket /\ PostEvent("Error")

\* ConnectTransport, getaddrinfo: blocks, and looks at m_stop only afterwards.
Resolve ==
  /\ wpc = "resolve"
  /\ \/ /\ wpc' = "dial" /\ UNCHANGED <<socket, open, events>>
     \/ Fail
  /\ UNCHANGED <<running, stop, hkDecided, hkAccepted, outQueue, output,
                 pendingForwards, cleanClose, ui, chunk, writeBuf, gen, net, produced,
                 eof, dead, history>>

\* ConnectAddr: unless stopped, create the socket and publish it in the slot.
Dial ==
  /\ wpc = "dial"
  /\ \/ /\ stop /\ Fail
     \/ /\ ~stop
        /\ wpc' = "wait" /\ socket' = gen /\ open' = open \cup {gen}
        /\ UNCHANGED events
  /\ UNCHANGED <<running, stop, hkDecided, hkAccepted, outQueue, output,
                 pendingForwards, cleanClose, ui, chunk, writeBuf, gen, net, produced,
                 eof, dead, history>>

\* ConnectAddr's wait, in slices, and ConnectTransport's last look at m_stop:
\* connected, or timed out, refused or cancelled (its handle closed again).
WaitConnect ==
  /\ wpc = "wait"
  /\ \/ /\ ~stop /\ wpc' = "handshake"
        /\ UNCHANGED <<socket, open, events>>
     \/ /\ wpc' = "failed" /\ socket' = 0 /\ open' = open \ {gen}
        /\ PostEvent("Error")
  /\ UNCHANGED <<running, stop, hkDecided, hkAccepted, outQueue, output,
                 pendingForwards, cleanClose, ui, chunk, writeBuf, gen, net, produced,
                 eof, dead, history>>

\* libssh2_session_handshake and DecideHostKey's verdict on the server's key.
\* A refused key, a peer that breaks off and one that stays silent past
\* libssh2_session_set_timeout all end in fail.
Handshake ==
  /\ wpc = "handshake" /\ gen \in open
  /\ \/ /\ wpc' = "auth" /\ trusted' = trusted \cup {gen}     \* Accept
        /\ UNCHANGED <<socket, open, events>>
     \/ /\ wpc' = "prompt" /\ PostEvent("HostKeyPrompt")       \* Prompt
        /\ UNCHANGED <<socket, open, trusted>>
     \/ /\ Fail /\ UNCHANGED trusted                           \* refused or broken
  /\ UNCHANGED <<running, stop, hkDecided, hkAccepted, outQueue, output,
                 pendingForwards, cleanClose, ui, chunk, writeBuf, gen, net, produced,
                 eof, dead, authed, pinned, typed, delivered, seen>>

\* The wait on m_hkCv: it has no timeout, so only an answer or Disconnect ends it.
PromptAnswered ==
  /\ wpc = "prompt" /\ hkDecided
  /\ \/ /\ ~hkAccepted \/ stop
        /\ Fail /\ UNCHANGED pinned
     \/ /\ hkAccepted /\ ~stop
        /\ wpc' = "auth" /\ pinned' = pinned \cup {gen}
        /\ UNCHANGED <<socket, open, events>>
  /\ UNCHANGED <<running, stop, hkDecided, hkAccepted, outQueue, output,
                 pendingForwards, cleanClose, ui, chunk, writeBuf, gen, net, produced,
                 eof, dead, authed, trusted, typed, delivered, seen>>

\* Authentication and the channel: credentials go out, the server answers.
Authenticate ==
  /\ wpc = "auth" /\ gen \in open
  /\ authed' = authed \cup {gen}
  /\ \/ /\ wpc' = "loop" /\ PostEvent("Connected")
        /\ UNCHANGED <<socket, open>>
     \/ Fail
  /\ UNCHANGED <<running, stop, hkDecided, hkAccepted, outQueue, output,
                 pendingForwards, cleanClose, ui, chunk, writeBuf, gen, net, produced,
                 eof, dead, pinned, trusted, typed, delivered, seen>>

\* A blocking handshake or authentication call on a socket Disconnect closed.
AbortedCall ==
  /\ wpc \in {"handshake", "auth"} /\ gen \notin open
  /\ Fail
  /\ UNCHANGED <<running, stop, hkDecided, hkAccepted, outQueue, output,
                 pendingForwards, cleanClose, ui, chunk, writeBuf, gen, net, produced,
                 eof, dead, history>>

\* closed: close what is left and post Closed.
Close(clean) ==
  /\ wpc' = "closed"
  /\ cleanClose' = (cleanClose \/ clean)
  /\ CloseSocket /\ PostEvent("Closed")

\* The head of a pass: the loop condition, then the forwards added meanwhile.
LoopHead ==
  /\ wpc = "loop"
  /\ \/ /\ stop /\ Close(TRUE)
        /\ UNCHANGED pendingForwards
     \/ /\ ~stop /\ wpc' = "read"
        /\ pendingForwards' = {}
        /\ UNCHANGED <<cleanClose, socket, open, events>>
  /\ UNCHANGED <<running, stop, hkDecided, hkAccepted, outQueue, output, ui, chunk,
                 writeBuf, gen, net, produced, eof, dead, authed, pinned, trusted,
                 typed, delivered, seen>>

\* libssh2_channel_read: some of what arrived, nothing yet, or an error.
Read ==
  /\ wpc = "read"
  /\ \/ \E n \in 1 .. Len(net) :
          /\ chunk' = SubSeq(net, 1, n) /\ net' = SubSeq(net, n + 1, Len(net))
          /\ wpc' = "push"
          /\ UNCHANGED <<cleanClose, socket, open, events>>
     \/ /\ net = <<>> /\ gen \in open /\ ~dead
        /\ wpc' = "write"
        /\ UNCHANGED <<cleanClose, socket, open, events, chunk, net>>
     \/ /\ gen \notin open \/ (dead /\ net = <<>>)
        /\ Close(FALSE) /\ UNCHANGED <<chunk, net>>
  /\ UNCHANGED <<running, stop, hkDecided, hkAccepted, outQueue, output,
                 pendingForwards, ui, writeBuf, gen, produced, eof, dead, history>>

\* SpscRing::Push as much as fits; retry while some is left and not stopped.
FreeSpace     == RingCap - Len(output)
PushForEver   == FALSE                                          \* (faulty)
PushGivesUp   == stop
AfterPush(n)  == SubSeq(chunk, n + 1, Len(chunk))
Push ==
  /\ wpc = "push"
  /\ LET n == IF Len(chunk) < FreeSpace THEN Len(chunk) ELSE FreeSpace
     IN \/ /\ ~PushGivesUp
           /\ output' = output \o SubSeq(chunk, 1, n)
           /\ chunk' = AfterPush(n)
           /\ wpc' = IF n = Len(chunk) THEN "read" ELSE "push"
        \/ /\ PushGivesUp
           /\ chunk' = <<>> /\ wpc' = "read" /\ UNCHANGED output
  /\ UNCHANGED <<running, stop, socket, hkDecided, hkAccepted, events, outQueue,
                 pendingForwards, cleanClose, ui, writeBuf, outside, history>>

\* Keystrokes to the server: once writeBuf is drained swap m_outQueue in, then
\* write what the channel takes.
Write ==
  /\ wpc = "write"
  /\ LET buf == IF writeBuf = <<>> THEN outQueue ELSE writeBuf
     IN /\ outQueue' = IF writeBuf = <<>> THEN <<>> ELSE outQueue
        /\ \/ /\ gen \in open /\ ~dead
              /\ \E n \in 0 .. Len(buf) :
                   /\ delivered' = [delivered EXCEPT ![gen] = @ \o SubSeq(buf, 1, n)]
                   /\ writeBuf' = SubSeq(buf, n + 1, Len(buf))
              /\ wpc' = "eof"
              /\ UNCHANGED <<cleanClose, socket, open, events>>
           \/ /\ (gen \notin open \/ dead)
              /\ writeBuf' = buf /\ UNCHANGED delivered
              /\ IF buf = <<>>
                 THEN /\ wpc' = "eof" /\ UNCHANGED <<cleanClose, socket, open, events>>
                 ELSE Close(FALSE)
  /\ UNCHANGED <<running, stop, hkDecided, hkAccepted, output, pendingForwards, ui,
                 chunk, gen, net, produced, eof, dead, authed, pinned, trusted, typed,
                 seen>>

\* libssh2_channel_eof, true once all that came before it was read, ends the
\* session; otherwise the pass is over.
ChannelEof    == eof /\ net = <<>>
CheckEof ==
  /\ wpc = "eof"
  /\ \/ ChannelEof /\ Close(TRUE)
     \/ /\ ~ChannelEof /\ wpc' = "loop"
        /\ UNCHANGED <<cleanClose, socket, open, events>>
  /\ UNCHANGED <<running, stop, hkDecided, hkAccepted, outQueue, output,
                 pendingForwards, ui, chunk, writeBuf, gen, net, produced, eof, dead,
                 history>>

\* The last statement of every path through ThreadMain: m_running.store(false).
Finish ==
  /\ wpc \in {"failed", "closed"}
  /\ wpc' = "ended" /\ running' = FALSE
  /\ UNCHANGED <<stop, socket, hkDecided, hkAccepted, events, outQueue, output,
                 pendingForwards, cleanClose, ui, chunk, writeBuf, outside, history>>

----------------------------------------------------------------------------
(* The server and the network.                                             *)

ServerUp == wpc \in Loop /\ gen \in open /\ ~eof /\ ~dead

ServerSends ==
  /\ ServerUp /\ produced < MaxOut
  /\ produced' = produced + 1
  /\ net' = Append(net, <<gen, produced + 1>>)
  /\ UNCHANGED <<shared, ui, worker, gen, open, eof, dead, history>>

ServerCloses ==
  /\ ServerUp /\ eof' = TRUE
  /\ UNCHANGED <<shared, ui, worker, gen, open, net, produced, dead, history>>

LinkBreaks ==
  /\ ServerUp /\ dead' = TRUE
  /\ UNCHANGED <<shared, ui, worker, gen, open, net, produced, eof, history>>

----------------------------------------------------------------------------
UserCall == \/ Start \/ Disconnect \/ Send \/ AddForward
            \/ \E accept \in BOOLEAN : AnswerHostKey(accept)
UiStep   == ReleasePrompt \/ AbortSocket \/ Join \/ Spawn
UiPump   == PollEvent \/ \E n \in 1 .. RingCap : DrainOutput(n)
WorkerStep == \/ Resolve \/ Dial \/ WaitConnect \/ Handshake \/ PromptAnswered
              \/ Authenticate \/ AbortedCall \/ LoopHead \/ Read \/ Push \/ Write
              \/ CheckEof \/ Finish
Environment == ServerSends \/ ServerCloses \/ LinkBreaks

Next == UserCall \/ UiStep \/ UiPump \/ WorkerStep \/ Environment

Spec == Init /\ [][Next]_vars

\* The scheduler runs both threads and the frame loop pumps every session every
\* frame.  Every call the worker makes returns: the resolver and the connect
\* have their timeouts, and libssh2's blocking calls have the session timeout
\* set after libssh2_session_init.  Only the prompt waits without one.  Nothing
\* is assumed of the user, the peer or the link.
Fairness == WF_vars(UiStep) /\ WF_vars(UiPump) /\ WF_vars(WorkerStep)
FairSpec == Spec /\ Fairness

----------------------------------------------------------------------------
(* Properties *)

TypeOK ==
  /\ running \in BOOLEAN /\ stop \in BOOLEAN /\ socket \in 0 .. MaxStarts
  /\ hkDecided \in BOOLEAN /\ hkAccepted \in BOOLEAN
  /\ events \in Seq([type : EventTypes, gen : 0 .. MaxStarts])
  /\ outQueue \in Seq(Units) /\ output \in Seq(Units) /\ Len(output) <= RingCap
  /\ pendingForwards \subseteq Gens /\ cleanClose \in BOOLEAN
  /\ upc \in {"idle", "releasePrompt", "abort", "join", "spawn"}
  /\ ucont \in {"return", "spawn"} /\ hostKeyPending \in BOOLEAN
  /\ wpc \in Loop \cup Ended \cup {"resolve", "dial", "wait", "handshake", "prompt",
                                   "auth", "failed", "closed"}
  /\ chunk \in Seq(Units) /\ writeBuf \in Seq(Units)
  /\ gen \in 0 .. MaxStarts /\ open \subseteq Gens
  /\ net \in Seq(Units) /\ produced \in Nat
  /\ eof \in BOOLEAN /\ dead \in BOOLEAN
  /\ authed \subseteq Gens /\ pinned \subseteq Gens /\ trusted \subseteq Gens
  /\ typed \in [Gens -> Seq(Units)] /\ delivered \in [Gens -> Seq(Units)]
  /\ seen \in Seq(Units)

\* Credentials are sent, and a key is written to known_hosts, only on a
\* connection whose host key was already trusted or that the user accepted in
\* answer to that connection's own prompt -- never on an answer left over from
\* an earlier connection or on Disconnect's release of the wait.
NoAuthBeforeTrust == authed \cup pinned \subseteq trusted

IsPrefixOf(s, t) == Len(s) <= Len(t) /\ s = SubSeq(t, 1, Len(s))

\* What a server received is a prefix of what the user typed to it: in order,
\* once, and nothing typed to another connection, across every swap of the two
\* buffers and every restart.
KeystrokesGoToTheirConnection == \A g \in Gens : IsPrefixOf(delivered[g], typed[g])

\* What the terminal showed since Start is a prefix of what this connection's
\* server sent: nothing reordered or repeated by the ring, and nothing left in
\* it by the connection before.
OutputIsThisConnections ==
  \A i \in 1 .. Len(seen) : seen[i] = <<gen, i>>

\* A connection reports its end once, and last: after Closed or Error the
\* deque holds nothing more, and every event in it belongs to the connection
\* that runs (Start empties the deque after the join).
EndReportedOnceAndLast ==
  /\ \A i \in 1 .. Len(events) : events[i].gen = gen
  /\ \A i \in 1 .. Len(events) : events[i].type \in Terminal => i = Len(events)

\* m_running false with the UI outside Start and Disconnect means the thread
\* has done everything but return: the end was reported and the socket closed.
\* The reconnect tick relies on it.
StoppedMeansFinished ==
  upc = "idle" /\ ~running => wpc \in Ended /\ open = {} /\ socket = 0

\* A connection's thread is started only after the thread before it was
\* joined, with every socket it opened closed: no two workers, and forward
\* listeners never overlap.
OneWorkerAtATime == [][gen' # gen => wpc = "none" /\ open = {}]_vars

\* An attempt to connect does not hang: it comes up, ends, or asks the user.
\* Only the user can leave it there, at the host-key question.
AttemptEnds == (wpc = "resolve") ~> (wpc \in Loop \cup {"prompt"} \cup Ended)

\* Disconnect returns, whatever the network thread was doing: resolving,
\* connecting, blocked on a silent server, waiting for the host-key answer, or
\* pushing into a ring the joining UI thread can no longer drain.
DisconnectReturns == (upc = "join") ~> (upc \in {"idle", "spawn"})

\* What the server sent before closing the channel reaches the terminal even
\* though Closed is reported while it is still in the ring -- unless the user
\* disconnects or starts again first.
TailIsShown ==
  \A g \in Gens :
    (gen = g /\ eof /\ ~stop) ~> (stop \/ gen # g \/ dead \/ Len(seen) = produced)

\* Nothing crosses from one connection into the next, in either direction.
NothingCrosses == KeystrokesGoToTheirConnection /\ OutputIsThisConnections

\* Nobody waits for ever: not the tab for an attempt, not the UI thread for the
\* worker, not the user for the last output.
WaitsEnd == AttemptEnds /\ DisconnectReturns /\ TailIsShown

(* The abstract session. *)

ReportOf(e) == IF e.type \in Terminal THEN [kind |-> e.type, class |-> "any"]
               ELSE [kind |-> e.type]

PhaseOf ==
  CASE wpc \in Ended -> "stopped"
    [] wpc \in {"failed", "closed"} -> "over"
    [] wpc \in Loop -> "up"
    [] wpc = "prompt" /\ ~hkDecided -> "asked"
    [] wpc = "prompt" /\ hkDecided /\ ~hkAccepted -> "refused"
    [] wpc \in {"prompt", "auth"} /\ hkDecided /\ hkAccepted -> "accepted"
    [] OTHER -> "starting"

Life == INSTANCE SessionLife
          WITH Classes <- {"any"}, Refusal <- "any", phase <- PhaseOf,
               reports <- [i \in DOMAIN events |-> ReportOf(events[i])]

\* The threads, locks and the slot together keep SessionLife's promise: however
\* Disconnect and the worker interleave, the UI sees one question at most, then
\* Connected at most once, then one end, and no report of an earlier worker.
ImplementsSessionLife == Life!Spec

(* Statements of the repository that the code does not keep. *)

\* session.h:216, AddForward "adds a local forward to an already-running
\* session": a forward comes up on the connection it was asked for.
ForwardsOfThisConnection ==
  [][wpc = "loop" /\ wpc' = "read" => pendingForwards \subseteq {gen}]_vars
=============================================================================
