-------------------------- MODULE SshSessionProofs --------------------------
(***************************************************************************)
(* Theorems about SshSession, for any ring, any number of connections and  *)
(* any traffic, in four parts.  The control state first: its safety        *)
(* theorems do not use TypeOK, each rests on an invariant of its own, and  *)
(* TypeCorrect comes last and uses theirs, since what bounds the           *)
(* connection number is control too.  Then the bytes, then the refinement  *)
(* of SessionLife, and last the ring on its own.                           *)
(***************************************************************************)
EXTENDS SshSession, SpscRing, Integers, SequenceTheorems, TLAPS

\* Where the thread may hold no socket: before it dialled and after it closed.
NoSocket == {"none", "resolve", "dial", "failed", "closed", "ended"}

\* The answer under m_hkMutex speaks of the present connection, and the thread is
\* past the host-key check only on a trusted connection.
TrustInv ==
  /\ hkDecided \in BOOLEAN /\ hkAccepted \in BOOLEAN
  /\ hkDecided /\ hkAccepted => gen \in trusted
  /\ wpc = "auth" => gen \in trusted
  /\ authed \cup pinned \subseteq trusted

\* The slot m_socket and the open socket are one thing, owned by the thread that
\* dialled it; a thread that has not returned shows in m_running; and Start goes
\* on to spawn only after the join.
OwnerInv ==
  /\ gen \in Nat
  /\ socket \in {0, gen}
  /\ open = (IF socket = 0 THEN {} ELSE {gen})
  /\ wpc \in NoSocket => socket = 0
  /\ wpc # "none" => gen # 0
  /\ wpc \notin Ended => running = TRUE
  /\ upc = "spawn" => wpc = "none"

\* Nothing is trusted, and nothing was sent, before the first Start.
LEMMA TrustInit == Init => TrustInv
  BY DEF Init, TrustInv

\* One step of either thread keeps the trust invariant.
LEMMA TrustStep == TrustInv /\ [Next]_vars => TrustInv'
<1> SUFFICES ASSUME TrustInv, [Next]_vars PROVE TrustInv'
  OBVIOUS
<1> USE DEF TrustInv
<1>1. CASE Start \/ Disconnect \/ AbortSocket \/ Join
  BY <1>1 DEF Start, Disconnect, AbortSocket, Join, Joined, worker, outside, history
<1>2. CASE ReleasePrompt
  BY <1>2 DEF ReleasePrompt, worker, outside, history
<1>3. CASE Spawn
  BY <1>3 DEF Spawn, ForgetAnswer
<1>4. CASE PollEvent \/ Send \/ AddForward \/ \E n \in 1 .. RingCap : DrainOutput(n)
  BY <1>4 DEF PollEvent, Send, AddForward, DrainOutput, ui, worker, outside, history
<1>5. CASE \E accept \in BOOLEAN : AnswerHostKey(accept)
  BY <1>5 DEF AnswerHostKey, worker, outside
<1>6. CASE Resolve \/ Dial \/ WaitConnect \/ AbortedCall
  BY <1>6 DEF Resolve, Dial, WaitConnect, AbortedCall, Fail, history
<1>7. CASE Handshake
  BY <1>7 DEF Handshake, Fail
<1>8. CASE PromptAnswered
  BY <1>8 DEF PromptAnswered, Fail
<1>9. CASE Authenticate
  BY <1>9 DEF Authenticate, Fail
<1>10. CASE LoopHead \/ Read \/ CheckEof
  BY <1>10 DEF LoopHead, Read, CheckEof, Close, history
<1>11. CASE Push
  BY <1>11 DEF Push, history, outside
<1>12. CASE Write
  BY <1>12 DEF Write, Close
<1>13. CASE Finish
  BY <1>13 DEF Finish, history, outside
<1>14. CASE Environment
  BY <1>14 DEF Environment, ServerSends, ServerCloses, LinkBreaks, shared, worker,
     history
<1>15. CASE UNCHANGED vars
  BY <1>15 DEF vars, shared, ui, worker, outside, history
<1> QED
  BY <1>1, <1>2, <1>3, <1>4, <1>5, <1>6, <1>7, <1>8, <1>9, <1>10, <1>11, <1>12,
     <1>13, <1>14, <1>15
  DEF Next, UserCall, UiStep, UiPump, WorkerStep

\* No credential is sent and no key written to known_hosts on a connection whose
\* own host key was neither trusted nor accepted, whatever the interleaving of
\* Disconnect, restart, prompt and answer.
THEOREM AuthAfterTrust == Spec => []NoAuthBeforeTrust
<1>1. TrustInv => NoAuthBeforeTrust
  BY DEF TrustInv, NoAuthBeforeTrust
<1> QED
  BY TrustInit, TrustStep, <1>1, PTL DEF Spec

----------------------------------------------------------------------------
\* Before the first Start there is no thread and no socket.
LEMMA OwnerInit == Init => OwnerInv
  BY DEF Init, OwnerInv, NoSocket, Ended

\* One step of either thread keeps the ownership invariant.
LEMMA OwnerStep == OwnerInv /\ [Next]_vars => OwnerInv'
<1> SUFFICES ASSUME OwnerInv, [Next]_vars PROVE OwnerInv'
  OBVIOUS
<1> USE DEF OwnerInv, NoSocket, Ended
<1>1. CASE Start \/ Disconnect \/ ReleasePrompt
  BY <1>1 DEF Start, Disconnect, ReleasePrompt, worker, outside, history
<1>2. CASE AbortSocket
  BY <1>2 DEF AbortSocket, worker
<1>3. CASE Join
  BY <1>3 DEF Join, Joined, outside
<1>4. CASE Spawn
  BY <1>4 DEF Spawn
<1>5. CASE PollEvent \/ Send \/ AddForward \/ \E n \in 1 .. RingCap : DrainOutput(n)
  BY <1>5 DEF PollEvent, Send, AddForward, DrainOutput, ui, worker, outside
<1>6. CASE \E accept \in BOOLEAN : AnswerHostKey(accept)
  BY <1>6 DEF AnswerHostKey, worker, outside
<1>7. CASE Resolve
  BY <1>7 DEF Resolve, Fail, CloseSocket, ui
<1>8. CASE Dial
  BY <1>8 DEF Dial, Fail, CloseSocket, ui
<1>9. CASE WaitConnect
  BY <1>9 DEF WaitConnect, ui
<1>10. CASE Handshake \/ PromptAnswered \/ Authenticate \/ AbortedCall
  BY <1>10 DEF Handshake, PromptAnswered, Authenticate, AbortedCall, Fail,
     CloseSocket, ui
<1>11. CASE LoopHead \/ Read \/ CheckEof
  BY <1>11 DEF LoopHead, Read, CheckEof, Close, CloseSocket, ui
<1>12. CASE Push
  BY <1>12 DEF Push, ui, outside
<1>13. CASE Write
  BY <1>13 DEF Write, Close, CloseSocket, ui
<1>14. CASE Finish
  BY <1>14 DEF Finish, ui, outside
<1>15. CASE Environment
  BY <1>15 DEF Environment, ServerSends, ServerCloses, LinkBreaks, shared, ui, worker
<1>16. CASE UNCHANGED vars
  BY <1>16 DEF vars, shared, ui, worker, outside, history
<1> QED
  BY <1>1, <1>2, <1>3, <1>4, <1>5, <1>6, <1>7, <1>8, <1>9, <1>10, <1>11, <1>12,
     <1>13, <1>14, <1>15, <1>16
  DEF Next, UserCall, UiStep, UiPump, WorkerStep

\* The ownership invariant holds in every behaviour.
LEMMA OwnerAlways == Spec => []OwnerInv
  BY OwnerInit, OwnerStep, PTL DEF Spec

\* Running() false means the thread has reported its end and closed its socket:
\* what the reconnect tick relies on when it starts the next one.
THEOREM StoppedIsFinished == Spec => []StoppedMeansFinished
<1>1. OwnerInv => StoppedMeansFinished
  BY DEF OwnerInv, StoppedMeansFinished, NoSocket, Ended
<1> QED
  BY OwnerAlways, <1>1, PTL

\* No thread is started before the one before it was joined with its socket
\* closed, for any number of restarts.
THEOREM WorkersNeverOverlap == Spec => OneWorkerAtATime
<1>1. OwnerInv /\ [Next]_vars => [gen' # gen => wpc = "none" /\ open = {}]_vars
  <2> SUFFICES ASSUME OwnerInv, Next, gen' # gen PROVE wpc = "none" /\ open = {}
    BY DEF vars, outside
  <2>1. Spawn
    BY DEF Next, UserCall, UiStep, UiPump, WorkerStep, Environment,
       Start, Disconnect, Send, AddForward, AnswerHostKey, ReleasePrompt,
       AbortSocket, Join, Joined, PollEvent, DrainOutput, Resolve, Dial, WaitConnect,
       Handshake, PromptAnswered, Authenticate, AbortedCall, LoopHead, Read,
       Push, Write, CheckEof, Finish, ServerSends, ServerCloses, LinkBreaks,
       outside
  <2> QED
    BY <2>1 DEF Spawn, OwnerInv, NoSocket
<1> QED
  BY OwnerAlways, <1>1, PTL DEF Spec, OneWorkerAtATime

----------------------------------------------------------------------------
\* The thread has posted its end, or there is none.
Silent == {"none", "failed", "closed", "ended"}

\* Every queued event is the present connection's, the end can only be the last,
\* and there is none while the thread may still post.
EventInv ==
  /\ gen \in Nat
  /\ events \in Seq([type : EventTypes, gen : Nat])
  /\ \A i \in 1 .. Len(events) : events[i].gen = gen
  /\ \A i \in 1 .. Len(events) : events[i].type \in Terminal => i = Len(events)
  /\ wpc \notin Silent => \A i \in 1 .. Len(events) : events[i].type \notin Terminal

\* What PostEvent does to a deque without an end in it.
LEMMA Posted ==
  ASSUME EventInv, wpc \notin Silent, gen' = gen, NEW t \in EventTypes, PostEvent(t),
         t \in Terminal <=> wpc' \in Silent
  PROVE  EventInv'
<1> USE DEF EventInv, PostEvent, Event
<1>1. events' \in Seq([type : EventTypes, gen : Nat]) /\ Len(events') = Len(events) + 1
  OBVIOUS
<1>2. \A i \in 1 .. Len(events') :
        events'[i] = IF i = Len(events') THEN [type |-> t, gen |-> gen] ELSE events[i]
  BY <1>1
<1>3. \A i \in 1 .. Len(events') : events'[i].gen = gen'
  BY <1>1, <1>2
<1>4. \A i \in 1 .. Len(events') : events'[i].type \in Terminal => i = Len(events')
  BY <1>1, <1>2 DEF Terminal
<1>5. wpc' \notin Silent => \A i \in 1 .. Len(events') : events'[i].type \notin Terminal
  BY <1>1, <1>2
<1> QED
  BY <1>1, <1>3, <1>4, <1>5

\* What the tail of a sequence is.
LEMMA TailOf ==
  ASSUME NEW S, NEW q \in Seq(S), q # <<>>
  PROVE  /\ Tail(q) \in Seq(S) /\ Len(q) \in Nat /\ Len(Tail(q)) = Len(q) - 1
         /\ \A i \in 1 .. Len(q) - 1 : Tail(q)[i] = q[i + 1] /\ i + 1 \in 1 .. Len(q)
<1>1. Tail(q) \in Seq(S) /\ Len(Tail(q)) = Len(q) - 1
  BY HeadTailProperties
<1>2. Len(q) \in Nat
  BY LenProperties
<1>3. \A i \in 1 .. Len(q) - 1 : i + 1 \in 1 .. Len(q)
  BY <1>2
<1>4. \A i \in 1 .. Len(q) - 1 : Tail(q)[i] = q[i + 1]
  BY HeadTailProperties, <1>1
<1> QED
  BY <1>1, <1>2, <1>3, <1>4

\* What PollEvent leaves of it.
LEMMA Polled ==
  ASSUME EventInv, events # <<>>, events' = Tail(events), gen' = gen, wpc' = wpc
  PROVE  EventInv'
<1> DEFINE n == Len(events) - 1
<1>1. /\ events' \in Seq([type : EventTypes, gen : Nat])
      /\ Len(events) \in Nat /\ Len(events') = n
      /\ \A i \in 1 .. n : events'[i] = events[i + 1] /\ i + 1 \in 1 .. Len(events)
  BY TailOf DEF EventInv
<1>2. \A i \in 1 .. n : events'[i].gen = gen'
  BY <1>1 DEF EventInv
<1>3. \A i \in 1 .. n : events'[i].type \in Terminal => i + 1 = Len(events)
  BY <1>1 DEF EventInv
<1>4. \A i \in 1 .. n : i + 1 = Len(events) => i = n
  <2>1. Len(events) \in Nat
    BY <1>1
  <2> QED
    BY <2>1
<1>5. wpc' \notin Silent => \A i \in 1 .. n : events'[i].type \notin Terminal
  BY <1>1 DEF EventInv
<1> HIDE DEF n
<1> QED
  BY <1>1, <1>2, <1>3, <1>4, <1>5 DEF EventInv

\* A step that leaves the deque alone and does not revive a silent thread.
LEMMA Quiet ==
  ASSUME EventInv, events' = events, gen' = gen, wpc \in Silent => wpc' \in Silent
  PROVE  EventInv'
  BY DEF EventInv

\* There is no event before the first Start.
LEMMA EventInit == Init => EventInv
  BY DEF Init, EventInv, Silent

\* One step of either thread keeps the event invariant.
LEMMA EventStep == EventInv /\ OwnerInv /\ [Next]_vars => EventInv'
<1> SUFFICES ASSUME EventInv, OwnerInv, [Next]_vars PROVE EventInv'
  OBVIOUS
<1>1. CASE Start \/ Disconnect \/ ReleasePrompt \/ AbortSocket
  BY <1>1, Quiet DEF Start, Disconnect, ReleasePrompt, AbortSocket, worker, outside
<1>2. CASE Join
  BY <1>2, Quiet DEF Join, Joined, Silent, outside
<1>3. CASE Spawn
  BY <1>3 DEF Spawn, ClearEvents, EventInv, Silent
<1>4. CASE PollEvent
  BY <1>4, Polled DEF PollEvent, worker, outside
<1>5. CASE Send \/ AddForward \/ \E n \in 1 .. RingCap : DrainOutput(n)
  BY <1>5, Quiet DEF Send, AddForward, DrainOutput, worker, outside
<1>6. CASE \E accept \in BOOLEAN : AnswerHostKey(accept)
  BY <1>6, Quiet DEF AnswerHostKey, worker, outside
<1>7. ASSUME gen' = gen, wpc \notin Silent, Fail PROVE EventInv'
  BY <1>7, Posted DEF Fail, EventTypes, Terminal, Silent
<1>8. ASSUME gen' = gen, wpc \notin Silent, NEW clean, Close(clean) PROVE EventInv'
  BY <1>8, Posted DEF Close, EventTypes, Terminal, Silent
<1>9. CASE Resolve \/ Dial \/ AbortedCall
  BY <1>9, <1>7, Quiet DEF Resolve, Dial, AbortedCall, Silent
<1>10. CASE WaitConnect
  BY <1>10, Posted, Quiet DEF WaitConnect, EventTypes, Terminal, Silent
<1>11. CASE Handshake
  BY <1>11, <1>7, Posted, Quiet DEF Handshake, EventTypes, Terminal, Silent
<1>12. CASE PromptAnswered
  BY <1>12, <1>7, Quiet DEF PromptAnswered, Silent
<1>13. CASE Authenticate
  BY <1>13, <1>7, Posted DEF Authenticate, EventTypes, Terminal, Silent
<1>14. CASE LoopHead \/ Read \/ CheckEof
  BY <1>14, <1>8, Quiet DEF LoopHead, Read, CheckEof, Silent
<1>15. CASE Push
  BY <1>15, Quiet DEF Push, Silent, outside
<1>16. CASE Write
  BY <1>16, <1>8, Quiet DEF Write, Silent
<1>17. CASE Finish
  BY <1>17, Quiet DEF Finish, Silent, outside
<1>18. CASE Environment
  BY <1>18, Quiet DEF Environment, ServerSends, ServerCloses, LinkBreaks, shared, worker
<1>19. CASE UNCHANGED vars
  BY <1>19, Quiet DEF vars, shared, worker, outside
<1> QED
  BY <1>1, <1>2, <1>3, <1>4, <1>5, <1>6, <1>9, <1>10, <1>11, <1>12, <1>13, <1>14,
     <1>15, <1>16, <1>17, <1>18, <1>19
  DEF Next, UserCall, UiStep, UiPump, WorkerStep

\* The UI hears of the end of each connection at most once, after everything else
\* it hears of it, and never of the end of another connection.
THEOREM EndIsReportedOnce == Spec => []EndReportedOnceAndLast
<1>1. EventInv => EndReportedOnceAndLast
  BY DEF EventInv, EndReportedOnceAndLast
<1> QED
  BY EventInit, EventStep, OwnerAlways, <1>1, PTL DEF Spec

----------------------------------------------------------------------------
\* TypeOK in two halves: the variables of both threads' control, and the byte
\* sequences.
ControlType ==
  /\ running \in BOOLEAN /\ stop \in BOOLEAN /\ socket \in 0 .. MaxStarts
  /\ hkDecided \in BOOLEAN /\ hkAccepted \in BOOLEAN
  /\ pendingForwards \subseteq Gens /\ cleanClose \in BOOLEAN
  /\ upc \in {"idle", "releasePrompt", "abort", "join", "spawn"}
  /\ ucont \in {"return", "spawn"} /\ hostKeyPending \in BOOLEAN
  /\ wpc \in Loop \cup Ended \cup {"resolve", "dial", "wait", "handshake", "prompt",
                                   "auth", "failed", "closed"}
  /\ gen \in 0 .. MaxStarts /\ open \subseteq Gens
  /\ eof \in BOOLEAN /\ dead \in BOOLEAN
  /\ authed \subseteq Gens /\ pinned \subseteq Gens /\ trusted \subseteq Gens

DataType ==
  /\ events \in Seq([type : EventTypes, gen : 0 .. MaxStarts])
  /\ outQueue \in Seq(Units) /\ output \in Seq(Units) /\ Len(output) <= RingCap
  /\ chunk \in Seq(Units) /\ writeBuf \in Seq(Units)
  /\ net \in Seq(Units) /\ produced \in Nat
  /\ typed \in [Gens -> Seq(Units)] /\ delivered \in [Gens -> Seq(Units)]
  /\ seen \in Seq(Units)

\* Only a Start that found a connection left to number goes on to spawn, and only
\* a connection has a thread, an event or a prompt.
CountInv ==
  /\ upc = "spawn" => ucont = "spawn"
  /\ ucont = "spawn" => gen < MaxStarts
  /\ wpc # "none" \/ events # <<>> \/ hostKeyPending => gen # 0

\* Together they are the type invariant.
LEMMA Halves == TypeOK <=> ControlType /\ DataType
  BY DEF TypeOK, ControlType, DataType

\* A step of either thread, of the server or of the network keeps the count.
LEMMA CountStep ==
  ASSUME CountInv, ControlType, DataType, OwnerInv, [Next]_vars PROVE CountInv'
<1> USE DEF CountInv, OwnerInv
<1>1. CASE Start \/ Disconnect
  BY <1>1 DEF Start, Disconnect, UiFree, worker, outside
<1>2. CASE ReleasePrompt \/ AbortSocket \/ Join
  BY <1>2 DEF ReleasePrompt, AbortSocket, Join, Joined, worker, outside
<1>3. CASE Spawn
  BY <1>3 DEF Spawn
<1>4. CASE PollEvent \/ Send \/ AddForward \/ \E n \in 1 .. RingCap : DrainOutput(n)
  BY <1>4 DEF PollEvent, Send, AddForward, DrainOutput, ui, worker, outside,
     ControlType
<1>5. CASE \E accept \in BOOLEAN : AnswerHostKey(accept)
  BY <1>5 DEF AnswerHostKey, worker, outside
<1>6. CASE Resolve \/ Dial \/ WaitConnect \/ Handshake \/ PromptAnswered
  BY <1>6 DEF Resolve, Dial, WaitConnect, Handshake, PromptAnswered, ui
<1>7. CASE Authenticate \/ AbortedCall \/ LoopHead \/ Read
  BY <1>7 DEF Authenticate, AbortedCall, LoopHead, Read, ui
<1>8. CASE Push \/ Write \/ CheckEof \/ Finish
  BY <1>8 DEF Push, Write, CheckEof, Finish, ui, outside
<1>9. CASE Environment
  BY <1>9 DEF Environment, ServerSends, ServerCloses, LinkBreaks, shared, ui, worker
<1>10. CASE UNCHANGED vars
  BY <1>10 DEF vars, shared, ui, worker, outside, history
<1> QED
  BY <1>1, <1>2, <1>3, <1>4, <1>5, <1>6, <1>7, <1>8, <1>9, <1>10
  DEF Next, UserCall, UiStep, UiPump, WorkerStep

\* A step keeps the control variables of both threads in their sets.
LEMMA ControlStep ==
  ASSUME CountInv, ControlType, DataType, OwnerInv, [Next]_vars PROVE ControlType'
<1> USE SessionAssumption DEF ControlType
<1>a. gen # 0 => gen \in Gens
  BY DEF Gens
<1>b. wpc # "none" => gen \in Gens
  BY <1>a DEF CountInv
<1>1. CASE Start \/ Disconnect
  BY <1>1 DEF Start, Disconnect, worker, outside, history
<1>2. CASE ReleasePrompt
  BY <1>2 DEF ReleasePrompt, worker, outside, history
<1>16. CASE AbortSocket
  BY <1>16 DEF AbortSocket, worker, outside, history
<1>17. CASE Join
  BY <1>17 DEF Join, Joined, Ended, worker, outside, history
<1>3. CASE Spawn
  <2>1. gen' \in 0 .. MaxStarts
    BY <1>3 DEF Spawn, CountInv
  <2> QED
    BY <1>3, <2>1 DEF Spawn, ForgetAnswer
<1>4. CASE PollEvent
  BY <1>4 DEF PollEvent, worker, outside, history
<1>5. CASE Send \/ AddForward \/ \E n \in 1 .. RingCap : DrainOutput(n)
  BY <1>5, <1>a DEF Send, AddForward, DrainOutput, ui, worker, outside, history
<1>6. CASE \E accept \in BOOLEAN : AnswerHostKey(accept)
  BY <1>6, <1>a DEF AnswerHostKey, CountInv, worker, outside
<1>7. CASE Resolve \/ Dial \/ WaitConnect \/ AbortedCall
  BY <1>7, <1>b DEF Resolve, Dial, WaitConnect, AbortedCall, Fail, CloseSocket, ui, history
<1>8. CASE Handshake \/ PromptAnswered \/ Authenticate
  BY <1>8, <1>b DEF Handshake, PromptAnswered, Authenticate, Fail, CloseSocket, ui, Loop
<1>9. CASE LoopHead
  BY <1>9, <1>b DEF LoopHead, Close, CloseSocket, ui, Loop
<1>10. CASE Read
  BY <1>10 DEF Read, Close, CloseSocket, ui, history, Loop
<1>18. CASE CheckEof
  BY <1>18 DEF CheckEof, ChannelEof, Close, CloseSocket, ui, history, Loop
<1>11. CASE Push
  BY <1>11 DEF Push, ui, outside, history, Loop
<1>12. CASE Write
  <2>1. /\ UNCHANGED <<running, stop, hkDecided, hkAccepted, pendingForwards, upc, ucont,
                       hostKeyPending, gen, eof, dead>>
        /\ UNCHANGED <<authed, pinned, trusted>>
    BY <1>12 DEF Write, ui
  <2>2. CASE Close(FALSE)
    BY <2>1, <2>2 DEF Close, CloseSocket
  <2>3. CASE wpc' = "eof" /\ UNCHANGED <<cleanClose, socket, open>>
    BY <2>1, <2>3 DEF Loop
  <2> QED
    BY <1>12, <2>2, <2>3 DEF Write
<1>13. CASE Finish
  BY <1>13 DEF Finish, ui, outside, history, Ended
<1>14. CASE ServerSends
  BY <1>14 DEF ServerSends, shared, ui, worker, history
<1>19. CASE ServerCloses
  BY <1>19 DEF ServerCloses, shared, ui, worker, history
<1>20. CASE LinkBreaks
  BY <1>20 DEF LinkBreaks, shared, ui, worker, history
<1>15. CASE UNCHANGED vars
  BY <1>15 DEF vars, shared, ui, worker, outside, history
<1> QED
  BY <1>1, <1>2, <1>3, <1>4, <1>5, <1>6, <1>7, <1>8, <1>9, <1>10, <1>11, <1>12,
     <1>13, <1>14, <1>15, <1>16, <1>17, <1>18, <1>19, <1>20
  DEF Next, UserCall, UiStep, UiPump, WorkerStep, Environment

\* The two ends of a sequence cut at n.
LEMMA Cut ==
  ASSUME NEW S, NEW q \in Seq(S), NEW n \in 0 .. Len(q)
  PROVE  /\ SubSeq(q, 1, n) \in Seq(S) /\ Len(SubSeq(q, 1, n)) = n
         /\ SubSeq(q, n + 1, Len(q)) \in Seq(S)
         /\ Len(SubSeq(q, n + 1, Len(q))) = Len(q) - n
<1>1. Len(q) \in Nat /\ \A i \in 1 .. Len(q) : q[i] \in S
  BY LenProperties, ElementOfSeq
<1>2. SubSeq(q, 1, n) \in Seq(S) /\ Len(SubSeq(q, 1, n)) = n
  BY <1>1, SubSeqProperties
<1>3. SubSeq(q, n + 1, Len(q)) \in Seq(S) /\ Len(SubSeq(q, n + 1, Len(q))) = Len(q) - n
  BY <1>1, SubSeqProperties
<1> QED
  BY <1>2, <1>3

Deque == Seq([type : EventTypes, gen : 0 .. MaxStarts])

\* An event of the present connection keeps the deque typed.
LEMMA PostType ==
  ASSUME events \in Deque, gen \in 0 .. MaxStarts, NEW t \in EventTypes, PostEvent(t)
  PROVE  events' \in Deque
<1>1. Event(t) \in [type : EventTypes, gen : 0 .. MaxStarts]
  BY DEF Event
<1> QED
  BY <1>1, AppendProperties DEF PostEvent, Deque

\* A step keeps every queue, buffer and ring a sequence of its own units, and the
\* ring within its capacity.
LEMMA DataStep ==
  ASSUME CountInv, ControlType, DataType, OwnerInv, [Next]_vars PROVE DataType'
<1>a. gen \in 0 .. MaxStarts /\ (wpc # "none" => gen \in Gens)
  BY SessionAssumption DEF CountInv, ControlType, Gens
<1>b. \A t \in EventTypes : PostEvent(t) => events' \in Deque
  BY <1>a, PostType DEF DataType, Deque
<1>c. /\ Fail => events' \in Deque
      /\ \A clean : Close(clean) => events' \in Deque
  BY <1>b DEF Fail, Close, EventTypes
<1> USE DEF DataType, Deque
<1>1. CASE Start \/ Disconnect \/ ReleasePrompt \/ AbortSocket \/ Join
  BY <1>1 DEF Start, Disconnect, ReleasePrompt, AbortSocket, Join, Joined, worker,
              outside, history
<1>2. CASE Spawn
  <2>1. <<>> \in Seq(Units) /\ <<>> \in Deque /\ Len(<<>>) <= RingCap
    BY SessionAssumption
  <2> QED
    BY <1>2, <2>1 DEF Spawn, ClearKeys, ClearEvents
<1>3. CASE PollEvent
  <2>1. events' \in Deque
    BY <1>3, HeadTailProperties DEF PollEvent
  <2> QED
    BY <1>3, <2>1 DEF PollEvent, worker, outside, history
<1>4. CASE Send
  <2>1. gen \in Gens /\ Len(typed[gen]) + 1 \in Nat
    BY <1>4, <1>a DEF Send, Gens
  <2> DEFINE key == <<gen, Len(typed[gen]) + 1>>
  <2>2. key \in Units
    BY <2>1 DEF Units
  <2>3. Append(outQueue, key) \in Seq(Units) /\ Append(typed[gen], key) \in Seq(Units)
    BY <2>1, <2>2, AppendProperties
  <2>4. /\ outQueue' = Append(outQueue, key)
        /\ typed' = [typed EXCEPT ![gen] = Append(typed[gen], key)]
        /\ UNCHANGED <<events, output, chunk, writeBuf, net, produced, delivered, seen>>
    BY <1>4 DEF Send, worker, outside
  <2> HIDE DEF key
  <2> QED
    BY <2>1, <2>3, <2>4
<1>5. CASE \E n \in 1 .. RingCap : DrainOutput(n)
  <2>1. PICK n \in 1 .. Len(output) : DrainOutput(n)
    BY <1>5 DEF DrainOutput
  <2>2. /\ SubSeq(output, 1, n) \in Seq(Units)
        /\ SubSeq(output, n + 1, Len(output)) \in Seq(Units)
        /\ Len(SubSeq(output, n + 1, Len(output))) <= RingCap
    BY Cut, LenProperties, SessionAssumption
  <2>3. seen \o SubSeq(output, 1, n) \in Seq(Units)
    BY <2>2, ConcatProperties
  <2> QED
    BY <2>1, <2>2, <2>3 DEF DrainOutput, ui, worker, outside
<1>6. CASE AddForward \/ \E accept \in BOOLEAN : AnswerHostKey(accept)
  BY <1>6 DEF AddForward, AnswerHostKey, ui, worker, outside, history
<1>7. CASE Resolve \/ Dial \/ AbortedCall
  BY <1>7, <1>c DEF Resolve, Dial, AbortedCall, history
<1>8. CASE WaitConnect
  BY <1>8, <1>b DEF WaitConnect, history, EventTypes
<1>9. CASE Handshake
  BY <1>9, <1>b, <1>c DEF Handshake, EventTypes
<1>10. CASE PromptAnswered
  BY <1>10, <1>c DEF PromptAnswered
<1>11. CASE Authenticate
  BY <1>11, <1>b, <1>c DEF Authenticate, EventTypes
<1>12. CASE LoopHead \/ CheckEof
  BY <1>12, <1>c DEF LoopHead, CheckEof, history
<1>13. CASE Read
  <2>1. /\ UNCHANGED <<outQueue, output, writeBuf, produced, typed, delivered, seen>>
        /\ events' \in Deque
    BY <1>13, <1>c DEF Read, history
  <2>2. ASSUME NEW n \in 1 .. Len(net), chunk' = SubSeq(net, 1, n),
               net' = SubSeq(net, n + 1, Len(net))
        PROVE  DataType'
    <3>1. n \in 0 .. Len(net)
      BY LenProperties
    <3>2. chunk' \in Seq(Units) /\ net' \in Seq(Units)
      BY <2>2, <3>1, Cut
    <3> QED
      BY <2>1, <3>2
  <2>3. CASE UNCHANGED <<chunk, net>>
    BY <2>1, <2>3
  <2> QED
    BY <1>13, <2>2, <2>3 DEF Read
<1>14. CASE Push
  <2> DEFINE n == IF Len(chunk) < FreeSpace THEN Len(chunk) ELSE FreeSpace
  <2>1. /\ n \in 0 .. Len(chunk) /\ Len(output) + n <= RingCap
        /\ Len(output) \in Nat /\ Len(chunk) \in Nat
    BY SessionAssumption, LenProperties DEF FreeSpace
  <2>2. /\ SubSeq(chunk, 1, n) \in Seq(Units) /\ Len(SubSeq(chunk, 1, n)) = n
        /\ SubSeq(chunk, n + 1, Len(chunk)) \in Seq(Units)
    BY <2>1, Cut
  <2>3. /\ output \o SubSeq(chunk, 1, n) \in Seq(Units)
        /\ Len(output \o SubSeq(chunk, 1, n)) <= RingCap
    BY <2>1, <2>2, ConcatProperties
  <2>4. /\ \/ output' = output \o SubSeq(chunk, 1, n)
              /\ chunk' = SubSeq(chunk, n + 1, Len(chunk))
           \/ output' = output /\ chunk' = <<>>
        /\ UNCHANGED <<events, outQueue, writeBuf, net, produced, typed, delivered, seen>>
    BY <1>14 DEF Push, AfterPush, outside, history
  <2>5. <<>> \in Seq(Units)
    OBVIOUS
  <2> HIDE DEF n
  <2>6. CASE output' = output /\ chunk' = <<>>
    BY <2>4, <2>5, <2>6
  <2>7. CASE output' = output \o SubSeq(chunk, 1, n) /\ chunk' = SubSeq(chunk, n + 1, Len(chunk))
    <3>1. output' \in Seq(Units) /\ Len(output') <= RingCap /\ chunk' \in Seq(Units)
      BY <2>2, <2>3, <2>7
    <3> QED
      BY <2>4, <3>1
  <2> QED
    BY <2>4, <2>6, <2>7
<1>15. CASE Write
  <2> DEFINE unsent == IF writeBuf = <<>> THEN outQueue ELSE writeBuf
  <2>1. unsent \in Seq(Units) /\ outQueue' \in Seq(Units)
    BY <1>15 DEF Write
  <2>2. events' \in Deque
    BY <1>15, <1>c DEF Write
  <2>3. UNCHANGED <<output, chunk, net, produced, typed, seen>>
    BY <1>15 DEF Write
  <2>4. CASE writeBuf' = unsent /\ UNCHANGED delivered
    BY <2>1, <2>2, <2>3, <2>4
  <2>5. ASSUME NEW n \in 0 .. Len(unsent), writeBuf' = SubSeq(unsent, n + 1, Len(unsent)),
               delivered' = [delivered EXCEPT ![gen] = @ \o SubSeq(unsent, 1, n)]
        PROVE  DataType'
    <3>1. gen \in Gens
      BY <1>15, <1>a DEF Write
    <3>2. SubSeq(unsent, 1, n) \in Seq(Units) /\ writeBuf' \in Seq(Units)
      BY <2>1, <2>5, Cut
    <3>3. delivered[gen] \o SubSeq(unsent, 1, n) \in Seq(Units)
      BY <3>1, <3>2, ConcatProperties
    <3> HIDE DEF unsent
    <3> QED
      BY <2>1, <2>2, <2>3, <2>5, <3>1, <3>2, <3>3
  <2> QED
    BY <1>15, <2>4, <2>5 DEF Write
<1>16. CASE Finish
  BY <1>16 DEF Finish, outside, history
<1>17. CASE ServerSends
  <2>1. <<gen, produced + 1>> \in Units
    BY <1>17, <1>a DEF ServerSends, ServerUp, Loop, Units
  <2>2. net' \in Seq(Units) /\ produced' \in Nat
    BY <1>17, <2>1, AppendProperties DEF ServerSends
  <2> QED
    BY <1>17, <2>2 DEF ServerSends, shared, worker, history
<1>18. CASE ServerCloses \/ LinkBreaks
  BY <1>18 DEF ServerCloses, LinkBreaks, shared, worker, history
<1>19. CASE UNCHANGED vars
  BY <1>19 DEF vars, shared, worker, outside, history
<1> QED
  BY <1>1, <1>2, <1>3, <1>4, <1>5, <1>6, <1>7, <1>8, <1>9, <1>10, <1>11, <1>12,
     <1>13, <1>14, <1>15, <1>16, <1>17, <1>18, <1>19
  DEF Next, UserCall, UiStep, UiPump, WorkerStep, Environment

\* Before the first Start there is no connection, no thread and nothing queued.
LEMMA TypeInit == Init => CountInv /\ ControlType /\ DataType
<1> SUFFICES ASSUME Init PROVE CountInv /\ ControlType /\ DataType
  OBVIOUS
<1>1. CountInv
  BY SessionAssumption DEF Init, CountInv
<1>2. ControlType
  <2>1. 0 \in 0 .. MaxStarts
    BY SessionAssumption
  <2> QED
    BY <2>1 DEF Init, ControlType, Ended
<1>3. <<>> \in Seq(Units) /\ Len(<<>>) <= RingCap
  BY SessionAssumption
<1>4. DataType
  BY <1>3 DEF Init, DataType
<1> QED
  BY <1>1, <1>2, <1>4

\* The type invariant, for every ring and every bound: in particular the output ring
\* never holds more than its capacity.
THEOREM TypeCorrect == Spec => []TypeOK
<1> DEFINE Typed == CountInv /\ ControlType /\ DataType
<1>1. Init => Typed
  BY TypeInit
<1>2. Typed /\ OwnerInv /\ [Next]_vars => Typed'
  BY CountStep, ControlStep, DataStep
<1>3. Typed => TypeOK
  BY Halves
<1> HIDE DEF Typed
<1> QED
  BY <1>1, <1>2, <1>3, OwnerAlways, PTL DEF Spec

----------------------------------------------------------------------------
(* The bytes.  Nothing crosses from one connection into the next: the      *)
(* queues a byte passes through, read one after the other, count on        *)
(* without a gap.                                                          *)

\* q holds units of connection g, numbered on from k.
Numbered(q, g, k) == \A i \in 1 .. Len(q) : q[i] = <<g, k + i>>

\* What was shown, what is in the ring, what the thread is pushing and what is
\* in flight follow on one another.  Once stopped, the thread pushes nothing, so
\* what it drops then leaves no gap in what is shown.
OutputInv ==
  /\ wpc # "push" => chunk = <<>>
  /\ Numbered(seen, gen, 0)
  /\ Numbered(output, gen, Len(seen))
  /\ ~stop => /\ Numbered(chunk, gen, Len(seen) + Len(output))
              /\ Numbered(net, gen, Len(seen) + Len(output) + Len(chunk))
              /\ produced = Len(seen) + Len(output) + Len(chunk) + Len(net)

\* What the server received, the thread is writing and the UI has queued follow
\* on one another up to the last key typed.
KeysInv ==
  /\ \A g \in Gens : /\ Numbered(typed[g], g, 0) /\ Numbered(delivered[g], g, 0)
                     /\ Len(delivered[g]) <= Len(typed[g])
                     /\ g > gen => typed[g] = <<>> /\ delivered[g] = <<>>
  /\ gen \in Gens =>
       /\ Numbered(writeBuf, gen, Len(delivered[gen]))
       /\ Numbered(outQueue, gen, Len(delivered[gen]) + Len(writeBuf))
       /\ Len(typed[gen]) = Len(delivered[gen]) + Len(writeBuf) + Len(outQueue)

\* Everything the steps below may assume of a state.
BytesType == CountInv /\ ControlType /\ DataType /\ OwnerInv

\* Nothing is numbered on from anywhere.
LEMMA NumberedEmpty == ASSUME NEW g, NEW k PROVE Numbered(<<>>, g, k)
  BY DEF Numbered

\* One more unit, with the next number.
LEMMA NumberedAppend ==
  ASSUME NEW q \in Seq(Units), NEW g \in Gens, NEW k \in Nat, Numbered(q, g, k),
         NEW m \in Nat, m = k + Len(q) + 1
  PROVE  /\ Numbered(Append(q, <<g, m>>), g, k)
         /\ Append(q, <<g, m>>) \in Seq(Units)
         /\ Len(Append(q, <<g, m>>)) = Len(q) + 1
<1>1. <<g, m>> \in Units
  BY DEF Units
<1>2. Len(q) \in Nat
  BY LenProperties
<1>3. /\ Append(q, <<g, m>>) \in Seq(Units) /\ Len(Append(q, <<g, m>>)) = Len(q) + 1
      /\ \A i \in 1 .. Len(q) : Append(q, <<g, m>>)[i] = q[i]
      /\ Append(q, <<g, m>>)[Len(q) + 1] = <<g, m>>
  BY <1>1, AppendProperties
<1>4. \A i \in 1 .. Len(q) + 1 : Append(q, <<g, m>>)[i] = <<g, k + i>>
  <2> TAKE i \in 1 .. Len(q) + 1
  <2>1. CASE i = Len(q) + 1
    <3>1. k + i = m
      BY <1>2, <2>1
    <3> QED
      BY <3>1, <2>1, <1>3
  <2>2. CASE i # Len(q) + 1
    <3>1. i \in 1 .. Len(q)
      BY <1>2, <2>2
    <3> QED
      BY <3>1, <1>3 DEF Numbered
  <2> QED
    BY <2>1, <2>2
<1> QED
  BY <1>3, <1>4 DEF Numbered

\* The second half of a cut counts on from the first.
LEMMA NumberedCut ==
  ASSUME NEW q \in Seq(Units), NEW g, NEW k \in Nat, Numbered(q, g, k),
         NEW n \in 0 .. Len(q)
  PROVE  /\ Numbered(SubSeq(q, 1, n), g, k)
         /\ Numbered(SubSeq(q, n + 1, Len(q)), g, k + n)
         /\ SubSeq(q, 1, n) \in Seq(Units) /\ Len(SubSeq(q, 1, n)) = n
         /\ SubSeq(q, n + 1, Len(q)) \in Seq(Units)
         /\ Len(SubSeq(q, n + 1, Len(q))) = Len(q) - n
<1>1. /\ SubSeq(q, 1, n) \in Seq(Units) /\ Len(SubSeq(q, 1, n)) = n
      /\ SubSeq(q, n + 1, Len(q)) \in Seq(Units)
      /\ Len(SubSeq(q, n + 1, Len(q))) = Len(q) - n
      /\ Len(q) \in Nat /\ n \in Nat
  BY Cut, LenProperties
<1>2. \A i \in 1 .. n : SubSeq(q, 1, n)[i] = q[i] /\ i \in 1 .. Len(q)
  BY <1>1
<1>3. \A i \in 1 .. Len(q) - n : SubSeq(q, n + 1, Len(q))[i] = q[n + i]
  BY <1>1
<1>4. \A i \in 1 .. Len(q) - n : n + i \in 1 .. Len(q) /\ k + (n + i) = (k + n) + i
  BY <1>1
<1> QED
  BY <1>1, <1>2, <1>3, <1>4 DEF Numbered

\* Two sequences of which the second counts on from the first.
LEMMA NumberedConcat ==
  ASSUME NEW q \in Seq(Units), NEW r \in Seq(Units), NEW g, NEW k \in Nat,
         Numbered(q, g, k), Numbered(r, g, k + Len(q))
  PROVE  /\ Numbered(q \o r, g, k) /\ q \o r \in Seq(Units)
         /\ Len(q \o r) = Len(q) + Len(r)
<1>1. /\ q \o r \in Seq(Units) /\ Len(q \o r) = Len(q) + Len(r)
      /\ Len(q) \in Nat /\ Len(r) \in Nat
      /\ \A i \in 1 .. Len(q) + Len(r) :
           (q \o r)[i] = IF i <= Len(q) THEN q[i] ELSE r[i - Len(q)]
  BY ConcatProperties, LenProperties
<1>2. \A i \in 1 .. Len(q) + Len(r) : (q \o r)[i] = <<g, k + i>>
  <2> TAKE i \in 1 .. Len(q) + Len(r)
  <2>1. CASE i <= Len(q)
    <3>1. i \in 1 .. Len(q)
      BY <1>1, <2>1
    <3> QED
      BY <1>1, <2>1, <3>1 DEF Numbered
  <2>2. CASE ~(i <= Len(q))
    <3>1. i - Len(q) \in 1 .. Len(r) /\ k + Len(q) + (i - Len(q)) = k + i
      BY <1>1, <2>2
    <3>2. r[i - Len(q)] = <<g, k + Len(q) + (i - Len(q))>>
      BY <3>1 DEF Numbered
    <3> QED
      BY <1>1, <2>2, <3>1, <3>2
  <2> QED
    BY <2>1, <2>2
<1> QED
  BY <1>1, <1>2 DEF Numbered

----------------------------------------------------------------------------
(* From the server to the screen. *)

\* Nothing was produced before the first Start.
LEMMA OutputInit == Init => OutputInv
  BY DEF Init, OutputInv, Numbered

\* A step that touches none of the four queues.
LEMMA OutputQuiet ==
  ASSUME OutputInv, UNCHANGED <<seen, output, chunk, net, produced, gen>>,
         wpc' = "push" \/ chunk = <<>>, stop' = stop \/ stop'
  PROVE  OutputInv'
  BY DEF OutputInv, Numbered

\* One step of either thread, the server or the network keeps the numbers.
LEMMA OutputStep == BytesType /\ OutputInv /\ [Next]_vars => OutputInv'
<1> SUFFICES ASSUME BytesType, OutputInv, [Next]_vars PROVE OutputInv'
  OBVIOUS
<1>a. /\ seen \in Seq(Units) /\ output \in Seq(Units) /\ chunk \in Seq(Units)
      /\ net \in Seq(Units) /\ produced \in Nat
      /\ Len(seen) \in Nat /\ Len(output) \in Nat /\ Len(chunk) \in Nat /\ Len(net) \in Nat
      /\ gen \in Nat /\ stop \in BOOLEAN
      /\ wpc # "none" => gen \in Gens
  BY LenProperties, SessionAssumption DEF BytesType, DataType, ControlType, CountInv, Gens
<1>1. CASE Start \/ Disconnect \/ ReleasePrompt \/ AbortSocket
  BY <1>1, OutputQuiet
  DEF Start, Disconnect, ReleasePrompt, AbortSocket, worker, outside, history, OutputInv
<1>2. CASE Join
  BY <1>2, OutputQuiet DEF Join, Joined, Ended, outside, history, OutputInv
<1>3. CASE Spawn
  <2>1. /\ seen' = <<>> /\ output' = <<>> /\ chunk' = <<>> /\ net' = <<>> /\ produced' = 0
    BY <1>3 DEF Spawn
  <2> QED
    BY <2>1 DEF OutputInv, Numbered
<1>4. CASE PollEvent \/ Send \/ AddForward
  BY <1>4, OutputQuiet DEF PollEvent, Send, AddForward, ui, worker, outside, history,
     OutputInv
<1>5. CASE \E n \in 1 .. RingCap : DrainOutput(n)
  <2>1. PICK n \in 1 .. Len(output) : DrainOutput(n)
    BY <1>5 DEF DrainOutput
  <2>2. /\ seen' = seen \o SubSeq(output, 1, n)
        /\ output' = SubSeq(output, n + 1, Len(output))
        /\ UNCHANGED <<chunk, net, produced, gen, stop, wpc>>
    BY <2>1 DEF DrainOutput, worker, outside
  <2>3. /\ Numbered(SubSeq(output, 1, n), gen, Len(seen))
        /\ SubSeq(output, 1, n) \in Seq(Units) /\ Len(SubSeq(output, 1, n)) = n
        /\ Numbered(output', gen, Len(seen) + n) /\ Len(output') = Len(output) - n
    BY <1>a, <2>2, NumberedCut DEF OutputInv
  <2>4. Numbered(seen', gen, 0) /\ Len(seen') = Len(seen) + n
    <3> DEFINE r == SubSeq(output, 1, n)
    <3>1. Numbered(seen, gen, 0) /\ Numbered(r, gen, 0 + Len(seen)) /\ r \in Seq(Units)
      BY <1>a, <2>3 DEF OutputInv
    <3> HIDE DEF r
    <3>2. Numbered(seen \o r, gen, 0) /\ Len(seen \o r) = Len(seen) + Len(r)
      BY <1>a, <3>1, NumberedConcat
    <3> QED
      BY <2>2, <2>3, <3>2 DEF r
  <2>5. Len(seen') + Len(output') = Len(seen) + Len(output)
    BY <1>a, <2>3, <2>4
  <2> QED
    BY <1>a, <2>2, <2>3, <2>4, <2>5 DEF OutputInv
<1>6. CASE \E accept \in BOOLEAN : AnswerHostKey(accept)
  BY <1>6, OutputQuiet DEF AnswerHostKey, worker, outside, OutputInv
<1>7. CASE Resolve \/ Dial \/ WaitConnect \/ AbortedCall
  BY <1>7, OutputQuiet DEF Resolve, Dial, WaitConnect, AbortedCall, history, OutputInv
<1>8. CASE Handshake \/ PromptAnswered \/ Authenticate
  BY <1>8, OutputQuiet DEF Handshake, PromptAnswered, Authenticate, OutputInv
<1>9. CASE LoopHead \/ CheckEof
  BY <1>9, OutputQuiet DEF LoopHead, CheckEof, history, OutputInv
<1>10. CASE Read
  <2>1. /\ UNCHANGED <<stop, seen, output, produced, gen>> /\ chunk = <<>>
    BY <1>10 DEF Read, history, OutputInv
  <2>2. CASE UNCHANGED <<chunk, net>>
    BY <2>1, <2>2, OutputQuiet
  <2>3. ASSUME NEW n \in 1 .. Len(net), chunk' = SubSeq(net, 1, n),
               net' = SubSeq(net, n + 1, Len(net)), wpc' = "push"
        PROVE  OutputInv'
    <3>1. CASE stop
      BY <2>1, <2>3, <3>1 DEF OutputInv
    <3>2. CASE ~stop
      <4>1. n \in 0 .. Len(net) /\ Len(chunk) = 0
        BY <1>a, <2>1
      <4> DEFINE k == Len(seen) + Len(output)
      <4>2. k \in Nat /\ k + Len(chunk) = k
        BY <1>a, <4>1
      <4>3. Numbered(net, gen, k)
        BY <3>2, <4>2 DEF OutputInv
      <4>4. /\ Numbered(chunk', gen, k) /\ Len(chunk') = n
            /\ Numbered(net', gen, k + n) /\ Len(net') = Len(net) - n
        BY <1>a, <2>3, <4>1, <4>2, <4>3, NumberedCut
      <4>5. produced = k + Len(chunk') + Len(net')
        BY <1>a, <3>2, <4>1, <4>4 DEF OutputInv
      <4> QED
        BY <2>1, <2>3, <4>4, <4>5 DEF OutputInv
    <3> QED
      BY <1>a, <3>1, <3>2
  <2> QED
    BY <1>10, <2>2, <2>3 DEF Read
<1>11. CASE Push
  <2>1. UNCHANGED <<stop, seen, net, produced, gen>>
    BY <1>11 DEF Push, outside, history
  <2>2. CASE chunk' = <<>> /\ UNCHANGED output /\ stop
    BY <2>1, <2>2 DEF OutputInv
  <2> DEFINE n == IF Len(chunk) < FreeSpace THEN Len(chunk) ELSE FreeSpace
  <2>3. CASE /\ ~stop /\ output' = output \o SubSeq(chunk, 1, n) /\ chunk' = AfterPush(n)
             /\ wpc' = IF n = Len(chunk) THEN "read" ELSE "push"
    <3>1. n \in 0 .. Len(chunk)
      BY <1>a, SessionAssumption DEF FreeSpace, BytesType, DataType
    <3> DEFINE k == Len(seen) + Len(output)
    <3>2. k \in Nat /\ Numbered(chunk, gen, k)
      BY <1>a, <2>3 DEF OutputInv
    <3> HIDE DEF n
    <3>3. /\ Numbered(SubSeq(chunk, 1, n), gen, k)
          /\ SubSeq(chunk, 1, n) \in Seq(Units) /\ Len(SubSeq(chunk, 1, n)) = n
          /\ chunk' \in Seq(Units) /\ Numbered(chunk', gen, k + n)
          /\ Len(chunk') = Len(chunk) - n
      BY <1>a, <2>3, <3>1, <3>2, NumberedCut DEF AfterPush
    <3>4. Numbered(output', gen, Len(seen)) /\ Len(output') = Len(output) + n
      <4> DEFINE r == SubSeq(chunk, 1, n)
      <4>1. /\ Numbered(output, gen, Len(seen)) /\ r \in Seq(Units)
            /\ Numbered(r, gen, Len(seen) + Len(output))
        BY <3>3 DEF OutputInv
      <4> HIDE DEF r
      <4>2. /\ Numbered(output \o r, gen, Len(seen))
            /\ Len(output \o r) = Len(output) + Len(r)
        BY <1>a, <4>1, NumberedConcat
      <4> QED
        BY <2>3, <3>3, <4>2 DEF r
    <3>5. Len(seen) + Len(output') = k + n /\ k + n + Len(chunk') = k + Len(chunk)
      BY <1>a, <3>1, <3>3, <3>4
    <3>6. wpc' # "push" => chunk' = <<>>
      <4>1. n = Len(chunk) => Len(chunk') = 0
        BY <1>a, <3>3
      <4> QED
        BY <2>3, <3>3, <4>1, EmptySeq
    <3> QED
      BY <1>a, <2>1, <2>3, <3>3, <3>4, <3>5, <3>6 DEF OutputInv
  <2> QED
    BY <1>11, <2>2, <2>3 DEF Push, PushGivesUp
<1>12. CASE Write
  BY <1>12, OutputQuiet DEF Write, OutputInv
<1>13. CASE Finish
  BY <1>13, OutputQuiet DEF Finish, outside, history, OutputInv
<1>14. CASE ServerSends
  <2>1. /\ UNCHANGED <<stop, seen, output, chunk, gen, wpc>> /\ gen \in Gens
        /\ produced' = produced + 1 /\ net' = Append(net, <<gen, produced + 1>>)
    BY <1>14, <1>a DEF ServerSends, ServerUp, Loop, shared, worker, history
  <2>2. CASE stop
    BY <2>1, <2>2 DEF OutputInv
  <2>3. CASE ~stop
    <3> DEFINE k == Len(seen) + Len(output) + Len(chunk)
    <3>1. k \in Nat /\ Numbered(net, gen, k) /\ produced + 1 = k + Len(net) + 1
      BY <1>a, <2>3 DEF OutputInv
    <3>2. Numbered(net', gen, k) /\ Len(net') = Len(net) + 1
      BY <1>a, <2>1, <3>1, NumberedAppend
    <3>3. produced' = k + Len(net')
      BY <1>a, <2>1, <3>1, <3>2
    <3> QED
      BY <2>1, <3>2, <3>3 DEF OutputInv
  <2> QED
    BY <1>a, <2>2, <2>3
<1>15. CASE ServerCloses \/ LinkBreaks
  BY <1>15, OutputQuiet DEF ServerCloses, LinkBreaks, shared, worker, history, OutputInv
<1>16. CASE UNCHANGED vars
  BY <1>16, OutputQuiet DEF vars, shared, worker, outside, history, OutputInv
<1> QED
  BY <1>1, <1>2, <1>3, <1>4, <1>5, <1>6, <1>7, <1>8, <1>9, <1>10, <1>11, <1>12,
     <1>13, <1>14, <1>15, <1>16
  DEF Next, UserCall, UiStep, UiPump, WorkerStep, Environment

----------------------------------------------------------------------------
(* From the keyboard to the server. *)

\* Nothing was typed before the first Start.
LEMMA KeysInit == Init => KeysInv
<1> SUFFICES ASSUME Init PROVE KeysInv
  OBVIOUS
<1>1. gen = 0 /\ 0 \notin Gens
  BY DEF Init, Gens
<1>2. \A g \in Gens : typed[g] = <<>> /\ delivered[g] = <<>>
  BY DEF Init
<1> QED
  BY <1>1, <1>2 DEF KeysInv, Numbered

\* A step that touches none of the queues.
LEMMA KeysQuiet ==
  ASSUME KeysInv, UNCHANGED <<typed, delivered, writeBuf, outQueue, gen>>
  PROVE  KeysInv'
  BY DEF KeysInv, Numbered

\* A step that touches only those of the present connection.
LEMMA KeysOfOne ==
  ASSUME KeysInv, gen' = gen, gen \in Gens,
         \A g \in Gens \ {gen} : typed'[g] = typed[g] /\ delivered'[g] = delivered[g],
         Numbered(typed'[gen], gen, 0), Numbered(delivered'[gen], gen, 0),
         Len(delivered'[gen]) <= Len(typed'[gen]),
         Numbered(writeBuf', gen, Len(delivered'[gen])),
         Numbered(outQueue', gen, Len(delivered'[gen]) + Len(writeBuf')),
         Len(typed'[gen]) = Len(delivered'[gen]) + Len(writeBuf') + Len(outQueue')
  PROVE  KeysInv'
<1>1. gen \in Nat /\ ~(gen > gen)
  BY DEF Gens
<1>2. ASSUME NEW g \in Gens
      PROVE  /\ Numbered(typed'[g], g, 0) /\ Numbered(delivered'[g], g, 0)
             /\ Len(delivered'[g]) <= Len(typed'[g])
             /\ g > gen => typed'[g] = <<>> /\ delivered'[g] = <<>>
  <2>1. CASE g = gen
    BY <1>1, <2>1
  <2>2. CASE g # gen
    BY <2>2 DEF KeysInv
  <2> QED
    BY <2>1, <2>2
<1> QED
  BY <1>2 DEF KeysInv, Numbered

\* One step of either thread, the server or the network keeps the numbers.
LEMMA KeysStep == BytesType /\ KeysInv /\ [Next]_vars => KeysInv'
<1> SUFFICES ASSUME BytesType, KeysInv, [Next]_vars PROVE KeysInv'
  OBVIOUS
<1>a. /\ typed \in [Gens -> Seq(Units)] /\ delivered \in [Gens -> Seq(Units)]
      /\ outQueue \in Seq(Units) /\ writeBuf \in Seq(Units)
      /\ Len(outQueue) \in Nat /\ Len(writeBuf) \in Nat
      /\ gen \in Nat /\ (gen # 0 => gen \in Gens) /\ (wpc # "none" => gen # 0)
  <2>1. /\ typed \in [Gens -> Seq(Units)] /\ delivered \in [Gens -> Seq(Units)]
        /\ outQueue \in Seq(Units) /\ writeBuf \in Seq(Units)
    BY DEF BytesType, DataType
  <2>2. gen \in 0 .. MaxStarts /\ (wpc # "none" => gen # 0)
    BY DEF BytesType, ControlType, CountInv
  <2> QED
    BY <2>1, <2>2, LenProperties, SessionAssumption DEF Gens
<1>b. \A g \in Gens : /\ typed[g] \in Seq(Units) /\ delivered[g] \in Seq(Units)
                      /\ Len(typed[g]) \in Nat /\ Len(delivered[g]) \in Nat
  BY <1>a, LenProperties
<1>1. CASE Start \/ Disconnect \/ ReleasePrompt \/ AbortSocket \/ Join
  BY <1>1, KeysQuiet
  DEF Start, Disconnect, ReleasePrompt, AbortSocket, Join, Joined, worker, outside, history
<1>2. CASE Spawn
  <2>1. /\ gen' = gen + 1 /\ writeBuf' = <<>> /\ outQueue' = <<>>
        /\ UNCHANGED <<typed, delivered>>
    BY <1>2 DEF Spawn, ClearKeys
  <2>2. \A g \in Gens : g \in Nat /\ (g > gen' => g > gen)
    BY <1>a, <2>1 DEF Gens
  <2>3. gen' \in Gens => typed[gen'] = <<>> /\ delivered[gen'] = <<>>
    <3>1. gen' > gen
      BY <1>a, <2>1
    <3> QED
      BY <3>1 DEF KeysInv
  <2>4. gen' \in Gens =>
          /\ Numbered(writeBuf', gen', Len(delivered'[gen']))
          /\ Numbered(outQueue', gen', Len(delivered'[gen']) + Len(writeBuf'))
          /\ Len(typed'[gen']) = Len(delivered'[gen']) + Len(writeBuf') + Len(outQueue')
    BY <2>1, <2>3, NumberedEmpty
  <2> QED
    BY <2>1, <2>2, <2>4 DEF KeysInv, Numbered
<1>3. CASE Send
  <2>1. /\ gen \in Gens /\ UNCHANGED <<delivered, writeBuf, gen>>
        /\ outQueue' = Append(outQueue, <<gen, Len(typed[gen]) + 1>>)
        /\ typed' = [typed EXCEPT ![gen] = Append(typed[gen], <<gen, Len(typed[gen]) + 1>>)]
    BY <1>3, <1>a DEF Send, worker, outside
  <2> DEFINE m == Len(typed[gen]) + 1
             d == Len(delivered[gen])
  <2>2. m \in Nat /\ m = 0 + Len(typed[gen]) + 1 /\ Numbered(typed[gen], gen, 0)
    BY <1>b, <2>1 DEF KeysInv
  <2>3. /\ Numbered(Append(typed[gen], <<gen, m>>), gen, 0)
        /\ Len(Append(typed[gen], <<gen, m>>)) = m
    <3> DEFINE t == typed[gen]
    <3>1. t \in Seq(Units) /\ Numbered(t, gen, 0) /\ m \in Nat /\ m = 0 + Len(t) + 1
      BY <1>b, <2>1, <2>2
    <3> HIDE DEF t, m
    <3>2. Numbered(Append(t, <<gen, m>>), gen, 0) /\ Len(Append(t, <<gen, m>>)) = Len(t) + 1
      BY <2>1, <3>1, NumberedAppend
    <3>3. Len(t) + 1 = m
      BY DEF t, m
    <3> QED
      BY <3>2, <3>3 DEF t
  <2>4. /\ d + Len(writeBuf) \in Nat /\ m = d + Len(writeBuf) + Len(outQueue) + 1
        /\ Numbered(outQueue, gen, d + Len(writeBuf))
    <3>1. /\ Len(typed[gen]) = d + Len(writeBuf) + Len(outQueue)
          /\ Numbered(outQueue, gen, d + Len(writeBuf))
      BY <2>1 DEF KeysInv
    <3>2. d \in Nat
      BY <1>b, <2>1
    <3> HIDE DEF d
    <3> QED
      BY <1>a, <3>1, <3>2
  <2>5. /\ Numbered(Append(outQueue, <<gen, m>>), gen, d + Len(writeBuf))
        /\ Len(Append(outQueue, <<gen, m>>)) = Len(outQueue) + 1
    <3> HIDE DEF m, d
    <3> QED
      BY <1>a, <2>1, <2>2, <2>4, NumberedAppend
  <2>6. /\ typed'[gen] = Append(typed[gen], <<gen, m>>) /\ delivered'[gen] = delivered[gen]
        /\ \A g \in Gens \ {gen} : typed'[g] = typed[g] /\ delivered'[g] = delivered[g]
    BY <1>a, <2>1
  <2>7. /\ Numbered(typed'[gen], gen, 0) /\ Numbered(delivered'[gen], gen, 0)
        /\ Numbered(writeBuf', gen, d)
        /\ Numbered(outQueue', gen, d + Len(writeBuf'))
    BY <2>1, <2>3, <2>5, <2>6 DEF KeysInv
  <2>8. d <= m /\ m = d + Len(writeBuf) + (Len(outQueue) + 1)
    BY <1>a, <1>b, <2>1, <2>4
  <2> QED
    BY <1>a, <2>1, <2>3, <2>5, <2>6, <2>7, <2>8, KeysOfOne
<1>4. CASE PollEvent \/ AddForward \/ \E n \in 1 .. RingCap : DrainOutput(n)
  BY <1>4, KeysQuiet DEF PollEvent, AddForward, DrainOutput, ui, worker, outside, history
<1>5. CASE \E accept \in BOOLEAN : AnswerHostKey(accept)
  BY <1>5, KeysQuiet DEF AnswerHostKey, worker, outside
<1>6. CASE Resolve \/ Dial \/ WaitConnect \/ AbortedCall
  BY <1>6, KeysQuiet DEF Resolve, Dial, WaitConnect, AbortedCall, history
<1>7. CASE Handshake \/ PromptAnswered \/ Authenticate
  BY <1>7, KeysQuiet DEF Handshake, PromptAnswered, Authenticate
<1>8. CASE LoopHead \/ Read \/ CheckEof
  BY <1>8, KeysQuiet DEF LoopHead, Read, CheckEof, history
<1>9. CASE Push
  BY <1>9, KeysQuiet DEF Push, outside, history
<1>10. CASE Write
  <2> DEFINE unsent == IF writeBuf = <<>> THEN outQueue ELSE writeBuf
             rest == IF writeBuf = <<>> THEN <<>> ELSE outQueue
             d    == Len(delivered[gen])
  <2>1. gen \in Gens /\ UNCHANGED <<typed, gen>> /\ outQueue' = rest
    BY <1>10, <1>a DEF Write
  <2>2. /\ unsent \in Seq(Units) /\ rest \in Seq(Units)
        /\ Len(unsent) \in Nat /\ Len(rest) \in Nat /\ d \in Nat
    BY <1>a, <1>b, <2>1, LenProperties
  <2>3. /\ Numbered(unsent, gen, d) /\ Numbered(rest, gen, d + Len(unsent))
        /\ Len(typed[gen]) = d + Len(unsent) + Len(rest)
    <3>1. CASE writeBuf = <<>>
      <4>1. unsent = outQueue /\ rest = <<>> /\ Len(writeBuf) = 0 /\ Len(rest) = 0
        BY <3>1
      <4>2. /\ d + Len(writeBuf) = d
            /\ d + Len(unsent) + Len(rest) = d + Len(writeBuf) + Len(outQueue)
        BY <2>2, <4>1
      <4>3. Numbered(outQueue, gen, d)
        BY <2>1, <4>2 DEF KeysInv
      <4> QED
        BY <2>1, <4>1, <4>2, <4>3, NumberedEmpty DEF KeysInv
    <3>2. CASE writeBuf # <<>>
      BY <2>1, <3>2 DEF KeysInv
    <3> QED
      BY <3>1, <3>2
  <2>4. Numbered(typed[gen], gen, 0) /\ Numbered(delivered[gen], gen, 0)
    BY <2>1 DEF KeysInv
  <2> HIDE DEF unsent, rest
  <2>5. CASE writeBuf' = unsent /\ UNCHANGED delivered
    <3>1. d <= Len(typed[gen])
      BY <2>2, <2>3
    <3> QED
      BY <1>a, <2>1, <2>3, <2>4, <2>5, <3>1, KeysOfOne
  <2>6. ASSUME NEW n \in 0 .. Len(unsent), writeBuf' = SubSeq(unsent, n + 1, Len(unsent)),
               delivered' = [delivered EXCEPT ![gen] = @ \o SubSeq(unsent, 1, n)]
        PROVE  KeysInv'
    <3> DEFINE r == SubSeq(unsent, 1, n)
    <3>1. /\ Numbered(r, gen, d) /\ r \in Seq(Units) /\ Len(r) = n
          /\ Numbered(writeBuf', gen, d + n) /\ Len(writeBuf') = Len(unsent) - n
      BY <2>2, <2>3, <2>6, NumberedCut
    <3>2. delivered'[gen] = delivered[gen] \o r
      BY <1>a, <2>1, <2>6
    <3> HIDE DEF r
    <3>3. Numbered(r, gen, 0 + Len(delivered[gen]))
      BY <2>2, <3>1
    <3>4. Numbered(delivered'[gen], gen, 0) /\ Len(delivered'[gen]) = d + n
      <4> DEFINE q == delivered[gen]
      <4>1. /\ q \in Seq(Units) /\ Numbered(q, gen, 0) /\ Numbered(r, gen, 0 + Len(q))
            /\ r \in Seq(Units) /\ Len(q) = d
        BY <1>b, <2>1, <2>4, <3>1, <3>3
      <4> HIDE DEF q, d
      <4>2. Numbered(q \o r, gen, 0) /\ Len(q \o r) = Len(q) + Len(r)
        BY <4>1, NumberedConcat
      <4> QED
        BY <3>1, <3>2, <4>1, <4>2 DEF q
    <3>5. /\ n \in Nat /\ d + n + Len(writeBuf') = d + Len(unsent) /\ d + n <= Len(typed[gen])
          /\ Len(typed[gen]) = d + n + Len(writeBuf') + Len(rest)
      BY <2>2, <2>3, <3>1
    <3>6. \A g \in Gens \ {gen} : typed'[g] = typed[g] /\ delivered'[g] = delivered[g]
      BY <1>a, <2>1, <2>6
    <3>7. /\ Numbered(writeBuf', gen, Len(delivered'[gen]))
          /\ Numbered(outQueue', gen, Len(delivered'[gen]) + Len(writeBuf'))
          /\ Numbered(typed'[gen], gen, 0) /\ typed'[gen] = typed[gen]
      BY <2>1, <2>3, <2>4, <3>1, <3>4, <3>5
    <3> HIDE DEF d
    <3> QED
      BY <1>a, <2>1, <3>4, <3>5, <3>6, <3>7, KeysOfOne
  <2> QED
    BY <1>10, <2>5, <2>6 DEF Write, unsent
<1>11. CASE Finish
  BY <1>11, KeysQuiet DEF Finish, outside, history
<1>12. CASE Environment
  BY <1>12, KeysQuiet DEF Environment, ServerSends, ServerCloses, LinkBreaks, shared,
     worker, history
<1>13. CASE UNCHANGED vars
  BY <1>13, KeysQuiet DEF vars, shared, worker, outside, history
<1> QED
  BY <1>1, <1>2, <1>3, <1>4, <1>5, <1>6, <1>7, <1>8, <1>9, <1>10, <1>11, <1>12, <1>13
  DEF Next, UserCall, UiStep, UiPump, WorkerStep

----------------------------------------------------------------------------
\* Two sequences numbered alike, one not longer: the one begins the other.
LEMMA NumberedPrefix ==
  ASSUME NEW s \in Seq(Units), NEW t \in Seq(Units), NEW g, Numbered(s, g, 0),
         Numbered(t, g, 0), Len(s) <= Len(t)
  PROVE  IsPrefixOf(s, t)
<1>1. Len(s) \in Nat /\ Len(t) \in Nat /\ Len(s) \in 0 .. Len(t)
  BY LenProperties
<1>2. /\ SubSeq(t, 1, Len(s)) \in Seq(Units) /\ Len(SubSeq(t, 1, Len(s))) = Len(s)
      /\ Numbered(SubSeq(t, 1, Len(s)), g, 0)
  BY <1>1, NumberedCut
<1>3. \A i \in 1 .. Len(s) : s[i] = SubSeq(t, 1, Len(s))[i]
  BY <1>2 DEF Numbered
<1>4. s = SubSeq(t, 1, Len(s))
  BY <1>2, <1>3, SeqEqual
<1> QED
  BY <1>4 DEF IsPrefixOf

\* A server receives what was typed to it, in order and once, and the terminal
\* shows what this connection's server sent, in order and once, whatever
\* disconnects and restarts come between: for any ring and any traffic.
THEOREM NothingEverCrosses == Spec => []NothingCrosses
<1> DEFINE Inv == BytesType /\ OutputInv /\ KeysInv
<1>1. Init => Inv
  BY TypeInit, OwnerInit, OutputInit, KeysInit DEF BytesType
<1>2. Inv /\ [Next]_vars => Inv'
  BY CountStep, ControlStep, DataStep, OwnerStep, OutputStep, KeysStep DEF BytesType
<1>3. Inv => NothingCrosses
  <2> SUFFICES ASSUME Inv PROVE KeystrokesGoToTheirConnection /\ OutputIsThisConnections
    BY DEF NothingCrosses
  <2>1. OutputIsThisConnections
    <3>1. \A i \in 1 .. Len(seen) : seen[i] = <<gen, 0 + i>> /\ 0 + i = i
      BY LenProperties DEF OutputInv, Numbered, BytesType, DataType
    <3> QED
      BY <3>1 DEF OutputIsThisConnections
  <2>2. KeystrokesGoToTheirConnection
    BY NumberedPrefix DEF KeysInv, BytesType, DataType, KeystrokesGoToTheirConnection
  <2> QED
    BY <2>1, <2>2
<1> HIDE DEF Inv
<1> QED
  BY <1>1, <1>2, <1>3, PTL DEF Spec

----------------------------------------------------------------------------
(* The refinement.  Each critical section of the two threads is one step   *)
(* of SessionLife or none; what makes it so is that an answer to the       *)
(* host-key question reaches the deque's reader once, and only while the   *)
(* thread that asked still waits (PromptInv).                              *)

\* Where the thread has not yet looked at the server's key.
Early == {"resolve", "dial", "wait", "handshake"}

\* No host-key question is on its way to the user or before them.
NoQuestion ==
  /\ ~hostKeyPending
  /\ \A i \in 1 .. Len(events) : events[i].type # "HostKeyPrompt"

\* An answer is heard by the question it belongs to: there is none before the
\* thread asks except Disconnect's refusal, and once it was given no question is
\* left that could be answered again while the thread goes on.
PromptInv ==
  /\ hkDecided \in BOOLEAN /\ hkAccepted \in BOOLEAN /\ hostKeyPending \in BOOLEAN
  /\ upc # "idle" => ~hostKeyPending
  /\ upc = "spawn" => wpc = "none"
  /\ wpc \in Early => NoQuestion /\ ~hkAccepted /\ (upc = "idle" => ~hkDecided)
  /\ wpc = "prompt" /\ hkDecided /\ (hkAccepted \/ upc = "idle") => NoQuestion
  /\ wpc = "auth" => NoQuestion

\* Before the first Start nobody was asked.
LEMMA PromptInit == Init => PromptInv
  BY DEF Init, PromptInv, Early

\* Whatever is taken from the deque, no question comes in.
LEMMA NoneAfterPoll ==
  ASSUME EventInv, PollEvent, NoQuestion PROVE NoQuestion'
<1>1. /\ events # <<>> /\ events' = Tail(events)
      /\ hostKeyPending' = (hostKeyPending \/ Head(events).type = "HostKeyPrompt")
  BY DEF PollEvent
<1>2. /\ Len(events) \in Nat /\ Len(events') = Len(events) - 1
      /\ \A i \in 1 .. Len(events) - 1 :
           events'[i] = events[i + 1] /\ i + 1 \in 1 .. Len(events)
  BY <1>1, TailOf DEF EventInv
<1>3. 1 \in 1 .. Len(events) /\ Head(events) = events[1]
  <2>1. Len(events) # 0
    BY <1>1, EmptySeq DEF EventInv
  <2>2. Head(events) = events[1]
    BY <1>1 DEF EventInv
  <2> QED
    BY <1>2, <2>1, <2>2
<1>4. ~hostKeyPending'
  BY <1>1, <1>3 DEF NoQuestion
<1>5. \A i \in 1 .. Len(events') : events'[i].type # "HostKeyPrompt"
  BY <1>2 DEF NoQuestion
<1> QED
  BY <1>4, <1>5 DEF NoQuestion

\* Where neither the deque nor the box changes.
LEMMA NoneStays ==
  ASSUME NoQuestion, UNCHANGED <<events, hostKeyPending>> PROVE NoQuestion'
  BY DEF NoQuestion

\* One step of either thread keeps the prompt invariant.
LEMMA PromptStep == PromptInv /\ EventInv /\ OwnerInv /\ [Next]_vars => PromptInv'
<1> SUFFICES ASSUME PromptInv, EventInv, OwnerInv, [Next]_vars PROVE PromptInv'
  OBVIOUS
<1> USE DEF PromptInv, Early
<1>1. CASE Start \/ Disconnect
  BY <1>1, NoneStays DEF Start, Disconnect, UiFree, worker
<1>2. CASE ReleasePrompt
  BY <1>2, NoneStays DEF ReleasePrompt, worker
<1>3. CASE AbortSocket
  BY <1>3, NoneStays DEF AbortSocket, worker
<1>4. CASE Join
  BY <1>4 DEF Join, Joined
<1>5. CASE Spawn
  <2>1. hostKeyPending' = FALSE /\ events' = <<>>
    BY <1>5 DEF Spawn, ClearEvents
  <2>2. NoQuestion'
    BY <2>1 DEF NoQuestion
  <2> QED
    BY <1>5, <2>1, <2>2 DEF Spawn, ForgetAnswer
<1>6. CASE PollEvent
  <2>1. NoQuestion => NoQuestion'
    BY <1>6, NoneAfterPoll
  <2>2. hostKeyPending' \in BOOLEAN
    BY <1>6 DEF PollEvent
  <2> QED
    BY <1>6, <2>1, <2>2 DEF PollEvent, worker
<1>7. CASE Send \/ AddForward \/ \E n \in 1 .. RingCap : DrainOutput(n)
  BY <1>7, NoneStays DEF Send, AddForward, DrainOutput, ui, worker
<1>8. CASE \E accept \in BOOLEAN : AnswerHostKey(accept)
  <2>1. hostKeyPending /\ hostKeyPending' = FALSE /\ events' = <<>> /\ upc = "idle"
    BY <1>8 DEF AnswerHostKey
  <2>2. NoQuestion'
    BY <2>1 DEF NoQuestion
  <2>3. ~NoQuestion
    BY <2>1 DEF NoQuestion
  <2> QED
    BY <1>8, <2>1, <2>2, <2>3 DEF AnswerHostKey, worker
<1>9. CASE Resolve \/ Dial \/ WaitConnect
  BY <1>9, NoneStays DEF Resolve, Dial, WaitConnect, Fail, ui
<1>10. CASE Handshake
  BY <1>10, NoneStays DEF Handshake, Fail, ui
<1>11. CASE PromptAnswered
  BY <1>11, NoneStays DEF PromptAnswered, Fail, ui
<1>12. CASE Authenticate \/ AbortedCall
  BY <1>12 DEF Authenticate, AbortedCall, Fail, ui
<1>13. CASE LoopHead \/ Read \/ CheckEof
  BY <1>13 DEF LoopHead, Read, CheckEof, Close, ui
<1>14. CASE Push
  BY <1>14 DEF Push, ui
<1>15. CASE Write
  BY <1>15 DEF Write, Close, ui
<1>16. CASE Finish
  BY <1>16 DEF Finish, ui
<1>17. CASE Environment
  BY <1>17, NoneStays DEF Environment, ServerSends, ServerCloses, LinkBreaks, shared,
     ui, worker
<1>18. CASE UNCHANGED vars
  BY <1>18, NoneStays DEF vars, shared, ui, worker
<1> QED
  BY <1>1, <1>2, <1>3, <1>4, <1>5, <1>6, <1>7, <1>8, <1>9, <1>10, <1>11, <1>12,
     <1>13, <1>14, <1>15, <1>16, <1>17, <1>18
  DEF Next, UserCall, UiStep, UiPump, WorkerStep

----------------------------------------------------------------------------
(* The deque as the abstract session sees it. *)

Mapped(q) == [i \in DOMAIN q |-> ReportOf(q[i])]

\* What PostEvent appends, seen through the map.
LEMMA MappedAppend ==
  ASSUME NEW S, NEW q \in Seq(S), NEW e \in S
  PROVE  Mapped(Append(q, e)) = Append(Mapped(q), ReportOf(e))
<1> DEFINE p == Append(q, e)
<1>1. p \in Seq(S) /\ Len(q) \in Nat /\ Len(p) = Len(q) + 1
  BY AppendProperties, LenProperties
<1>2. \A i \in 1 .. Len(p) : p[i] = IF i = Len(p) THEN e ELSE q[i]
  BY <1>1, AppendProperties
<1>3. DOMAIN p = 1 .. Len(p) /\ DOMAIN q = 1 .. Len(q)
  BY <1>1, LenProperties
<1> HIDE DEF p
<1> DEFINE R == {ReportOf(x) : x \in S}
<1>4. Mapped(q) \in Seq(R) /\ Len(Mapped(q)) = Len(q)
  <2>1. Mapped(q) \in [1 .. Len(q) -> R]
    BY <1>3, ElementOfSeq DEF Mapped
  <2> QED
    BY <2>1, <1>1, LenProperties
<1>5. Mapped(p) \in Seq(R) /\ Len(Mapped(p)) = Len(p)
  <2>1. Mapped(p) \in [1 .. Len(p) -> R]
    BY <1>1, <1>3, ElementOfSeq DEF Mapped
  <2> QED
    BY <2>1, <1>1, LenProperties
<1>6. ReportOf(e) \in R
  OBVIOUS
<1>7. /\ Append(Mapped(q), ReportOf(e)) \in Seq(R)
      /\ Len(Append(Mapped(q), ReportOf(e))) = Len(p)
      /\ \A i \in 1 .. Len(p) : Append(Mapped(q), ReportOf(e))[i]
            = IF i = Len(p) THEN ReportOf(e) ELSE Mapped(q)[i]
  BY <1>1, <1>4, <1>6, AppendProperties
<1>8. \A i \in 1 .. Len(p) : Mapped(p)[i] = Append(Mapped(q), ReportOf(e))[i]
  <2> TAKE i \in 1 .. Len(p)
  <2>1. CASE i = Len(p)
    BY <2>1, <1>2, <1>3, <1>7 DEF Mapped
  <2>2. CASE i # Len(p)
    <3>1. i \in 1 .. Len(q)
      BY <1>1, <2>2
    <3> QED
      BY <2>2, <3>1, <1>2, <1>3, <1>7 DEF Mapped
  <2> QED
    BY <2>1, <2>2
<1>9. Mapped(p) = Append(Mapped(q), ReportOf(e))
  BY <1>5, <1>7, <1>8, SeqEqual
<1> QED
  BY <1>9 DEF p

\* What PollEvent leaves, seen through the map.
LEMMA MappedTail ==
  ASSUME NEW S, NEW q \in Seq(S), q # <<>>
  PROVE  Mapped(q) # <<>> /\ Mapped(Tail(q)) = Tail(Mapped(q))
<1> DEFINE R == {ReportOf(x) : x \in S}
<1>1. /\ Tail(q) \in Seq(S) /\ Len(q) \in Nat /\ Len(Tail(q)) = Len(q) - 1
      /\ \A i \in 1 .. Len(q) - 1 : Tail(q)[i] = q[i + 1] /\ i + 1 \in 1 .. Len(q)
  BY TailOf
<1>2. DOMAIN q = 1 .. Len(q) /\ DOMAIN Tail(q) = 1 .. Len(q) - 1
  BY <1>1, LenProperties
<1>3. Mapped(q) \in Seq(R) /\ Len(Mapped(q)) = Len(q)
  <2>1. Mapped(q) \in [1 .. Len(q) -> R]
    BY <1>2, ElementOfSeq DEF Mapped
  <2> QED
    BY <2>1, <1>1, LenProperties
<1>4. Mapped(Tail(q)) \in Seq(R) /\ Len(Mapped(Tail(q))) = Len(q) - 1
  <2>1. Mapped(Tail(q)) \in [1 .. Len(q) - 1 -> R]
    BY <1>1, <1>2, ElementOfSeq DEF Mapped
  <2>2. Len(q) - 1 \in Nat
    BY <1>1, LenProperties
  <2> QED
    BY <2>1, <2>2, LenProperties
<1>5. Mapped(q) # <<>>
  <2>1. Len(q) # 0
    BY EmptySeq
  <2> QED
    BY <2>1, <1>3
<1>6. /\ Tail(Mapped(q)) \in Seq(R) /\ Len(Tail(Mapped(q))) = Len(q) - 1
      /\ \A i \in 1 .. Len(q) - 1 : Tail(Mapped(q))[i] = Mapped(q)[i + 1]
  BY <1>3, <1>5, TailOf
<1>7. \A i \in 1 .. Len(q) - 1 : Mapped(Tail(q))[i] = Tail(Mapped(q))[i]
  BY <1>1, <1>2, <1>6 DEF Mapped
<1> QED
  BY <1>4, <1>5, <1>6, <1>7, SeqEqual

----------------------------------------------------------------------------
(* When a step of the two threads is a step of the abstract session. *)

\* PostEvent appends the report of its event.
LEMMA ReportPosted ==
  ASSUME EventInv, NEW t \in EventTypes, PostEvent(t)
  PROVE  Mapped(events)' = Append(Mapped(events), ReportOf(Event(t)))
<1>1. Event(t) \in [type : EventTypes, gen : Nat]
  BY DEF Event, EventInv
<1>2. events \in Seq([type : EventTypes, gen : Nat]) /\ events' = Append(events, Event(t))
  BY DEF EventInv, PostEvent
<1> QED
  BY <1>1, <1>2, MappedAppend

\* fail() and closed end a thread that does not wait for an answer.
LEMMA EndMaps ==
  ASSUME EventInv, NEW t \in Terminal, PostEvent(t), PhaseOf' = "over",
         PhaseOf \in {"starting", "accepted", "refused", "up"},
         t = "Closed" <=> PhaseOf = "up"
  PROVE  Life!End
<1>1. Mapped(events)' = Append(Mapped(events), [kind |-> t, class |-> "any"])
  BY ReportPosted DEF Terminal, EventTypes, ReportOf, Event
<1>2. t = IF PhaseOf = "up" THEN "Closed" ELSE "Error"
  BY DEF Terminal
<1>3. [kind |-> t, class |-> "any"] \in Life!EndsNow
  BY <1>2 DEF Life!EndsNow, Life!EndOf
<1> QED
  BY <1>1, <1>3 DEF Life!End, Life!Live, Mapped

\* A thread that asks about the host key, with Disconnect's refusal there or not.
LEMMA AskMaps ==
  ASSUME EventInv, PostEvent("HostKeyPrompt"), PhaseOf = "starting",
         PhaseOf' \in {"asked", "refused"}
  PROVE  Life!Ask
<1>1. Mapped(events)' = Append(Mapped(events), [kind |-> "HostKeyPrompt"])
  BY ReportPosted DEF Terminal, EventTypes, ReportOf, Event
<1> QED
  BY <1>1 DEF Life!Ask, Life!Prompt, Mapped

\* A thread that is authenticated and has its channel.
LEMMA EstablishMaps ==
  ASSUME EventInv, PostEvent("Connected"), PhaseOf \in {"starting", "accepted"},
         PhaseOf' = "up"
  PROVE  Life!Establish
<1>1. Mapped(events)' = Append(Mapped(events), [kind |-> "Connected"])
  BY ReportPosted DEF Terminal, EventTypes, ReportOf, Event
<1> QED
  BY <1>1 DEF Life!Establish, Life!Connected, Mapped

\* A step neither the phase nor the deque shows.
LEMMA StutterMaps ==
  ASSUME PhaseOf' = PhaseOf, events' = events PROVE UNCHANGED Life!life
  BY DEF Life!life

\* The phase follows from where the thread is and the answer.
LEMMA PhaseStays ==
  ASSUME wpc' = wpc, hkDecided' = hkDecided, hkAccepted' = hkAccepted
  PROVE  PhaseOf' = PhaseOf
  BY DEF PhaseOf

\* Where the answer does not matter, the phase is where the thread is.
LEMMA Phases ==
  /\ wpc \in Ended => PhaseOf = "stopped"
  /\ wpc \in {"failed", "closed"} => PhaseOf = "over"
  /\ wpc \in Loop => PhaseOf = "up"
  /\ wpc \in Early => PhaseOf = "starting"
  BY DEF PhaseOf, Ended, Loop, Early

\* Before the first Start the abstract session has not started either.
LEMMA LifeInit == Init => Life!Init
  BY DEF Init, Life!Init, PhaseOf, Ended, Loop

\* Every step of the two threads, the server and the network is one step of the
\* abstract session, or none.
LEMMA LifeStep ==
  PromptInv /\ EventInv /\ OwnerInv /\ [Next]_vars => [Life!Next]_Life!life
<1> SUFFICES ASSUME PromptInv, EventInv, OwnerInv, [Next]_vars
             PROVE  Life!Next \/ UNCHANGED Life!life
  OBVIOUS
<1>a. ASSUME Life!End \/ Life!Ask \/ Life!Establish \/ Life!Finish PROVE Life!Next
  BY <1>a DEF Life!Next, Life!Worker
<1>b. ASSUME Fail, PhaseOf \in {"starting", "accepted", "refused"} PROVE Life!Next
  <2>1. PhaseOf' = "over"
    BY <1>b DEF Fail, PhaseOf, Ended, Loop
  <2> QED
    BY <1>a, <1>b, <2>1, EndMaps DEF Fail, Terminal
<1>c. ASSUME NEW clean, Close(clean), wpc \in Loop PROVE Life!Next
  <2>1. PhaseOf' = "over" /\ PhaseOf = "up"
    BY <1>c DEF Close, PhaseOf, Ended, Loop
  <2> QED
    BY <1>a, <1>c, <2>1, EndMaps DEF Close, Terminal
<1>d. ASSUME wpc \in Loop, wpc' \in Loop, events' = events PROVE UNCHANGED Life!life
  <2>1. PhaseOf = "up" /\ PhaseOf' = "up"
    BY <1>d DEF PhaseOf, Ended, Loop
  <2> QED
    BY <2>1, <1>d, StutterMaps
<1>1. CASE Start \/ Disconnect \/ AbortSocket
  BY <1>1, PhaseStays, StutterMaps DEF Start, Disconnect, AbortSocket, worker
<1>2. CASE ReleasePrompt
  <2>1. UNCHANGED <<wpc, events>> /\ hkDecided' /\ hkAccepted' = (hkDecided /\ hkAccepted)
    BY <1>2 DEF ReleasePrompt, worker
  <2>2. PhaseOf' = IF PhaseOf # "asked" THEN PhaseOf ELSE "refused"
    BY <2>1 DEF PhaseOf, PromptInv, Ended, Loop
  <2>3. Life!Answer(FALSE)
    BY <2>1, <2>2 DEF Life!Answer
  <2> QED
    BY <2>3 DEF Life!Next
<1>3. CASE Join
  <2>1. PhaseOf' = PhaseOf /\ events' = events
    BY <1>3 DEF Join, Joined, PhaseOf, Ended, Loop
  <2> QED
    BY <2>1, StutterMaps
<1>4. CASE Spawn
  <2>1. PhaseOf = "stopped"
    BY <1>4 DEF Spawn, PromptInv, PhaseOf, Ended, Loop
  <2>2. PhaseOf' = "starting"
    BY <1>4 DEF Spawn, PhaseOf, Ended, Loop
  <2>3. events' = <<>>
    BY <1>4 DEF Spawn, ClearEvents
  <2>4. Life!Begin
    BY <2>1, <2>2, <2>3 DEF Life!Begin
  <2> QED
    BY <2>4 DEF Life!Next
<1>5. CASE PollEvent
  <2>1. events # <<>> /\ events' = Tail(events) /\ PhaseOf' = PhaseOf
    BY <1>5, PhaseStays DEF PollEvent, worker
  <2>2. Mapped(events) # <<>> /\ Mapped(events)' = Tail(Mapped(events))
    BY <2>1, MappedTail DEF EventInv
  <2>3. Life!Take
    BY <2>1, <2>2 DEF Life!Take, Mapped
  <2> QED
    BY <2>3 DEF Life!Next
<1>6. CASE \E accept \in BOOLEAN : AnswerHostKey(accept)
  <2>1. PICK accept \in BOOLEAN : AnswerHostKey(accept)
    BY <1>6
  <2>2. /\ upc = "idle" /\ hostKeyPending /\ UNCHANGED <<wpc, events>>
        /\ hkDecided' = TRUE /\ hkAccepted' = accept
    BY <2>1 DEF AnswerHostKey, worker
  <2>3. ~NoQuestion
    BY <2>2 DEF NoQuestion
  <2>4. wpc \notin Early \cup {"auth"} /\ (wpc = "prompt" => ~hkDecided)
    BY <2>2, <2>3 DEF PromptInv
  <2>5. PhaseOf' = IF PhaseOf # "asked" THEN PhaseOf
                   ELSE IF accept THEN "accepted" ELSE "refused"
    BY <2>2, <2>4 DEF PhaseOf, PromptInv, Early, Ended, Loop
  <2>6. Life!Answer(accept)
    BY <2>2, <2>5 DEF Life!Answer
  <2> QED
    BY <2>6 DEF Life!Next
<1>7. CASE Send \/ AddForward \/ \E n \in 1 .. RingCap : DrainOutput(n)
  BY <1>7, PhaseStays, StutterMaps DEF Send, AddForward, DrainOutput, worker
<1>8. CASE Resolve \/ Dial
  <2>1. PhaseOf = "starting"
    BY <1>8, Phases DEF Resolve, Dial, Early
  <2>2. CASE Fail
    BY <1>b, <2>1, <2>2
  <2>3. CASE ~Fail
    <3>1. wpc' \in Early /\ events' = events
      BY <1>8, <2>3 DEF Resolve, Dial, Early
    <3>2. PhaseOf' = "starting"
      BY <3>1 DEF PhaseOf, Ended, Loop, Early
    <3> QED
      BY <2>1, <3>1, <3>2, StutterMaps
  <2> QED
    BY <2>2, <2>3
<1>9. CASE WaitConnect
  <2>1. PhaseOf = "starting"
    BY <1>9, Phases DEF WaitConnect, Early
  <2>2. CASE wpc' = "failed" /\ PostEvent("Error")
    <3>1. PhaseOf' = "over"
      BY <2>2 DEF PhaseOf, Ended, Loop
    <3> QED
      BY <1>a, <2>1, <2>2, <3>1, EndMaps DEF Terminal
  <2>3. CASE wpc' = "handshake" /\ events' = events
    <3>1. PhaseOf' = "starting"
      BY <2>3 DEF PhaseOf, Ended, Loop
    <3> QED
      BY <2>1, <2>3, <3>1, StutterMaps
  <2> QED
    BY <1>9, <2>2, <2>3 DEF WaitConnect
<1>10. CASE Handshake
  <2>1. PhaseOf = "starting" /\ ~hkAccepted /\ UNCHANGED <<hkDecided, hkAccepted>>
    BY <1>10, Phases DEF Handshake, PromptInv, Early
  <2>2. CASE wpc' = "auth" /\ events' = events
    <3>1. PhaseOf' = "starting"
      BY <2>1, <2>2 DEF PhaseOf, Ended, Loop
    <3> QED
      BY <2>1, <2>2, <3>1, StutterMaps
  <2>3. CASE wpc' = "prompt" /\ PostEvent("HostKeyPrompt")
    <3>1. PhaseOf' \in {"asked", "refused"}
      BY <2>1, <2>3 DEF PhaseOf, Ended, Loop
    <3> QED
      BY <1>a, <2>1, <2>3, <3>1, AskMaps
  <2> QED
    BY <1>10, <1>b, <2>1, <2>2, <2>3 DEF Handshake
<1>11. CASE PromptAnswered
  <2>1. PhaseOf = (IF hkAccepted THEN "accepted" ELSE "refused")
    BY <1>11 DEF PromptAnswered, PromptInv, PhaseOf, Ended, Loop
  <2>2. CASE hkAccepted /\ wpc' = "auth" /\ UNCHANGED <<events, hkDecided, hkAccepted>>
    <3>1. PhaseOf' = "accepted"
      BY <1>11, <2>2 DEF PromptAnswered, PhaseOf, Ended, Loop
    <3> QED
      BY <2>1, <2>2, <3>1, StutterMaps
  <2> QED
    BY <1>11, <1>b, <2>1, <2>2 DEF PromptAnswered
<1>12. CASE Authenticate
  <2>1. PhaseOf \in {"starting", "accepted"}
    BY <1>12 DEF Authenticate, PhaseOf, Ended, Loop
  <2>2. CASE wpc' = "loop" /\ PostEvent("Connected")
    <3>1. PhaseOf' = "up"
      BY <2>2 DEF PhaseOf, Ended, Loop
    <3> QED
      BY <1>a, <2>1, <2>2, <3>1, EstablishMaps
  <2> QED
    BY <1>12, <1>b, <2>1, <2>2 DEF Authenticate
<1>13. CASE AbortedCall
  <2>1. PhaseOf \in {"starting", "accepted"}
    BY <1>13 DEF AbortedCall, PhaseOf, Ended, Loop
  <2> QED
    BY <1>13, <1>b, <2>1 DEF AbortedCall
<1>14. CASE LoopHead \/ Read \/ CheckEof
  BY <1>14, <1>c, <1>d DEF LoopHead, Read, CheckEof, Loop
<1>15. CASE Push
  BY <1>15, <1>d DEF Push, Loop
<1>16. CASE Write
  BY <1>16, <1>c, <1>d DEF Write, Loop
<1>17. CASE Finish
  <2>1. PhaseOf = "over" /\ PhaseOf' = "stopped" /\ events' = events
    BY <1>17 DEF Finish, PhaseOf, Ended, Loop
  <2>2. Life!Finish
    BY <2>1 DEF Life!Finish
  <2> QED
    BY <1>a, <2>2
<1>18. CASE Environment
  BY <1>18, PhaseStays, StutterMaps
  DEF Environment, ServerSends, ServerCloses, LinkBreaks, shared, worker
<1>19. CASE UNCHANGED vars
  BY <1>19, PhaseStays, StutterMaps DEF vars, shared, worker
<1> QED
  BY <1>1, <1>2, <1>3, <1>4, <1>5, <1>6, <1>7, <1>8, <1>9, <1>10, <1>11, <1>12,
     <1>13, <1>14, <1>15, <1>16, <1>17, <1>18, <1>19
  DEF Next, UserCall, UiStep, UiPump, WorkerStep

\* However the UI's calls, Disconnect and the network thread interleave, the UI sees
\* of each connection at most one host-key question, then Connected at most once,
\* then one end, and no report of an earlier thread.
THEOREM LifeImplemented == Spec => ImplementsSessionLife
<1> DEFINE Inv == PromptInv /\ EventInv /\ OwnerInv
<1>1. Init => Inv
  BY PromptInit, EventInit, OwnerInit
<1>2. Inv /\ [Next]_vars => Inv'
  BY PromptStep, EventStep, OwnerStep
<1>3. Inv /\ [Next]_vars => [Life!Next]_Life!life
  BY LifeStep
<1> HIDE DEF Inv
<1> QED
  BY LifeInit, <1>1, <1>2, <1>3, PTL DEF Spec, ImplementsSessionLife, Life!Spec
----------------------------------------------------------------------------
(***************************************************************************)
(* The ring itself, which the session above takes for a bounded sequence.  *)
(* Nothing is torn or lost in it, for any capacity, any width of the       *)
(* counters that is a multiple of it, and any number of bytes.  The        *)
(* counters are the history counts modulo Mod, and each thread's loaded    *)
(* value bounds the other's from the safe side; what is left is arithmetic *)
(* of remainders.                                                          *)
(***************************************************************************)

(* Remainders. *)

\* What division with remainder means.
LEMMA DivMod ==
  ASSUME NEW a \in Nat, NEW m \in Nat \ {0}
  PROVE  a \div m \in Nat /\ a % m \in 0 .. m - 1 /\ a = m * (a \div m) + (a % m)
  OBVIOUS

\* A positive multiple of m is at least m.
LEMMA Multiple ==
  ASSUME NEW d \in Int, NEW m \in Nat \ {0}, d >= 1 PROVE m * d >= m
  OBVIOUS

\* Quotient and remainder are unique.
LEMMA Unique ==
  ASSUME NEW m \in Nat \ {0}, NEW q \in Int, NEW p \in Int,
         NEW r \in 0 .. m - 1, NEW s \in 0 .. m - 1, m * q + r = m * p + s
  PROVE  q = p /\ r = s
<1>1. m * (q - p) = s - r /\ m * (p - q) = r - s
  OBVIOUS
<1>2. ~(q - p >= 1) /\ ~(p - q >= 1)
  BY <1>1, Multiple
<1> QED
  BY <1>2

\* The remainder of a number given by quotient and remainder.
LEMMA ModIs ==
  ASSUME NEW m \in Nat \ {0}, NEW q \in Int, NEW r \in 0 .. m - 1, m * q + r \in Nat
  PROVE  (m * q + r) % m = r
<1> DEFINE a == m * q + r
           p == a \div m
           s == a % m
<1>1. a \in Nat /\ p \in Nat /\ s \in 0 .. m - 1 /\ a = m * p + s
  BY DivMod
<1> HIDE DEF p, s
<1>2. m * q + r = m * p + s
  BY <1>1
<1>3. r = s
  BY <1>1, <1>2, Unique
<1> QED
  BY <1>3 DEF s

\* A multiple of m more or less leaves the remainder.
LEMMA ModPlus ==
  ASSUME NEW m \in Nat \ {0}, NEW k \in Int, NEW a \in Nat, a + m * k \in Nat
  PROVE  (a + m * k) % m = a % m
<1> DEFINE q == a \div m
           r == a % m
<1>1. q \in Nat /\ r \in 0 .. m - 1 /\ a = m * q + r
  BY DivMod
<1> HIDE DEF q, r
<1>2. m * (q + k) + r = a + m * k
  BY <1>1
<1>3. (m * (q + k) + r) % m = r
  BY <1>1, <1>2, ModIs
<1> QED
  BY <1>2, <1>3 DEF r

\* The mask of a counter that wrapped is the mask of the count.
Masked(a, i, m, c) == ((a % m) + i) % c = (a + i) % c
LEMMA MaskOfCounter ==
  ASSUME NEW m \in Nat \ {0}, NEW c \in Nat \ {0}, m % c = 0, NEW a \in Nat, NEW i \in Nat
  PROVE  Masked(a, i, m, c)
<1> DEFINE d == m \div c
           q == a \div m
           r == a % m
<1>1. d \in Nat /\ m = c * d
  BY DivMod
<1>2. q \in Nat /\ r \in Nat /\ a = m * q + r
  BY DivMod
<1> HIDE DEF q, r, d
<1>3. a + i = (r + i) + c * (d * q)
  BY <1>1, <1>2
<1>4. d * q \in Int /\ (r + i) + c * (d * q) \in Nat /\ r + i \in Nat
  BY <1>1, <1>2, <1>3
<1>5. ((r + i) + c * (d * q)) % c = (r + i) % c
  BY <1>4, ModPlus
<1> QED
  BY <1>3, <1>5 DEF r, Masked

\* Counts less than a capacity apart have different slots.
LEMMA SlotsDiffer ==
  ASSUME NEW c \in Nat \ {0}, NEW a \in Nat, NEW b \in Nat, a < b, b < a + c
  PROVE  a % c # b % c
<1> SUFFICES ASSUME a % c = b % c PROVE FALSE
  OBVIOUS
<1>1. /\ a \div c \in Nat /\ a % c \in 0 .. c - 1 /\ a = c * (a \div c) + (a % c)
      /\ b \div c \in Nat /\ b % c \in 0 .. c - 1 /\ b = c * (b \div c) + (b % c)
  BY DivMod
<1>2. c * ((b \div c) - (a \div c)) = b - a /\ (b \div c) - (a \div c) \in Int
  BY <1>1
<1>3. ~((b \div c) - (a \div c) >= 1)
  BY <1>2, Multiple
<1>4. CASE (b \div c) - (a \div c) <= 0
  BY <1>1, <1>2, <1>4, Multiple
<1> QED
  BY <1>2, <1>3, <1>4

\* Subtracting counters subtracts the counts, as long as they are less than a
\* full turn apart.
LEMMA Difference ==
  ASSUME NEW m \in Nat \ {0}, NEW a \in Nat, NEW b \in Nat, b <= a, a - b < m
  PROVE  ((a % m) + m - (b % m)) % m = a - b
<1> DEFINE p == a \div m
           q == b \div m
           r == a % m
           s == b % m
<1>1. /\ p \in Nat /\ q \in Nat /\ r \in 0 .. m - 1 /\ s \in 0 .. m - 1
      /\ a = m * p + r /\ b = m * q + s
  BY DivMod
<1> HIDE DEF p, q, r, s
<1>2. a - b = (r + m - s) + m * (p - q - 1)
  BY <1>1
<1>3. p - q - 1 \in Int /\ r + m - s \in Nat /\ a - b \in 0 .. m - 1
  BY <1>1
<1>4. (r + m - s) % m = (a - b) % m
  <2> DEFINE x == r + m - s
             k == p - q - 1
  <2>1. x \in Nat /\ k \in Int /\ x + m * k = a - b /\ x + m * k \in Nat
    BY <1>2, <1>3
  <2> HIDE DEF x, k
  <2>2. (x + m * k) % m = x % m
    BY <2>1, ModPlus
  <2> QED
    BY <2>1, <2>2 DEF x
<1>5. (a - b) % m = a - b
  <2>1. m * 0 + (a - b) = a - b
    BY <1>3
  <2> QED
    BY <2>1, <1>3, ModIs
<1> QED
  BY <1>4, <1>5 DEF r, s

----------------------------------------------------------------------------
(* The inductive invariant. *)

\* The counters are the counts, and what each thread loaded of the other's is no
\* newer than the truth: the producer sees too few bytes released, the consumer
\* too few published.
CountsInv ==
  /\ written \in Nat /\ taken \in Nat /\ pSeen \in Nat /\ cSeen \in Nat
  /\ head = written % Mod /\ tail = taken % Mod
  /\ pSeen <= taken /\ taken <= cSeen /\ cSeen <= written
  /\ written <= pSeen + Cap /\ written <= MaxBytes

\* What each call will copy fits between what it loaded and its own counter.
CallsInv ==
  /\ pushing \in BOOLEAN /\ popping \in BOOLEAN
  /\ pn \in 0 .. Cap /\ pi \in 0 .. pn /\ cn \in 0 .. Cap
  /\ out \in Seq(Nat)
  /\ pushing => written + pn <= pSeen + Cap /\ written + pn <= MaxBytes
  /\ popping => taken + cn <= cSeen /\ Len(out) <= cn

\* Every byte copied in and not released is in its slot.
Filled == written + (IF pushing THEN pi ELSE 0)
SlotsInv ==
  /\ buf \in [0 .. Cap - 1 -> 0 .. MaxBytes]
  /\ \A k \in Nat : taken <= k /\ k < Filled => buf[k % Cap] = k + 1

RingInv == CountsInv /\ CallsInv /\ SlotsInv /\ InOrder

\* The masked counters are the masked counts.
LEMMA Masks ==
  ASSUME RingInv, NEW i \in Nat
  PROVE  /\ (head + i) % Cap = (written + i) % Cap /\ (tail + i) % Cap = (taken + i) % Cap
         /\ (head + i) % Mod = (written + i) % Mod /\ (tail + i) % Mod = (taken + i) % Mod
<1>1. Mod \in Nat \ {0} /\ Cap \in Nat \ {0} /\ Mod % Cap = 0
  BY RingAssumption
<1>2. Mod % Mod = 0
  <2>1. Mod * 1 + 0 = Mod /\ 0 \in 0 .. Mod - 1
    BY <1>1
  <2> QED
    BY <1>1, <2>1, ModIs
<1>3. written \in Nat /\ taken \in Nat /\ head = written % Mod /\ tail = taken % Mod
  BY DEF RingInv, CountsInv
<1>4. ASSUME NEW a \in Nat
      PROVE  ((a % Mod) + i) % Cap = (a + i) % Cap /\ ((a % Mod) + i) % Mod = (a + i) % Mod
  <2>1. Masked(a, i, Mod, Cap) /\ Masked(a, i, Mod, Mod)
    BY <1>1, <1>2, MaskOfCounter, Zenon
  <2> QED
    BY <2>1 DEF Masked
<1> QED
  BY <1>3, <1>4

\* The empty ring.
LEMMA RingStarts == RingInit => RingInv
<1> SUFFICES ASSUME RingInit PROVE RingInv
  OBVIOUS
<1>1. 0 % Mod = 0
  <2>1. Mod * 0 + 0 = 0 /\ 0 \in 0 .. Mod - 1
    BY RingAssumption
  <2> QED
    BY <2>1, ModIs, RingAssumption
<1>2. CountsInv
  BY <1>1, RingAssumption DEF RingInit, CountsInv
<1>3. CallsInv
  BY RingAssumption DEF RingInit, CallsInv
<1>4. SlotsInv
  BY RingAssumption DEF RingInit, SlotsInv, Filled
<1>5. InOrder
  BY DEF RingInit, InOrder
<1> QED
  BY <1>2, <1>3, <1>4, <1>5 DEF RingInv

\* The load of a Push, however old the value it returns.
LEMMA BeginPushKeeps ==
  ASSUME RingInv, NEW len \in 1 .. Cap + 1, BeginPush(len) PROVE RingInv'
<1> USE RingAssumption
<1>1. PICK t \in pSeen .. taken : pSeen' = t /\ pn' = AtMost(len, Space(t % Mod))
  BY DEF BeginPush
<1>2. /\ UNCHANGED <<buf, head, tail, popping, cn, out, cSeen, written, taken>>
      /\ pushing' = TRUE /\ pi' = 0 /\ ~pushing /\ written + len <= MaxBytes
  BY DEF BeginPush, consumer
<1>3. t \in Nat /\ t <= written /\ written - t < Mod /\ written <= t + Cap
  BY <1>1 DEF RingInv, CountsInv
<1>4. Space(t % Mod) = Cap - (written - t)
  BY <1>3, Difference DEF Space, Minus, RingInv, CountsInv
<1>5. /\ pn' \in 0 .. Cap /\ written + pn' <= t + Cap /\ pn' <= len
  BY <1>1, <1>3, <1>4 DEF AtMost, RingInv, CountsInv
<1>6. CountsInv'
  BY <1>1, <1>2, <1>3 DEF RingInv, CountsInv
<1>7. CallsInv'
  BY <1>1, <1>2, <1>5 DEF RingInv, CallsInv, CountsInv
<1>8. SlotsInv'
  BY <1>2 DEF RingInv, SlotsInv, CountsInv, Filled
<1>9. InOrder'
  BY <1>2 DEF RingInv, InOrder
<1> QED
  BY <1>6, <1>7, <1>8, <1>9 DEF RingInv

\* The load of a Pop, however old the value it returns.
LEMMA BeginPopKeeps ==
  ASSUME RingInv, NEW len \in 1 .. Cap + 1, BeginPop(len) PROVE RingInv'
<1> USE RingAssumption
<1>1. PICK h \in cSeen .. written : cSeen' = h /\ cn' = AtMost(len, Ready(h))
  BY DEF BeginPop
<1>2. /\ UNCHANGED <<buf, head, tail, pushing, pn, pi, pSeen, written, taken>>
      /\ popping' = TRUE /\ out' = <<>>
  BY DEF BeginPop, producer
<1>3. h \in Nat /\ taken <= h /\ h <= written /\ h - taken <= Cap /\ h - taken < Mod
  BY <1>1 DEF RingInv, CountsInv
<1>4. Ready(h) = h - taken
  BY <1>3, Difference DEF Ready, Minus, RingInv, CountsInv
<1>5. cn' \in 0 .. Cap /\ taken + cn' <= h
  BY <1>1, <1>3, <1>4 DEF AtMost, RingInv, CountsInv
<1>6. CountsInv'
  BY <1>1, <1>2, <1>3 DEF RingInv, CountsInv
<1>7. CallsInv'
  BY <1>1, <1>2, <1>5 DEF RingInv, CallsInv, CountsInv
<1>8. SlotsInv'
  BY <1>2 DEF RingInv, SlotsInv, Filled
<1>9. InOrder'
  BY <1>2 DEF InOrder
<1> QED
  BY <1>6, <1>7, <1>8, <1>9 DEF RingInv

\* A byte copied in lands where none waits.
LEMMA CopyInKeeps == ASSUME RingInv, CopyIn PROVE RingInv'
<1> USE RingAssumption
<1>1. /\ UNCHANGED <<head, tail, pushing, pn, pSeen, popping, cn, out, cSeen, written,
                     taken>>
      /\ pushing /\ pi < pn /\ pi' = pi + 1
      /\ buf' = [buf EXCEPT ![(head + pi) % Cap] = written + pi + 1]
  BY DEF CopyIn, consumer
<1> DEFINE w == written + pi
<1>2. /\ pi \in Nat /\ w \in Nat /\ w + 1 <= MaxBytes /\ w < taken + Cap
      /\ (head + pi) % Cap = w % Cap /\ w % Cap \in 0 .. Cap - 1
  <2>1. pi \in Nat /\ w \in Nat /\ w + 1 <= MaxBytes /\ w < taken + Cap
    BY <1>1 DEF RingInv, CountsInv, CallsInv
  <2>2. (head + pi) % Cap = w % Cap
    BY <2>1, Masks
  <2>3. w % Cap \in 0 .. Cap - 1
    BY <2>1, DivMod
  <2> QED
    BY <2>1, <2>2, <2>3
<1>3. buf' = [buf EXCEPT ![w % Cap] = w + 1]
  BY <1>1, <1>2
<1>4. Filled = w /\ Filled' = w + 1
  BY <1>1, <1>2 DEF Filled, RingInv, CountsInv
<1>5. ASSUME NEW k \in Nat, taken <= k, k < Filled' PROVE buf'[k % Cap] = k + 1
  <2>1. k % Cap \in 0 .. Cap - 1
    BY DivMod
  <2>2. CASE k = w
    BY <1>2, <1>3, <2>2 DEF RingInv, SlotsInv
  <2>3. CASE k # w
    <3>1. k < w /\ w < k + Cap
      BY <1>2, <1>4, <1>5, <2>3 DEF RingInv, CountsInv
    <3>2. k % Cap # w % Cap
      BY <1>2, <3>1, SlotsDiffer
    <3>3. buf[k % Cap] = k + 1
      BY <1>4, <1>5, <3>1 DEF RingInv, SlotsInv
    <3> HIDE DEF w
    <3> QED
      BY <1>3, <2>1, <3>2, <3>3 DEF RingInv, SlotsInv
  <2> QED
    BY <2>2, <2>3
<1>6. SlotsInv'
  <2>1. buf' \in [0 .. Cap - 1 -> 0 .. MaxBytes]
    BY <1>2, <1>3 DEF RingInv, SlotsInv
  <2> QED
    BY <1>1, <1>5, <2>1 DEF SlotsInv
<1>7. CountsInv'
  BY <1>1 DEF RingInv, CountsInv
<1>8. CallsInv'
  BY <1>1 DEF RingInv, CallsInv
<1>9. InOrder'
  BY <1>1 DEF RingInv, InOrder
<1> QED
  BY <1>6, <1>7, <1>8, <1>9 DEF RingInv

\* The release store of a Push publishes what was copied, all of it.
LEMMA EndPushKeeps == ASSUME RingInv, EndPush PROVE RingInv'
<1> USE RingAssumption
<1>1. /\ UNCHANGED <<buf, tail, pn, pi, pSeen, popping, cn, out, cSeen, taken>>
      /\ pushing /\ pi = pn /\ pushing' = FALSE
      /\ head' = (head + pn) % Mod /\ written' = written + pn
  BY DEF EndPush, AllCopied, consumer
<1>2. pn \in Nat /\ cn \in Nat
  BY DEF RingInv, CallsInv
<1>3. head' = written' % Mod
  BY <1>1, <1>2, Masks
<1>4. CountsInv'
  BY <1>1, <1>3 DEF RingInv, CountsInv, CallsInv
<1>5. CallsInv'
  BY <1>1 DEF RingInv, CallsInv
<1>6. Filled' = Filled
  BY <1>1 DEF Filled, RingInv, CountsInv, CallsInv
<1>7. SlotsInv'
  BY <1>1, <1>6 DEF RingInv, SlotsInv
<1>8. InOrder'
  BY <1>1 DEF RingInv, InOrder
<1> QED
  BY <1>4, <1>5, <1>7, <1>8 DEF RingInv

\* A byte copied out is the next one.
LEMMA CopyOutKeeps == ASSUME RingInv, CopyOut PROVE RingInv'
<1> USE RingAssumption
<1>1. /\ UNCHANGED <<buf, head, tail, pushing, pn, pi, pSeen, popping, cn, cSeen,
                     written, taken>>
      /\ popping /\ Len(out) < cn
      /\ out' = Append(out, buf[(tail + Len(out)) % Cap])
  BY DEF CopyOut, producer
<1> DEFINE k == taken + Len(out)
<1>2. /\ Len(out) \in Nat /\ k \in Nat /\ taken <= k /\ k < Filled
      /\ (tail + Len(out)) % Cap = k % Cap
  <2>1. Len(out) \in Nat
    BY LenProperties DEF RingInv, CallsInv
  <2>2. k \in Nat /\ taken <= k /\ k < written
    BY <1>1, <2>1 DEF RingInv, CountsInv, CallsInv
  <2>3. written <= Filled
    BY DEF Filled, RingInv, CountsInv, CallsInv
  <2>4. (tail + Len(out)) % Cap = k % Cap
    BY <2>1, Masks
  <2>5. Filled \in Int
    BY DEF Filled, RingInv, CountsInv, CallsInv
  <2> QED
    BY <2>1, <2>2, <2>3, <2>4, <2>5 DEF RingInv, CountsInv
<1>3. buf[(tail + Len(out)) % Cap] = k + 1
  BY <1>2 DEF RingInv, SlotsInv
<1>4. /\ out' \in Seq(Nat) /\ Len(out') = Len(out) + 1
      /\ \A i \in 1 .. Len(out) : out'[i] = out[i]
      /\ out'[Len(out) + 1] = k + 1
  BY <1>1, <1>2, <1>3, AppendProperties DEF RingInv, CallsInv
<1>5. InOrder'
  <2>1. ASSUME NEW i \in 1 .. Len(out') PROVE out'[i] = taken + i
    <3>1. CASE i = Len(out) + 1
      BY <1>2, <1>4, <3>1 DEF RingInv, CountsInv
    <3>2. CASE i # Len(out) + 1
      <4>1. i \in 1 .. Len(out)
        BY <1>2, <1>4, <3>2
      <4> QED
        BY <1>1, <1>4, <4>1 DEF RingInv, InOrder
    <3> QED
      BY <3>1, <3>2
  <2> QED
    BY <1>1, <2>1 DEF InOrder
<1>6. CountsInv'
  BY <1>1 DEF RingInv, CountsInv
<1>7. CallsInv'
  BY <1>1, <1>2, <1>4 DEF RingInv, CallsInv
<1>8. SlotsInv'
  BY <1>1 DEF RingInv, SlotsInv, Filled
<1> QED
  BY <1>5, <1>6, <1>7, <1>8 DEF RingInv

\* The release store of a Pop gives back what was copied.
LEMMA EndPopKeeps == ASSUME RingInv, EndPop PROVE RingInv'
<1> USE RingAssumption
<1>1. /\ UNCHANGED <<buf, head, pushing, pn, pi, pSeen, cn, out, cSeen, written>>
      /\ popping /\ popping' = FALSE
      /\ tail' = (tail + cn) % Mod /\ taken' = taken + cn
  BY DEF EndPop, producer
<1>2. pn \in Nat /\ cn \in Nat
  BY DEF RingInv, CallsInv
<1>3. tail' = taken' % Mod
  BY <1>1, <1>2, Masks
<1>4. CountsInv'
  BY <1>1, <1>3 DEF RingInv, CountsInv, CallsInv
<1>5. CallsInv'
  BY <1>1 DEF RingInv, CallsInv
<1>6. SlotsInv'
  <2>1. taken \in Nat /\ Filled \in Int /\ Filled' = Filled
    BY <1>1 DEF RingInv, CountsInv, CallsInv, Filled
  <2>2. ASSUME NEW k \in Nat, taken' <= k, k < Filled' PROVE buf'[k % Cap] = k + 1
    <3>1. taken <= k /\ k < Filled
      BY <1>1, <1>2, <2>1, <2>2
    <3> QED
      BY <1>1, <3>1 DEF RingInv, SlotsInv
  <2> QED
    BY <1>1, <2>2 DEF RingInv, SlotsInv
<1>7. InOrder'
  BY <1>1 DEF InOrder
<1> QED
  BY <1>4, <1>5, <1>6, <1>7 DEF RingInv

\* Clear, with no call under way.
LEMMA ClearKeeps == ASSUME RingInv, Clear PROVE RingInv'
<1> USE RingAssumption
<1>1. /\ UNCHANGED <<buf, head, pushing, pn, pi, popping, cn, out, written>>
      /\ ~pushing /\ ~popping /\ tail' = head
      /\ taken' = written /\ pSeen' = written /\ cSeen' = written
  BY DEF Clear
<1>2. CountsInv'
  BY <1>1 DEF RingInv, CountsInv
<1>3. CallsInv'
  BY <1>1 DEF RingInv, CallsInv
<1>4. SlotsInv'
  BY <1>1 DEF RingInv, SlotsInv, CountsInv, Filled
<1>5. InOrder'
  BY <1>1 DEF InOrder
<1> QED
  BY <1>2, <1>3, <1>4, <1>5 DEF RingInv

\* Whatever the two threads do next, the invariant holds.
LEMMA RingStep == RingInv /\ [RingNext]_ringVars => RingInv'
<1> SUFFICES ASSUME RingInv, [RingNext]_ringVars PROVE RingInv'
  OBVIOUS
<1>1. CASE UNCHANGED ringVars
  BY <1>1 DEF ringVars, producer, consumer, RingInv, CountsInv, CallsInv, SlotsInv, Filled,
     InOrder
<1>2. CASE RingNext
  BY <1>2, BeginPushKeeps, BeginPopKeeps, CopyInKeeps, EndPushKeeps, CopyOutKeeps,
     EndPopKeeps, ClearKeeps DEF RingNext
<1> QED
  BY <1>1, <1>2

\* The threads' slots are apart.
LEMMA SlotsApart == RingInv => NoSharedSlot
<1> USE RingAssumption
<1> SUFFICES ASSUME RingInv, pushing, popping,
                    NEW i \in pi .. pn - 1, NEW j \in Len(out) .. cn - 1
             PROVE  (head + i) % Cap # (tail + j) % Cap
  BY DEF NoSharedSlot
<1>1. i \in Nat /\ j \in Nat
  BY LenProperties DEF RingInv, CallsInv
<1>2. /\ taken + j \in Nat /\ written + i \in Nat
      /\ taken + j < written + i /\ written + i < taken + j + Cap
  BY <1>1 DEF RingInv, CountsInv, CallsInv
<1>3. (taken + j) % Cap # (written + i) % Cap
  BY <1>2, SlotsDiffer
<1>4. (head + i) % Cap = (written + i) % Cap /\ (tail + j) % Cap = (taken + j) % Cap
  BY <1>1, Masks
<1> QED
  BY <1>3, <1>4

\* SpscRing is a queue of bytes, first in and first out, for every capacity and
\* every width of its counters: no byte is torn, lost or repeated although both
\* threads work on it at once and may see each other's counter late.
THEOREM RingIsAQueue == RingSpec => []NothingTorn
<1>1. RingInv => NothingTorn
  <2> SUFFICES ASSUME RingInv PROVE NothingTorn
    OBVIOUS
  <2>1. head \in 0 .. Mod - 1 /\ tail \in 0 .. Mod - 1
    BY DivMod, RingAssumption DEF RingInv, CountsInv
  <2>2. RingTypeOK
    BY <2>1, RingAssumption DEF RingTypeOK, RingInv, CountsInv, CallsInv, SlotsInv
  <2> QED
    BY <2>2, SlotsApart DEF NothingTorn, RingInv
<1> QED
  BY RingStarts, RingStep, <1>1, PTL DEF RingSpec
=============================================================================
