------------------------------ MODULE Connect ------------------------------
(***************************************************************************)
(* Making and cancelling connections (src/src/ssh/transports.cpp, the      *)
(* abort slot of session.cpp).  Each session's worker dials the addresses  *)
(* it resolved, one after another, and publishes the socket in m_socket,   *)
(* where Disconnect finds it.  A socket is a number the operating system   *)
(* hands out again as soon as it was closed, to whichever session asks.    *)
(***************************************************************************)
EXTENDS Naturals, FiniteSets

CONSTANTS Sessions,    \* the tabs
          MaxHandle,   \* socket handles are 1 .. MaxHandle, 0 is INVALID_SOCKET and ~0
          Addresses    \* addresses a name resolves to

ASSUME ConnectAssumption ==
  /\ MaxHandle \in Nat \ {0} /\ Addresses \in Nat \ {0}
  /\ "none" \notin Sessions

VARIABLES
  wpc,     \* where each session's worker is
  left,    \* addresses it has not tried
  sock,    \* its own copy of the handle
  slot,    \* m_socket
  stop,    \* m_stop
  owner,   \* the session that holds each open handle, "none" = closed
  upc,     \* where the UI thread is in Disconnect
  target,  \* the session it disconnects
  taken    \* the handle it exchanged out of the slot

worker == <<wpc, left, sock>>
ui     == <<upc, target, taken>>
vars   == <<worker, slot, stop, owner, ui>>

Handles == 1 .. MaxHandle
\* The worker waits on the socket, in ConnectAddr, in a proxy handshake or once up.
Waiting == {"wait", "proxy", "up"}
WorkerStates == Waiting \cup {"idle", "resolve", "next", "socket", "publish", "last",
                              "giveUp", "closeOne", "abandon", "closeLast", "fail", "ended"}

Init ==
  /\ wpc = [s \in Sessions |-> "idle"] /\ left = [s \in Sessions |-> 0]
  /\ sock = [s \in Sessions |-> 0] /\ slot = [s \in Sessions |-> 0]
  /\ stop = [s \in Sessions |-> FALSE] /\ owner = [h \in Handles |-> "none"]
  /\ upc = "idle" /\ target \in Sessions /\ taken = 0

Goto(s, from, to) == wpc[s] = from /\ wpc' = [wpc EXCEPT ![s] = to]

\* closesocket: the handle is free, whoever held it.
Close(h) == owner' = [owner EXCEPT ![h] = "none"]

----------------------------------------------------------------------------
(* The UI thread.                                                          *)

Start(s) ==
  /\ upc = "idle" /\ wpc[s] \in {"idle", "ended"}
  /\ wpc' = [wpc EXCEPT ![s] = "resolve"] /\ stop' = [stop EXCEPT ![s] = FALSE]
  /\ UNCHANGED <<left, sock, slot, owner, ui>>

Disconnect(s) ==
  /\ upc = "idle" /\ wpc[s] # "idle"
  /\ stop' = [stop EXCEPT ![s] = TRUE] /\ upc' = "exchange" /\ target' = s
  /\ UNCHANGED <<worker, slot, owner, taken>>
Exchange ==
  /\ upc = "exchange" /\ upc' = "close"
  /\ taken' = slot[target] /\ slot' = [slot EXCEPT ![target] = 0]
  /\ UNCHANGED <<worker, stop, owner, target>>
CloseTaken ==
  /\ upc = "close" /\ upc' = "join" /\ taken' = 0
  /\ IF taken = 0 THEN UNCHANGED owner ELSE Close(taken)
  /\ UNCHANGED <<worker, slot, stop, target>>
Join ==
  /\ upc = "join" /\ wpc[target] = "ended" /\ upc' = "idle"
  /\ UNCHANGED <<worker, slot, stop, owner, target, taken>>

----------------------------------------------------------------------------
(* A session's worker.                                                     *)

Resolve(s) ==
  /\ Goto(s, "resolve", "next") /\ left' = [left EXCEPT ![s] = Addresses]
  /\ UNCHANGED <<sock, slot, stop, owner, ui>>
NoAddress(s) ==
  /\ Goto(s, "resolve", "fail") /\ UNCHANGED <<left, sock, slot, stop, owner, ui>>

\* The loop over the addresses.
More(s)            == left[s] > 0 /\ ~stop[s]
NextAddress(s) ==
  /\ IF More(s) THEN Goto(s, "next", "socket") /\ left' = [left EXCEPT ![s] = @ - 1]
                ELSE Goto(s, "next", "fail") /\ UNCHANGED left
  /\ UNCHANGED <<sock, slot, stop, owner, ui>>

\* ConnectAddr: create, publish, connect and wait in slices.
Create(s) ==
  /\ Goto(s, "socket", "publish")
  /\ \E h \in Handles : /\ owner[h] = "none"
                        /\ owner' = [owner EXCEPT ![h] = s] /\ sock' = [sock EXCEPT ![s] = h]
  /\ UNCHANGED <<left, slot, stop, ui>>
CreateFails(s) ==
  /\ Goto(s, "socket", "next") /\ UNCHANGED <<left, sock, slot, stop, owner, ui>>
Unpublished(s) == UNCHANGED slot                                \* (faulty)
Store(s)       == slot' = [slot EXCEPT ![s] = sock[s]]
Publish(s) ==
  /\ Goto(s, "publish", "wait") /\ Store(s)
  /\ UNCHANGED <<left, sock, stop, owner, ui>>
\* Refused at once, timed out or cancelled; or connected.
WaitEnds(s) ==
  /\ wpc[s] = "wait" /\ wpc' \in {[wpc EXCEPT ![s] = "giveUp"], [wpc EXCEPT ![s] = "last"]}
  /\ UNCHANGED <<left, sock, slot, stop, owner, ui>>

\* The slot is cleared, whatever it held, and then the worker's copy is closed:
\* for this address, or for good.
CloseCopy(s) == Close(sock[s])
GiveUp(s) ==
  /\ \/ Goto(s, "giveUp", "closeOne") \/ Goto(s, "abandon", "closeLast")
  /\ slot' = [slot EXCEPT ![s] = 0]
  /\ UNCHANGED <<left, sock, stop, owner, ui>>
CloseSock(s) ==
  /\ \/ Goto(s, "closeOne", "next") \/ Goto(s, "closeLast", "fail")
  /\ CloseCopy(s) /\ sock' = [sock EXCEPT ![s] = 0]
  /\ UNCHANGED <<left, slot, stop, ui>>

\* ConnectTransport: a last look at m_stop, then the proxy's handshake, if any.
LastLook(s) ==
  /\ IF stop[s] THEN Goto(s, "last", "abandon") ELSE Goto(s, "last", "proxy")
  /\ UNCHANGED <<left, sock, slot, stop, owner, ui>>
ProxyEnds(s) ==
  /\ wpc[s] = "proxy" /\ wpc' \in {[wpc EXCEPT ![s] = "up"], [wpc EXCEPT ![s] = "abandon"]}
  /\ UNCHANGED <<left, sock, slot, stop, owner, ui>>

\* The transport runs until stopped, or until its connection ends by itself.
StopUnseen(s) == FALSE                                          \* (faulty)
StopSeen(s)   == stop[s]
UpStopped(s) ==
  /\ StopSeen(s) /\ Goto(s, "up", "fail")
  /\ UNCHANGED <<left, sock, slot, stop, owner, ui>>
UpBreaks(s) ==
  /\ Goto(s, "up", "fail") /\ UNCHANGED <<left, sock, slot, stop, owner, ui>>

\* fail and closed alike: close what the exchange returned, if anything.
Fail(s) ==
  /\ Goto(s, "fail", "ended")
  /\ IF slot[s] = 0 THEN UNCHANGED owner ELSE Close(slot[s])
  /\ slot' = [slot EXCEPT ![s] = 0] /\ sock' = [sock EXCEPT ![s] = 0]
  /\ UNCHANGED <<left, stop, ui>>

Works(s) == \/ Resolve(s) \/ NoAddress(s) \/ NextAddress(s) \/ Create(s) \/ CreateFails(s)
            \/ Publish(s) \/ WaitEnds(s) \/ GiveUp(s) \/ CloseSock(s) \/ LastLook(s)
            \/ ProxyEnds(s) \/ UpStopped(s) \/ Fail(s)
UiGoesOn == Exchange \/ CloseTaken \/ Join

Next == \/ UiGoesOn
        \/ \E s \in Sessions : Start(s) \/ Disconnect(s) \/ Works(s) \/ UpBreaks(s)
Spec == Init /\ [][Next]_vars

\* Both threads are scheduled, and every call a worker makes returns: the lookup,
\* the connect and each read of a proxy handshake have their timeouts.
FairSpec == Spec /\ WF_vars(UiGoesOn) /\ \A s \in Sessions : WF_vars(Works(s))

----------------------------------------------------------------------------
TypeOK ==
  /\ wpc \in [Sessions -> WorkerStates] /\ left \in [Sessions -> 0 .. Addresses]
  /\ sock \in [Sessions -> 0 .. MaxHandle] /\ slot \in [Sessions -> 0 .. MaxHandle]
  /\ stop \in [Sessions -> BOOLEAN] /\ owner \in [Handles -> Sessions \cup {"none"}]
  /\ upc \in {"idle", "exchange", "close", "join"} /\ target \in Sessions
  /\ taken \in 0 .. MaxHandle

Holds(s) == {h \in Handles : owner[h] = s}

\* However the attempt ended -- an address refused, a proxy that said no, a
\* cancel between any two steps -- the worker that is over holds no socket, and
\* no worker ever holds two.
NoHandleLeaks ==
  \A s \in Sessions :
    /\ Cardinality(Holds(s)) <= 1
    /\ wpc[s] = "ended" /\ (upc = "idle" \/ target # s) => Holds(s) = {}

\* A worker that waits on a socket of its own can be released: the socket is in
\* the slot, where Disconnect looks, unless Disconnect has been there.
DisconnectFindsIt ==
  \A s \in Sessions :
    wpc[s] \in Waiting /\ owner[sock[s]] = s => slot[s] = sock[s] \/ stop[s]

\* A session that is told to stop ends.
CancelEnds == \A s \in Sessions : stop[s] ~> (wpc[s] = "ended" \/ ~stop[s])

\* Each open handle is in the hands of somebody who will close it: the worker's,
\* or by way of the slot Disconnect's.
HandlesKept == TypeOK /\ NoHandleLeaks /\ DisconnectFindsIt

(* Statements of the repository that the code does not keep. *)

\* docs/ARCHITECTURE.md:9, "One SSH worker per session owns its socket": a worker
\* closes no socket that another session holds.
ClosesOnlyItsOwn ==
  [][\A s \in Sessions : CloseSock(s) => owner[sock[s]] \in {s, "none"}]_vars
=============================================================================
