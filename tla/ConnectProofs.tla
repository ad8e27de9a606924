---------------------------- MODULE ConnectProofs ----------------------------
(***************************************************************************)
(* Proofs about Connect: for any number of sessions, handles and           *)
(* addresses, no worker leaks a socket and Disconnect finds the socket a   *)
(* worker waits on.  And about KnownHosts on top of it: no credential goes *)
(* to a server nobody vouched for.                                         *)
(***************************************************************************)
EXTENDS KnownHosts, TLAPS, FiniteSetTheorems

\* Where a worker has no socket, and where it has one or a stale copy of one.
Without == {"idle", "resolve", "next", "socket", "ended"}
With    == Waiting \cup {"publish", "last", "giveUp", "closeOne", "abandon", "closeLast"}

\* Disconnect has taken h out of the slot of s and is about to close it.
InHand(s, h) == upc = "close" /\ target = s /\ taken = h

\* The worker's copy and the slot: a worker without a socket has neither, the slot
\* repeats the copy or is empty, and is empty while the copy is being closed.
CopyInv ==
  /\ \A s \in Sessions : wpc[s] \in Without => sock[s] = 0
  /\ \A s \in Sessions : wpc[s] \in With => sock[s] # 0
  /\ \A s \in Sessions : slot[s] \in {0, sock[s]}
  /\ \A s \in Sessions : wpc[s] \in {"closeOne", "closeLast"} => slot[s] = 0

\* Whoever holds a handle will close it: the worker by its copy or through the
\* slot, or Disconnect, which has it in hand.
HeldInv ==
  /\ \A s \in Sessions, h \in Handles :
       owner[h] = s => sock[s] = h \/ (wpc[s] = "ended" /\ InHand(s, h))
  /\ \A s \in Sessions, h \in Handles :
       wpc[s] \in Waiting \cup {"last", "fail"} /\ owner[h] = s
         => slot[s] = h \/ InHand(s, h)
  /\ upc # "idle" => stop[target] = TRUE

Inv == TypeOK /\ CopyInv /\ HeldInv

LEMMA InvInit == Init => Inv
  BY ConnectAssumption
     DEF Init, Inv, TypeOK, CopyInv, HeldInv, WorkerStates, Waiting, Without, With,
         Handles

\* No step of the UI thread or of a worker breaks the types.
LEMMA TypeStep == TypeOK /\ [Next]_vars => TypeOK'
<1> SUFFICES ASSUME TypeOK, [Next]_vars PROVE TypeOK'
  OBVIOUS
<1> USE ConnectAssumption DEF TypeOK, WorkerStates, Waiting, Handles, Goto, Close, worker, ui
<1>1. CASE UiGoesOn
  <2>1. CASE Exchange
    BY <2>1 DEF Exchange
  <2>2. CASE CloseTaken
    BY <2>2 DEF CloseTaken
  <2>3. CASE Join
    BY <2>3 DEF Join
  <2> QED
    BY <1>1, <2>1, <2>2, <2>3 DEF UiGoesOn
<1>2. ASSUME NEW s \in Sessions, Start(s) \/ Disconnect(s) PROVE TypeOK'
  <2>1. CASE Start(s)
    BY <2>1 DEF Start
  <2>2. CASE Disconnect(s)
    BY <2>2 DEF Disconnect
  <2> QED
    BY <1>2, <2>1, <2>2
<1>3. ASSUME NEW s \in Sessions, NextAddress(s) PROVE TypeOK'
  <2>1. CASE More(s)
    <3>1. wpc' \in [Sessions -> WorkerStates]
      BY <1>3, <2>1 DEF NextAddress
    <3>2. left' \in [Sessions -> 0 .. Addresses]
      <4>1. left[s] \in 0 .. Addresses /\ left[s] > 0
        BY <2>1 DEF More
      <4>2. left[s] - 1 \in 0 .. Addresses
        BY <4>1
      <4> QED
        BY <1>3, <2>1, <4>2 DEF NextAddress
    <3> QED
      BY <1>3, <3>1, <3>2 DEF NextAddress
  <2>2. CASE ~More(s)
    BY <1>3, <2>2 DEF NextAddress
  <2> QED
    BY <2>1, <2>2
<1>4. ASSUME NEW s \in Sessions, GiveUp(s) PROVE TypeOK'
  <2>1. wpc' \in [Sessions -> WorkerStates]
    BY <1>4 DEF GiveUp
  <2>2. slot' \in [Sessions -> 0 .. MaxHandle]
    BY <1>4 DEF GiveUp
  <2> QED
    BY <1>4, <2>1, <2>2 DEF GiveUp
<1>5. ASSUME NEW s \in Sessions, CloseSock(s) PROVE TypeOK'
  <2>1. wpc' \in [Sessions -> WorkerStates]
    BY <1>5 DEF CloseSock
  <2>2. owner' \in [Handles -> Sessions \cup {"none"}]
    BY <1>5 DEF CloseSock, CloseCopy
  <2>3. sock' \in [Sessions -> 0 .. MaxHandle]
    BY <1>5 DEF CloseSock
  <2> QED
    BY <1>5, <2>1, <2>2, <2>3 DEF CloseSock
<1>6. ASSUME NEW s \in Sessions, Fail(s) PROVE TypeOK'
  <2>1. owner' \in [Handles -> Sessions \cup {"none"}]
    BY <1>6 DEF Fail
  <2>2. wpc' \in [Sessions -> WorkerStates]
    BY <1>6 DEF Fail
  <2>3. slot' \in [Sessions -> 0 .. MaxHandle] /\ sock' \in [Sessions -> 0 .. MaxHandle]
    BY <1>6 DEF Fail
  <2> QED
    BY <1>6, <2>1, <2>2, <2>3 DEF Fail
<1>7. ASSUME NEW s \in Sessions, Resolve(s) PROVE TypeOK'
  BY <1>7 DEF Resolve
<1>8. ASSUME NEW s \in Sessions, NoAddress(s) PROVE TypeOK'
  BY <1>8 DEF NoAddress
<1>9. ASSUME NEW s \in Sessions, Create(s) PROVE TypeOK'
  BY <1>9 DEF Create
<1>10. ASSUME NEW s \in Sessions, CreateFails(s) PROVE TypeOK'
  BY <1>10 DEF CreateFails
<1>11. ASSUME NEW s \in Sessions, Publish(s) PROVE TypeOK'
  BY <1>11 DEF Publish, Store
<1>12. ASSUME NEW s \in Sessions, WaitEnds(s) PROVE TypeOK'
  BY <1>12 DEF WaitEnds
<1>13. ASSUME NEW s \in Sessions, LastLook(s) PROVE TypeOK'
  BY <1>13 DEF LastLook
<1>14. ASSUME NEW s \in Sessions, ProxyEnds(s) PROVE TypeOK'
  BY <1>14 DEF ProxyEnds
<1>15. ASSUME NEW s \in Sessions, UpStopped(s) PROVE TypeOK'
  BY <1>15 DEF UpStopped, StopSeen
<1>16. ASSUME NEW s \in Sessions, UpBreaks(s) PROVE TypeOK'
  BY <1>16 DEF UpBreaks
<1>17. CASE UNCHANGED vars
  BY <1>17 DEF vars
<1> QED
  BY <1>1, <1>2, <1>3, <1>4, <1>5, <1>6, <1>7, <1>8, <1>9, <1>10,
     <1>11, <1>12, <1>13, <1>14, <1>15, <1>16, <1>17
     DEF Next, Works

\* No step separates the slot from the worker's copy other than by clearing it.
LEMMA CopyStep == TypeOK /\ CopyInv /\ HeldInv /\ [Next]_vars => CopyInv'
<1> SUFFICES ASSUME TypeOK, CopyInv, HeldInv, [Next]_vars PROVE CopyInv'
  OBVIOUS
<1> USE ConnectAssumption DEF TypeOK, CopyInv, Waiting, Without, With, Handles, Goto, Close, worker, ui
<1>1. CASE Exchange
  BY <1>1 DEF Exchange
<1>2. CASE CloseTaken
  BY <1>2 DEF CloseTaken
<1>3. CASE Join
  BY <1>3 DEF Join
<1>4. ASSUME NEW s \in Sessions, Start(s) PROVE CopyInv'
  BY <1>4 DEF Start
<1>5. ASSUME NEW s \in Sessions, Disconnect(s) PROVE CopyInv'
  BY <1>5 DEF Disconnect
<1>6. ASSUME NEW s \in Sessions, Resolve(s) PROVE CopyInv'
  BY <1>6 DEF Resolve
<1>7. ASSUME NEW s \in Sessions, NoAddress(s) PROVE CopyInv'
  BY <1>7 DEF NoAddress
<1>8. ASSUME NEW s \in Sessions, NextAddress(s) PROVE CopyInv'
  BY <1>8 DEF NextAddress
<1>9. ASSUME NEW s \in Sessions, Create(s) PROVE CopyInv'
  BY <1>9 DEF Create
<1>10. ASSUME NEW s \in Sessions, CreateFails(s) PROVE CopyInv'
  BY <1>10 DEF CreateFails
<1>11. ASSUME NEW s \in Sessions, Publish(s) PROVE CopyInv'
  BY <1>11 DEF Publish, Store
<1>12. ASSUME NEW s \in Sessions, WaitEnds(s) PROVE CopyInv'
  BY <1>12 DEF WaitEnds
<1>13. ASSUME NEW s \in Sessions, GiveUp(s) PROVE CopyInv'
  BY <1>13 DEF GiveUp
<1>14. ASSUME NEW s \in Sessions, CloseSock(s) PROVE CopyInv'
  BY <1>14 DEF CloseSock, CloseCopy
<1>15. ASSUME NEW s \in Sessions, LastLook(s) PROVE CopyInv'
  BY <1>15 DEF LastLook
<1>16. ASSUME NEW s \in Sessions, ProxyEnds(s) PROVE CopyInv'
  BY <1>16 DEF ProxyEnds
<1>17. ASSUME NEW s \in Sessions, UpStopped(s) PROVE CopyInv'
  BY <1>17 DEF UpStopped
<1>18. ASSUME NEW s \in Sessions, UpBreaks(s) PROVE CopyInv'
  BY <1>18 DEF UpBreaks
<1>19. ASSUME NEW s \in Sessions, Fail(s) PROVE CopyInv'
  BY <1>19 DEF Fail
<1>20. CASE UNCHANGED vars
  BY <1>20 DEF vars
<1> QED
  BY <1>1, <1>2, <1>3, <1>4, <1>5, <1>6, <1>7, <1>8, <1>9, <1>10,
     <1>11, <1>12, <1>13, <1>14, <1>15, <1>16, <1>17, <1>18, <1>19, <1>20
     DEF Next, Works, UiGoesOn

\* Where a worker's handle must be in the slot, or in Disconnect's hand.
Watched == Waiting \cup {"last", "fail"}

\* A worker that only goes on, its socket as it was, leaves every handle in the
\* hands it was in; it may clear its slot on its way to a place where nobody looks.
LEMMA GoesOn ==
  ASSUME TypeOK, HeldInv, NEW s \in Sessions, NEW p, UNCHANGED <<sock, stop, owner, ui>>,
         wpc' = [wpc EXCEPT ![s] = p], wpc[s] # "ended",
         slot' = slot \/ slot' = [slot EXCEPT ![s] = 0],
         p \in Watched =>
           slot' = slot /\ (wpc[s] \in Watched \/ \A h \in Handles : owner[h] # s)
  PROVE  HeldInv'
<1> USE DEF HeldInv, Watched
<1>1. /\ wpc'[s] = p
      /\ \A t \in Sessions : t # s => wpc'[t] = wpc[t] /\ slot'[t] = slot[t]
  BY DEF TypeOK
<1>2. /\ owner' = owner /\ sock' = sock /\ stop' = stop
      /\ upc' = upc /\ target' = target /\ taken' = taken
  BY DEF ui
<1>3. \A t \in Sessions, h \in Handles : InHand(t, h)' <=> InHand(t, h)
  BY <1>2 DEF InHand
<1>4. ASSUME NEW t \in Sessions, NEW h \in Handles, owner'[h] = t
      PROVE  sock'[t] = h \/ (wpc'[t] = "ended" /\ InHand(t, h)')
  BY <1>1, <1>2, <1>3, <1>4
<1>5. ASSUME NEW t \in Sessions, NEW h \in Handles, wpc'[t] \in Watched, owner'[h] = t
      PROVE  slot'[t] = h \/ InHand(t, h)'
  <2>1. CASE t = s
    BY <1>1, <1>2, <1>3, <1>5, <2>1
  <2>2. CASE t # s
    BY <1>1, <1>2, <1>3, <1>5, <2>2
  <2> QED
    BY <2>1, <2>2
<1> QED
  BY <1>2, <1>3, <1>4, <1>5

\* No step leaves a handle that nobody will close.
LEMMA HeldStep == TypeOK /\ CopyInv /\ HeldInv /\ [Next]_vars => HeldInv'
<1> SUFFICES ASSUME TypeOK, CopyInv, HeldInv, [Next]_vars PROVE HeldInv'
  OBVIOUS
<1> USE ConnectAssumption DEF TypeOK, CopyInv, HeldInv, InHand, Waiting, Without, With, Handles, Goto, Close, worker, ui
<1>1. CASE Exchange
  BY <1>1 DEF Exchange
<1>2. CASE CloseTaken
  <2>1. \A h \in Handles : owner'[h] # "none" => owner'[h] = owner[h] /\ h # taken
    BY <1>2 DEF CloseTaken
  <2>2. upc' # "close" /\ upc # "idle"
    BY <1>2 DEF CloseTaken
  <2>3. \A t \in Sessions, h \in Handles : owner'[h] = t => owner[h] = t /\ ~InHand(t, h)
    BY <2>1
  <2> QED
    BY <1>2, <2>2, <2>3 DEF CloseTaken
<1>3. CASE Join
  BY <1>3 DEF Join
<1>4. ASSUME NEW s \in Sessions, Start(s) PROVE HeldInv'
  BY <1>4 DEF Start
<1>5. ASSUME NEW s \in Sessions, Disconnect(s) PROVE HeldInv'
  BY <1>5 DEF Disconnect
<1>6. ASSUME NEW s \in Sessions, Resolve(s) PROVE HeldInv'
  <2>1. wpc[s] = "resolve" /\ wpc' = [wpc EXCEPT ![s] = "next"]
        /\ UNCHANGED <<sock, slot, stop, owner, ui>>
    BY <1>6 DEF Resolve
  <2>2. \A h \in Handles : owner[h] # s
    BY <2>1
  <2> HIDE DEF HeldInv
  <2> QED
    BY <2>1, <2>2, GoesOn
<1>7. ASSUME NEW s \in Sessions, NoAddress(s) PROVE HeldInv'
  <2>1. wpc[s] = "resolve" /\ wpc' = [wpc EXCEPT ![s] = "fail"]
        /\ UNCHANGED <<sock, slot, stop, owner, ui>>
    BY <1>7 DEF NoAddress
  <2>2. \A h \in Handles : owner[h] # s
    BY <2>1
  <2> HIDE DEF HeldInv
  <2> QED
    BY <2>1, <2>2, GoesOn
<1>8. ASSUME NEW s \in Sessions, NextAddress(s) PROVE HeldInv'
  <2>1. \A h \in Handles : owner[h] # s
    BY <1>8 DEF NextAddress
  <2>2. PICK p \in {"socket", "fail"} : wpc[s] = "next" /\ wpc' = [wpc EXCEPT ![s] = p]
    BY <1>8 DEF NextAddress
  <2>3. UNCHANGED <<sock, slot, stop, owner, ui>>
    BY <1>8 DEF NextAddress
  <2> HIDE DEF HeldInv
  <2> QED
    BY <2>1, <2>2, <2>3, GoesOn
<1>9. ASSUME NEW s \in Sessions, Create(s) PROVE HeldInv'
  <2>1. PICK h \in Handles : /\ owner[h] = "none" /\ owner' = [owner EXCEPT ![h] = s]
                             /\ sock' = [sock EXCEPT ![s] = h]
    BY <1>9 DEF Create
  <2>2. /\ wpc[s] = "socket" /\ wpc' = [wpc EXCEPT ![s] = "publish"]
        /\ slot' = slot /\ stop' = stop /\ upc' = upc /\ target' = target /\ taken' = taken
    BY <1>9 DEF Create
  <2>3. \A g \in Handles : owner[g] # s
    BY <2>2
  <2>4. \A t \in Sessions, g \in Handles :
          owner'[g] = t => (t = s /\ g = h) \/ (t # s /\ owner[g] = t)
    BY <2>1, <2>3
  <2>5. /\ sock'[s] = h /\ wpc'[s] = "publish"
        /\ \A t \in Sessions : t # s => wpc'[t] = wpc[t] /\ sock'[t] = sock[t]
    BY <2>1, <2>2
  <2> QED
    BY <2>2, <2>4, <2>5
<1>10. ASSUME NEW s \in Sessions, CreateFails(s) PROVE HeldInv'
  <2>1. wpc[s] = "socket" /\ wpc' = [wpc EXCEPT ![s] = "next"]
        /\ UNCHANGED <<sock, slot, stop, owner, ui>>
    BY <1>10 DEF CreateFails
  <2>2. \A h \in Handles : owner[h] # s
    BY <2>1
  <2> HIDE DEF HeldInv
  <2> QED
    BY <2>1, <2>2, GoesOn
<1>11. ASSUME NEW s \in Sessions, Publish(s) PROVE HeldInv'
  BY <1>11 DEF Publish, Store
<1>12. ASSUME NEW s \in Sessions, WaitEnds(s) PROVE HeldInv'
  <2>1. PICK p \in {"giveUp", "last"} : wpc[s] = "wait" /\ wpc' = [wpc EXCEPT ![s] = p]
    BY <1>12 DEF WaitEnds
  <2>2. UNCHANGED <<sock, slot, stop, owner, ui>>
    BY <1>12 DEF WaitEnds
  <2> HIDE DEF HeldInv
  <2> QED
    BY <2>1, <2>2, GoesOn DEF Watched
<1>13. ASSUME NEW s \in Sessions, GiveUp(s) PROVE HeldInv'
  <2>1. PICK p \in {"closeOne", "closeLast"} :
          wpc[s] \in {"giveUp", "abandon"} /\ wpc' = [wpc EXCEPT ![s] = p]
    BY <1>13 DEF GiveUp
  <2>2. UNCHANGED <<sock, stop, owner, ui>> /\ slot' = [slot EXCEPT ![s] = 0]
    BY <1>13 DEF GiveUp
  <2> HIDE DEF HeldInv
  <2> QED
    BY <2>1, <2>2, GoesOn DEF Watched
<1>14. ASSUME NEW s \in Sessions, CloseSock(s) PROVE HeldInv'
  <2>1. PICK p \in {"next", "fail"} :
          wpc[s] \in {"closeOne", "closeLast"} /\ wpc' = [wpc EXCEPT ![s] = p]
    BY <1>14 DEF CloseSock
  <2>2. /\ sock' = [sock EXCEPT ![s] = 0] /\ owner' = [owner EXCEPT ![sock[s]] = "none"]
        /\ UNCHANGED <<slot, stop, ui>>
    BY <1>14 DEF CloseSock, CloseCopy
  <2>3. \A t \in Sessions, h \in Handles : owner'[h] = t => owner[h] = t /\ h # sock[s]
    BY <2>2
  <2>4. \A h \in Handles : owner'[h] # s
    BY <2>1, <2>3
  <2>5. \A t \in Sessions : t # s => wpc'[t] = wpc[t] /\ sock'[t] = sock[t]
    BY <2>1, <2>2
  <2>6. \A t \in Sessions, h \in Handles : owner'[h] = t => t # s /\ owner[h] = t
    BY <2>3, <2>4
  <2>7. slot' = slot /\ stop' = stop /\ upc' = upc /\ target' = target /\ taken' = taken
    BY <2>2
  <2>8. ASSUME NEW t \in Sessions, NEW h \in Handles, owner'[h] = t
        PROVE  /\ sock'[t] = h \/ (wpc'[t] = "ended" /\ InHand(t, h)')
               /\ wpc'[t] \in Watched => slot'[t] = h \/ InHand(t, h)'
    <3>1. t # s /\ owner[h] = t /\ wpc'[t] = wpc[t] /\ sock'[t] = sock[t]
      BY <2>5, <2>6, <2>8
    <3>2. InHand(t, h)' <=> InHand(t, h)
      BY <2>7
    <3> QED
      BY <2>7, <3>1, <3>2 DEF Watched
  <2> QED
    BY <2>7, <2>8 DEF Watched
<1>15. ASSUME NEW s \in Sessions, LastLook(s) PROVE HeldInv'
  <2>1. PICK p \in {"proxy", "abandon"} : wpc[s] = "last" /\ wpc' = [wpc EXCEPT ![s] = p]
    BY <1>15 DEF LastLook
  <2>2. UNCHANGED <<sock, slot, stop, owner, ui>>
    BY <1>15 DEF LastLook
  <2> HIDE DEF HeldInv
  <2> QED
    BY <2>1, <2>2, GoesOn DEF Watched
<1>16. ASSUME NEW s \in Sessions, ProxyEnds(s) PROVE HeldInv'
  <2>1. PICK p \in {"up", "abandon"} : wpc[s] = "proxy" /\ wpc' = [wpc EXCEPT ![s] = p]
    BY <1>16 DEF ProxyEnds
  <2>2. UNCHANGED <<sock, slot, stop, owner, ui>>
    BY <1>16 DEF ProxyEnds
  <2> HIDE DEF HeldInv
  <2> QED
    BY <2>1, <2>2, GoesOn DEF Watched
<1>17. ASSUME NEW s \in Sessions, UpStopped(s) PROVE HeldInv'
  <2>1. wpc[s] = "up" /\ wpc' = [wpc EXCEPT ![s] = "fail"]
        /\ UNCHANGED <<sock, slot, stop, owner, ui>>
    BY <1>17 DEF UpStopped
  <2> HIDE DEF HeldInv
  <2> QED
    BY <2>1, GoesOn DEF Watched
<1>18. ASSUME NEW s \in Sessions, UpBreaks(s) PROVE HeldInv'
  <2>1. wpc[s] = "up" /\ wpc' = [wpc EXCEPT ![s] = "fail"]
        /\ UNCHANGED <<sock, slot, stop, owner, ui>>
    BY <1>18 DEF UpBreaks
  <2> HIDE DEF HeldInv
  <2> QED
    BY <2>1, GoesOn DEF Watched
<1>19. ASSUME NEW s \in Sessions, Fail(s) PROVE HeldInv'
  <2>1. \A h \in Handles : owner'[h] # "none" => owner'[h] = owner[h]
    BY <1>19 DEF Fail
  <2>2. \A h \in Handles : owner'[h] = s => InHand(s, h)
    BY <1>19 DEF Fail
  <2>3. wpc' = [wpc EXCEPT ![s] = "ended"] /\ sock' = [sock EXCEPT ![s] = 0]
          /\ slot' = [slot EXCEPT ![s] = 0]
    BY <1>19 DEF Fail
  <2>4. ASSUME NEW t \in Sessions, NEW h \in Handles, owner'[h] = t
        PROVE  sock'[t] = h \/ (wpc'[t] = "ended" /\ InHand(t, h)')
    <3>1. CASE t = s
      BY <1>19, <2>2, <2>3, <2>4, <3>1 DEF Fail
    <3>2. CASE t # s
      BY <1>19, <2>1, <2>3, <2>4, <3>2 DEF Fail
    <3> QED
      BY <3>1, <3>2
  <2>5. ASSUME NEW t \in Sessions, NEW h \in Handles, owner'[h] = t,
               wpc'[t] \in Waiting \cup {"last", "fail"}
        PROVE  slot'[t] = h \/ InHand(t, h)'
    <3>1. t # s
      BY <2>3, <2>5
    <3> QED
      BY <1>19, <2>1, <2>3, <2>5, <3>1 DEF Fail
  <2> QED
    BY <1>19, <2>4, <2>5 DEF Fail
<1>20. CASE UNCHANGED vars
  BY <1>20 DEF vars
<1> QED
  BY <1>1, <1>2, <1>3, <1>4, <1>5, <1>6, <1>7, <1>8, <1>9, <1>10,
     <1>11, <1>12, <1>13, <1>14, <1>15, <1>16, <1>17, <1>18, <1>19, <1>20
     DEF Next, Works, UiGoesOn

LEMMA InvAlways == Spec => []Inv
<1>1. Inv /\ [Next]_vars => Inv'
  BY TypeStep, CopyStep, HeldStep DEF Inv
<1> QED
  BY InvInit, <1>1, PTL DEF Spec

\* The connect path keeps its types, in particular the count of addresses left.
THEOREM ConnectTypes == Spec => []TypeOK
<1>1. Inv => TypeOK
  BY DEF Inv
<1> QED
  BY InvAlways, <1>1, PTL

\* ConnectAddr, ConnectTransport, fail and Disconnect between them: whoever wins
\* the exchange of the slot, every way an attempt can end closes the worker's only
\* socket, for any number of sessions, addresses and handles.
THEOREM NothingLeaks == Spec => []NoHandleLeaks
<1>1. Inv => NoHandleLeaks
  <2> SUFFICES ASSUME Inv, NEW s \in Sessions
               PROVE  /\ Cardinality(Holds(s)) <= 1
                      /\ wpc[s] = "ended" /\ (upc = "idle" \/ target # s) => Holds(s) = {}
    BY DEF NoHandleLeaks
  <2> USE DEF Inv, Holds
  <2>1. wpc[s] = "ended" => \A h \in Handles : owner[h] = s => InHand(s, h)
    BY DEF TypeOK, CopyInv, HeldInv, Without, Handles
  <2>2. \E x : Holds(s) \subseteq {x}
    <3>1. CASE wpc[s] = "ended"
      <4>1. Holds(s) \subseteq {taken}
        BY <2>1, <3>1 DEF InHand
      <4> QED
        BY <4>1
    <3>2. CASE wpc[s] # "ended"
      <4>1. Holds(s) \subseteq {sock[s]}
        BY <3>2 DEF HeldInv
      <4> QED
        BY <4>1
    <3> QED
      BY <3>1, <3>2
  <2>3. Cardinality(Holds(s)) <= 1
    <3>1. PICK x : Holds(s) \subseteq {x}
      BY <2>2
    <3>2. IsFiniteSet({x}) /\ Cardinality({x}) = 1
      BY FS_Singleton
    <3>3. Cardinality(Holds(s)) <= Cardinality({x})
      BY <3>1, <3>2, FS_Subset
    <3> QED
      BY <3>2, <3>3
  <2>4. wpc[s] = "ended" /\ (upc = "idle" \/ target # s) => Holds(s) = {}
    BY <2>1 DEF InHand
  <2> QED
    BY <2>3, <2>4
<1> QED
  BY InvAlways, <1>1, PTL

\* Disconnect's exchange of the slot finds the socket a worker waits on, and a
\* worker that published too late to be found has its stop flag set.
THEOREM StopReachesTheSocket == Spec => []DisconnectFindsIt
<1>1. Inv => DisconnectFindsIt
  BY DEF Inv, TypeOK, CopyInv, HeldInv, InHand, DisconnectFindsIt, With, Waiting,
         Handles
<1> QED
  BY InvAlways, <1>1, PTL

\* The three together, as the run checks them.
THEOREM HandlesAreKept == Spec => []HandlesKept
  BY ConnectTypes, NothingLeaks, StopReachesTheSocket, PTL DEF HandlesKept

----------------------------------------------------------------------------
(* The trust decision. *)

\* Every step of KnownHosts is one of Connect, or leaves Connect alone.
LEMMA KhStep == [KhNext]_khVars => [Next]_vars
<1>1. KhUi => [Next]_vars
  BY DEF KhUi, ReleasePrompt, KhExchange, KhClose, Next, UiGoesOn
<1>2. ASSUME NEW s \in Sessions, KhWorks(s) PROVE [Next]_vars
  BY <1>2 DEF KhWorks, Dials, Load, Handshake, Presents, Answered, Stopped, Next, Works
<1>3. ASSUME NEW s \in Sessions, KhStart(s) \/ KhDisconnect(s) \/ Breaks(s)
      PROVE  [Next]_vars
  BY <1>3 DEF KhStart, KhDisconnect, Breaks, Next
<1>4. ASSUME NEW s \in Sessions, NEW yes \in BOOLEAN, Answer(s, yes) PROVE [Next]_vars
  BY <1>4 DEF Answer
<1>5. UNCHANGED khVars => UNCHANGED vars
  BY DEF khVars
<1> QED
  BY <1>1, <1>2, <1>3, <1>4, <1>5 DEF KhNext

\* The trust decision implements Connect: what Connect promises holds here too.
THEOREM ConnectStands == KhSpec => Spec
<1>1. KhInit => Init
  BY DEF KhInit
<1> QED
  BY <1>1, KhStep, PTL DEF KhSpec, Spec

\* No socket leaks whatever the keys, the file and the answers are.
THEOREM HandlesStayKept == KhSpec => []HandlesKept
  BY ConnectStands, HandlesAreKept

\* The worker is on its way to a transport.
Dialing == {"resolve", "next", "socket", "publish", "wait", "giveUp", "closeOne", "last",
            "proxy"}

KhTypeOK ==
  /\ listed \in [Sessions -> SUBSET Keys]
  /\ known \in SUBSET Keys /\ vouched \in SUBSET Keys
  /\ at \in [Sessions -> {"out", "key", "prompt", "auth"}]
  /\ loaded \in [Sessions -> SUBSET Keys] /\ key \in [Sessions -> Keys \cup {"none"}]
  /\ decided \in [Sessions -> BOOLEAN] /\ accepted \in [Sessions -> BOOLEAN]
  /\ \A s \in Sessions : at[s] = "prompt" => key[s] \in Keys

\* Accepted holds only of an answer to this connection's question, which is asked
\* only when there is neither a list nor an entry, and then vouches for the key.
AnswerInv ==
  /\ \A s \in Sessions : at[s] # "out" => wpc[s] = "up"
  /\ \A s \in Sessions : at[s] = "key" \/ wpc[s] \in Dialing => ~accepted[s]
  /\ \A s \in Sessions : at[s] = "prompt" => loaded[s] = {} /\ listed[s] = {}
  /\ \A s \in Sessions : at[s] = "prompt" /\ accepted[s] => key[s] \in vouched

\* What a worker has read was vouched for when it was read, and nobody takes that back.
ReadInv == \A s \in Sessions : loaded[s] \subseteq vouched

KhInv == TypeOK /\ KhTypeOK /\ AnswerInv /\ ReadInv /\ TrustHeld

LEMMA KhInvInit == KhInit => KhInv
<1> SUFFICES ASSUME KhInit PROVE KhInv
  OBVIOUS
<1>1. TypeOK
  BY InvInit DEF KhInit, Inv
<1>2. KhTypeOK
  BY HostKeyAssumption DEF KhInit, KhTypeOK
<1>3. AnswerInv /\ ReadInv /\ TrustHeld
  BY DEF KhInit, AnswerInv, ReadInv, TrustHeld
<1> QED
  BY <1>1, <1>2, <1>3 DEF KhInv

\* The verdicts, by what a worker has read and what its profile lists.
LEMMA Verdicts ==
  ASSUME NEW s \in Sessions, NEW k \in Keys
  PROVE  /\ Verdict(s, k) = "Accept" => IF listed[s] # {} THEN k \in listed[s]
                                        ELSE k \in loaded[s]
         /\ Verdict(s, k) = "Prompt" => listed[s] = {} /\ loaded[s] = {}
  BY DEF Verdict, DecideHostKey, Lookup

\* Steps in which the trust does not change keep it; a worker's own steps change
\* where it is only among the places before the transport.
LEMMA QuietStep ==
  ASSUME KhInv, UNCHANGED <<trust, listed>>,
         \A s \in Sessions : /\ wpc'[s] \in Dialing => wpc[s] \in Dialing
                             /\ wpc[s] = "up" => wpc'[s] = "up"
  PROVE  (KhTypeOK /\ AnswerInv /\ ReadInv /\ TrustHeld)'
  BY DEF KhInv, KhTypeOK, AnswerInv, ReadInv, TrustHeld, trust

LEMMA KhInvStep == KhInv /\ [KhNext]_khVars => KhInv'
<1> SUFFICES ASSUME KhInv, [KhNext]_khVars PROVE KhInv'
  OBVIOUS
<1> DEFINE Rest == KhTypeOK /\ AnswerInv /\ ReadInv /\ TrustHeld
<1>t. TypeOK'
  BY KhStep, TypeStep DEF KhInv
<1> SUFFICES Rest'
  BY <1>t DEF KhInv
<1>1. CASE KhUi
  <2>1. CASE ReleasePrompt
    BY <1>1, <2>1 DEF ReleasePrompt, KhInv, TypeOK, KhTypeOK, AnswerInv, ReadInv, TrustHeld, vars, worker
  <2>2. CASE KhExchange \/ KhClose
    <3>1. UNCHANGED <<trust, listed, wpc>>
      BY <2>2 DEF KhExchange, KhClose, Exchange, CloseTaken, Join, worker
    <3> QED
      BY <3>1, QuietStep
  <2> QED
    BY <1>1, <2>1, <2>2 DEF KhUi
<1>2. ASSUME NEW s \in Sessions, KhStart(s) PROVE Rest'
  BY <1>2 DEF KhStart, Start, ForgetAnswer, KhInv, TypeOK, KhTypeOK, AnswerInv, ReadInv, TrustHeld, Dialing
<1>3. ASSUME NEW s \in Sessions, KhDisconnect(s) PROVE Rest'
  BY <1>3, QuietStep DEF KhDisconnect, Disconnect, worker
<1>4. ASSUME NEW s \in Sessions, Dials(s) PROVE Rest'
  <2>1. \A r \in Sessions : /\ wpc'[r] \in Dialing => wpc[r] \in Dialing
                            /\ wpc[r] = "up" => wpc'[r] = "up"
    BY <1>4 DEF Dials, Resolve, NoAddress, NextAddress, Create, CreateFails, Publish, WaitEnds,
                GiveUp, CloseSock, LastLook, Fail, Goto, Dialing, KhInv, TypeOK
  <2> QED
    BY <1>4, <2>1, QuietStep DEF Dials
<1>5. ASSUME NEW s \in Sessions, Load(s) PROVE Rest'
  <2>1. \A r \in Sessions : /\ wpc'[r] \in Dialing => wpc[r] \in Dialing
                            /\ wpc[r] = "up" => wpc'[r] = "up"
    BY <1>5 DEF Load, ProxyEnds, Dialing, KhInv, TypeOK
  <2>2. wpc[s] \in Dialing
    BY <1>5 DEF Load, ProxyEnds, Dialing
  <2>3. CASE UNCHANGED <<at, loaded>>
    BY <1>5, <2>1, <2>3, QuietStep DEF Load, trust
  <2>4. CASE Place(s, "out", "key")
    <3>1. PICK entries \in {known, {}} : loaded' = [loaded EXCEPT ![s] = entries]
      BY <1>5, <2>4 DEF Load, Place, KhInv, KhTypeOK
    <3> QED
      BY <1>5, <2>1, <2>2, <2>4, <3>1
         DEF Load, Place, KhInv, KhTypeOK, AnswerInv, ReadInv, TrustHeld
  <2> QED
    BY <1>5, <2>3, <2>4 DEF Load
<1>6. ASSUME NEW s \in Sessions, Handshake(s) PROVE Rest'
  <2>1. PICK k \in Keys :
          \/ Verdict(s, k) = "Accept" /\ Place(s, "key", "auth") /\ Presents(s, k)
          \/ Verdict(s, k) = "Prompt" /\ Place(s, "key", "prompt") /\ Presents(s, k)
          \/ Place(s, "key", "out") /\ UpBreaks(s) /\ Forgets(s)
    BY <1>6 DEF Handshake
  <2>2. UNCHANGED <<listed, known, decided, accepted, vouched>> /\ at[s] = "key"
    BY <1>6 DEF Handshake
  <2>3. CASE Verdict(s, k) = "Accept" /\ Place(s, "key", "auth") /\ Presents(s, k)
    <3>1. IF listed[s] # {} THEN k \in listed[s] ELSE k \in loaded[s]
      BY <2>3, Verdicts
    <3> QED
      BY <2>2, <2>3, <3>1 DEF Place, Presents, vars, worker, KhInv, KhTypeOK,
                              AnswerInv, ReadInv, TrustHeld
  <2>4. CASE Verdict(s, k) = "Prompt" /\ Place(s, "key", "prompt") /\ Presents(s, k)
    <3>1. listed[s] = {} /\ loaded[s] = {}
      BY <2>4, Verdicts
    <3> QED
      BY <2>2, <2>4, <3>1 DEF Place, Presents, vars, worker, KhInv, KhTypeOK,
                              AnswerInv, ReadInv, TrustHeld
  <2>5. CASE Place(s, "key", "out") /\ UpBreaks(s) /\ Forgets(s)
    BY <2>2, <2>5 DEF Place, Forgets, UpBreaks, Goto, KhInv, TypeOK, KhTypeOK,
                      AnswerInv, ReadInv, TrustHeld, Dialing
  <2> QED
    BY <2>1, <2>3, <2>4, <2>5
<1>7. ASSUME NEW s \in Sessions, Answered(s) PROVE Rest'
  <2>1. CASE Place(s, "prompt", "out") /\ UpBreaks(s) /\ Forgets(s) /\ UNCHANGED known
    BY <1>7, <2>1 DEF Answered, Place, Forgets, UpBreaks, Goto, KhInv, TypeOK, KhTypeOK,
                      AnswerInv, ReadInv, TrustHeld, Dialing
  <2>2. CASE /\ accepted[s] /\ Place(s, "prompt", "auth") /\ Writes(s)
             /\ UNCHANGED <<vars, loaded, key>>
    <3>1. key[s] \in Keys /\ key[s] \in vouched /\ loaded[s] = {}
      BY <2>2 DEF Place, KhInv, KhTypeOK, AnswerInv
    <3>2. known' \in SUBSET Keys /\ known' \subseteq vouched
      BY <2>2, <3>1 DEF Writes, KhInv, KhTypeOK, TrustHeld
    <3> QED
      BY <1>7, <2>2, <3>1, <3>2 DEF Answered, Place, vars, worker, KhInv, KhTypeOK,
                                    AnswerInv, ReadInv, TrustHeld
  <2> QED
    BY <1>7, <2>1, <2>2 DEF Answered
<1>8. ASSUME NEW s \in Sessions, Stopped(s) \/ Breaks(s) PROVE Rest'
  <2>1. PICK from \in {"key", "auth"} : Place(s, from, "out")
    BY <1>8 DEF Stopped, Breaks, Ends
  <2> QED
    BY <1>8, <2>1 DEF Stopped, Breaks, Ends, UpStopped, UpBreaks, Goto, Place, Forgets,
         KhInv, TypeOK, KhTypeOK, AnswerInv, ReadInv, TrustHeld, Dialing
<1>9. ASSUME NEW s \in Sessions, NEW yes \in BOOLEAN, Answer(s, yes) PROVE Rest'
  <2> USE DEF KhInv
  <2>1. vouched \subseteq vouched' /\ vouched' \in SUBSET Keys
    BY <1>9 DEF Answer, KhTypeOK
  <2>2. wpc' = wpc /\ UNCHANGED <<listed, known, at, loaded, key>>
    BY <1>9 DEF Answer, vars, worker
  <2>3. /\ accepted' \in [Sessions -> BOOLEAN] /\ decided' \in [Sessions -> BOOLEAN]
        /\ at[s] = "prompt" /\ (accepted'[s] => key[s] \in vouched')
        /\ \A r \in Sessions \ {s} : accepted'[r] = accepted[r]
    <3>1. at[s] = "prompt" /\ (yes => key[s] \in vouched')
      BY <1>9 DEF Answer
    <3>2. accepted' = [accepted EXCEPT ![s] = yes] /\ decided' = [decided EXCEPT ![s] = TRUE]
      BY <1>9 DEF Answer
    <3>3. accepted'[s] = yes
      BY <3>2, Zenon DEF KhTypeOK
    <3> QED
      BY <3>1, <3>2, <3>3, Zenon DEF KhTypeOK
  <2>4. KhTypeOK'
    BY <2>1, <2>2, <2>3 DEF KhTypeOK
  <2>5. AnswerInv'
    <3>1. wpc[s] = "up"
      BY <2>3 DEF AnswerInv
    <3> QED
      BY <2>1, <2>2, <2>3, <3>1, Zenon DEF AnswerInv, Dialing
  <2>6. (ReadInv /\ TrustHeld)'
    BY <2>1, <2>2 DEF ReadInv, TrustHeld
  <2> QED
    BY <2>4, <2>5, <2>6
<1>10. CASE UNCHANGED khVars
  BY <1>10, QuietStep DEF khVars, vars, worker
<1> QED
  BY <1>1, <1>2, <1>3, <1>4, <1>5, <1>6, <1>7, <1>8, <1>9, <1>10
     DEF KhNext, KhWorks

\* DecideHostKey, the wait on m_hkCv and the rewriting of known_hosts, for any number
\* of sessions that overlap in any way: credentials go only where the profile, the
\* file as it was read, or the user's own answer to this question says.
THEOREM TrustIsHeld == KhSpec => []TrustHeld
<1>1. KhInv => TrustHeld
  BY DEF KhInv
<1> QED
  BY KhInvInit, KhInvStep, <1>1, PTL DEF KhSpec
=============================================================================
