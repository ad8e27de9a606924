------------------------------ MODULE AppProofs ------------------------------
(***************************************************************************)
(* Proofs about what the app does on its UI thread, in two parts that      *)
(* share nothing.                                                          *)
(*                                                                         *)
(* GuardedSession: automatic reconnect asks when it must, stops where it   *)
(* must and counts as it must, and the tab shows what is so, for every     *)
(* set of limits.                                                          *)
(*                                                                         *)
(* Desk, from the operators of PaneLayout up: what a tab or a pane's id    *)
(* names is what it was given for, no command loses a pane or an exit, and *)
(* the cells of the grid are shared out once and each server is told its   *)
(* share, for every set of windows, profiles and workspaces.               *)
(***************************************************************************)
EXTENDS GuardedSession, Desk, WellFoundedInduction, FiniteSetTheorems, SequenceTheorems, TLAPS


Waits(d) == d.state = "WaitingToReconnect"

\* The machine by itself.
Sound(d) ==
  /\ d \in Guardians
  /\ d.policy.limit > 0 => d.attempt <= d.policy.limit
  /\ Waits(d) \/ d.needConsent => d.episode
  /\ d.needConsent => /\ d.state = "ConnectionLost" /\ d.attempt = 0
                      /\ d.policy.mode = "Ask" /\ d.everConnected /\ ~d.userClosed

\* A worker reports its end last, and is past it then.
ReportsInv ==
  /\ Life!TypeOK
  /\ \A i \in 1 .. Len(reports) :
       reports[i] \in Life!Ends => i = Len(reports) /\ phase \in {"over", "stopped"}

\* A drop is in the queue or may still come.
MayDrop == phase \in Life!Live \/ \E i \in 1 .. Len(reports) : reports[i] \in Life!Ends

\* What bars a reconnect leaves nothing behind that could start one: the machine
\* waits for nothing, and no drop can come that it would answer.
BarInv ==
  /\ barred \in BOOLEAN
  /\ g.userClosed => barred
  /\ barred => ~Waits(g) /\ ~g.needConsent /\ (g.userClosed \/ ~MayDrop)

\* In Ask mode a count above zero within an outage was agreed to.
AskInv ==
  /\ agreed \in BOOLEAN
  /\ g.policy.mode = "Ask" /\ (Waits(g) \/ (g.episode /\ g.attempt # 0)) => agreed

\* The count keeps up with the attempts.  It restarts with an outage, and none can
\* start while attempts of the one before are on the account.
CountInv ==
  /\ tries \in 0 .. g.policy.limit + 2
  /\ g.policy.limit > 0 =>
       /\ tries <= g.attempt + 1
       /\ Waits(g) => tries <= g.attempt
       /\ MayDrop /\ ~g.episode /\ ~g.userClosed => tries = 0

Inv == ReportsInv /\ Sound(g) /\ BarInv /\ AskInv /\ CountInv

----------------------------------------------------------------------------
(* The queue of reports.                                                    *)

LEMMA ClassesAreDropClasses ==
  \A r \in SUBSET Phrases : ClassifyDrop(r) \in DropClasses
  BY DEF ClassifyDrop, DropClasses, Phrases

\* The kinds of report are told apart.
LEMMA KindsDiffer ==
  /\ Life!Prompt \notin Life!Ends /\ Life!Connected \notin Life!Ends
  /\ \A e \in Life!Ends : e.class \in DropClasses
  /\ \A class \in {ClassifyDrop(r) : r \in SUBSET Phrases} :
       Life!EndOf(class) \in Life!Ends
<1>1. \A e \in Life!Ends : e.kind \in {"Closed", "Error"}
  BY DEF Life!Ends
<1>2. \A e \in Life!Ends : e.class \in DropClasses
  BY ClassesAreDropClasses DEF Life!Ends
<1>3. Life!Prompt.kind = "HostKeyPrompt" /\ Life!Connected.kind = "Connected"
  BY DEF Life!Prompt, Life!Connected
<1>4. \A class \in {ClassifyDrop(r) : r \in SUBSET Phrases} :
        Life!EndOf(class) \in Life!Ends
  BY DEF Life!EndOf, Life!Ends
<1> QED
  BY <1>1, <1>2, <1>3, <1>4

LEMMA EndsNowAreEnds == Life!EndsNow \subseteq Life!Ends
<1>1. ClassifyDrop({"hostKey"}) \in {ClassifyDrop(r) : r \in SUBSET Phrases}
  BY DEF Phrases
<1> QED
  BY <1>1, KindsDiffer DEF Life!EndsNow

\* A report appended by a live worker: an end comes last, and only an end may be
\* appended on leaving the live phases.
LEMMA AppendStep ==
  ASSUME ReportsInv, phase \in Life!Live,
         NEW r \in Life!Reports, reports' = Append(reports, r),
         phase' \in Life!Live \cup {"over", "stopped"},
         r \in Life!Ends => phase' \in {"over", "stopped"}
  PROVE  ReportsInv'
<1>1. reports \in Seq(Life!Reports) /\ reports' \in Seq(Life!Reports)
  BY DEF ReportsInv, Life!TypeOK
<1>2. Life!TypeOK'
  BY <1>1 DEF Life!TypeOK, Life!Live
<1>3. \A i \in 1 .. Len(reports) : reports[i] \notin Life!Ends
  BY DEF ReportsInv, Life!Live
<1>4. Len(reports') = Len(reports) + 1 /\ reports'[Len(reports) + 1] = r
  BY <1>1
<1>5. \A i \in 1 .. Len(reports) : reports'[i] = reports[i]
  BY <1>1
<1>6. ASSUME NEW i \in 1 .. Len(reports'), reports'[i] \in Life!Ends
      PROVE  i = Len(reports') /\ phase' \in {"over", "stopped"}
  <2>1. Len(reports) \in Nat
    BY <1>1
  <2>2. i = Len(reports) + 1
    BY <1>3, <1>4, <1>5, <1>6, <2>1
  <2> QED
    BY <1>4, <1>6, <2>2
<1> QED
  BY <1>2, <1>6 DEF ReportsInv

\* Taking a report brings no drop closer that was not to come, and after the end
\* nothing comes.
LEMMA TakeStep ==
  ASSUME ReportsInv, Life!Take
  PROVE  /\ ReportsInv'
         /\ MayDrop' => MayDrop
         /\ Head(reports) \in Life!Ends => MayDrop /\ ~MayDrop'
<1>1. /\ reports \in Seq(Life!Reports) /\ reports # <<>>
      /\ reports' = Tail(reports) /\ phase' = phase
  BY DEF ReportsInv, Life!TypeOK, Life!Take
<1>2. /\ Len(reports) \in Nat \ {0} /\ Len(reports') = Len(reports) - 1
      /\ reports' \in Seq(Life!Reports)
      /\ Head(reports) = reports[1]
  BY <1>1
<1>3. \A i \in 1 .. Len(reports') : reports'[i] = reports[i + 1]
  BY <1>1
<1>4. Life!TypeOK'
  <2>1. phase \in Life!Live \cup {"stopped", "over"} /\ reports' \in Seq(Life!Reports)
    BY <1>2 DEF ReportsInv, Life!TypeOK
  <2> QED
    BY <1>1, <2>1 DEF Life!TypeOK, Life!Live
<1>5. \A i \in 1 .. Len(reports') : i + 1 \in 1 .. Len(reports)
  BY <1>2
<1>6. ReportsInv'
  <2> SUFFICES ASSUME NEW i \in 1 .. Len(reports'), reports'[i] \in Life!Ends
               PROVE  i = Len(reports') /\ phase' \in {"over", "stopped"}
    BY <1>4 DEF ReportsInv
  <2>1. i + 1 = Len(reports) /\ phase \in {"over", "stopped"}
    BY <1>3, <1>5 DEF ReportsInv
  <2>2. i = Len(reports')
    BY <1>2, <2>1
  <2> QED
    BY <1>1, <2>1, <2>2
<1>7. MayDrop' => MayDrop
  BY <1>1, <1>3, <1>5 DEF MayDrop
<1>8. ASSUME Head(reports) \in Life!Ends PROVE MayDrop /\ ~MayDrop'
  <2>1. 1 \in 1 .. Len(reports) /\ reports[1] \in Life!Ends
    BY <1>2, <1>8
  <2>2. 1 = Len(reports) /\ phase \in {"over", "stopped"}
    BY <2>1 DEF ReportsInv
  <2> QED
    BY <1>1, <1>2, <2>1, <2>2 DEF MayDrop, Life!Live
<1> QED
  BY <1>6, <1>7, <1>8

\* The worker by itself and the UI's answer: no drop may come that could not.
LEMMA WorkerStep ==
  ASSUME ReportsInv, Life!Worker PROVE ReportsInv' /\ (MayDrop' => MayDrop)
<1>1. CASE Life!Ask
  <2>1. ReportsInv'
    BY <1>1, AppendStep, KindsDiffer DEF Life!Ask, Life!Live, Life!Reports
  <2> QED
    BY <1>1, <2>1 DEF Life!Ask, MayDrop, Life!Live
<1>2. CASE Life!Establish
  <2>1. ReportsInv'
    BY <1>2, AppendStep, KindsDiffer DEF Life!Establish, Life!Live, Life!Reports
  <2> QED
    BY <1>2, <2>1 DEF Life!Establish, MayDrop, Life!Live
<1>3. CASE Life!End
  <2>1. ReportsInv'
    BY <1>3, AppendStep, EndsNowAreEnds DEF Life!End, Life!Live, Life!Reports
  <2> QED
    BY <1>3, <2>1 DEF Life!End, MayDrop
<1>4. CASE Life!Finish
  BY <1>4 DEF Life!Finish, ReportsInv, MayDrop, Life!TypeOK, Life!Live
<1> QED
  BY <1>1, <1>2, <1>3, <1>4 DEF Life!Worker

LEMMA AnswerStep ==
  ASSUME ReportsInv, NEW yes \in BOOLEAN, Life!Answer(yes)
  PROVE  ReportsInv' /\ (MayDrop' => MayDrop)
  BY DEF Life!Answer, ReportsInv, MayDrop, Life!TypeOK, Life!Live

LEMMA HaltStep ==
  ASSUME ReportsInv, Life!Halt PROVE ReportsInv'
<1>1. CASE phase \in Life!Live
  BY <1>1, AppendStep, EndsNowAreEnds DEF Life!Halt, Life!Live, Life!Reports
<1>2. CASE phase \notin Life!Live
  BY <1>2 DEF Life!Halt, ReportsInv, Life!TypeOK, Life!Live
<1> QED
  BY <1>1, <1>2

LEMMA BeginStep ==
  ASSUME ReportsInv, Life!Begin PROVE ReportsInv'
  BY DEF Life!Begin, ReportsInv, Life!TypeOK, Life!Live

----------------------------------------------------------------------------
(* The machine.                                                             *)

Same(d, e) ==
  e.policy = d.policy /\ e.everConnected = d.everConnected /\ e.userClosed = d.userClosed

LEMMA PolicyOf ==
  ASSUME NEW d \in Guardians
  PROVE  /\ d.policy \in Policies /\ d.policy.limit \in Nat /\ d.attempt \in Nat
         /\ d.policy.mode \in Modes
  BY GuardianAssumption DEF Guardians, Policies

LEMMA StopEnds ==
  ASSUME NEW d, Sound(d), NEW s \in GuardianStates \ {"WaitingToReconnect"}
  PROVE  LET e == Stop(d, s)
         IN /\ Sound(e) /\ Same(d, e) /\ e.attempt = d.attempt
            /\ ~Waits(e) /\ ~e.needConsent /\ ~e.episode
  BY DEF Stop, Sound, Same, Waits, Guardians

\* Schedule counts the attempt and waits, or gives up with the count at the limit.
LEMMA ScheduleCounts ==
  ASSUME NEW d, Sound(d), d.episode, ~d.needConsent
  PROVE  LET e == Schedule(d)
         IN /\ Sound(e) /\ Same(d, e) /\ ~e.needConsent
            /\ Waits(e) => e.episode /\ (d.policy.limit > 0 => e.attempt = d.attempt + 1)
            /\ ~Waits(e) => ~e.episode
            /\ d.policy.limit > 0 => e.attempt >= d.attempt
<1> DEFINE e == Schedule(d)
<1>1. d \in Guardians /\ (d.policy.limit > 0 => d.attempt <= d.policy.limit)
  BY DEF Sound
<1>2. d.policy.limit \in Nat /\ d.attempt \in Nat
  BY <1>1, PolicyOf
<1>3. CASE LimitReached(d)
  <2> DEFINE f == [d EXCEPT !.attempt = d.policy.limit]
  <2>1. f \in Guardians /\ Same(d, f) /\ ~f.needConsent /\ f.state = d.state
        /\ f.episode /\ f.attempt = d.policy.limit
    BY <1>1, <1>2 DEF Guardians, Same
  <2>2. Sound(f)
    BY <2>1, <1>2 DEF Sound, Same
  <2>3. e = Stop(f, "GaveUp") /\ "GaveUp" \in GuardianStates \ {"WaitingToReconnect"}
    BY <1>3 DEF Schedule, GuardianStates
  <2>4. /\ Sound(e) /\ Same(f, e) /\ e.attempt = f.attempt
        /\ ~Waits(e) /\ ~e.needConsent /\ ~e.episode
    BY <2>2, <2>3, StopEnds
  <2> HIDE DEF f, e
  <2> QED
    BY <2>1, <2>4, <1>1, <1>2 DEF Same, e
<1>4. CASE ~LimitReached(d)
  <2>1. e = [d EXCEPT !.attempt = NextAttempt(d), !.nextAt = "later",
                      !.state = "WaitingToReconnect"]
    BY <1>4 DEF Schedule
  <2>2. NextAttempt(d) \in Nat /\ (d.policy.limit > 0 => NextAttempt(d) = d.attempt + 1)
    BY <1>2 DEF NextAttempt
  <2>3. d.policy.limit > 0 => NextAttempt(d) <= d.policy.limit
    BY <1>2, <1>4, <2>2 DEF LimitReached
  <2>4. /\ e \in Guardians /\ Same(d, e) /\ ~e.needConsent /\ e.episode /\ Waits(e)
        /\ e.attempt = NextAttempt(d)
    BY <1>1, <2>1, <2>2 DEF Guardians, GuardianStates, Same, Waits
  <2> HIDE DEF e
  <2>5. Sound(e)
    BY <2>3, <2>4 DEF Sound, Same
  <2> QED
    BY <1>2, <2>2, <2>4, <2>5 DEF e
<1> QED
  BY <1>3, <1>4

\* OnDrop: only a network fault is answered with a wait or a question, a wait in Ask
\* mode only where the count shows an answer given before, and the count goes on
\* within an outage.
LEMMA DropOutcome ==
  ASSUME NEW d, Sound(d), NEW c \in DropClasses
  PROVE  LET e == OnDrop(d, c)
         IN /\ Sound(e) /\ Same(d, e)
            /\ Waits(e) \/ e.needConsent => Arms(d) /\ c = "Transient"
            /\ e.policy.mode = "Ask" /\ (Waits(e) \/ (e.episode /\ e.attempt # 0))
                 => d.episode /\ d.attempt # 0
            /\ d.policy.limit > 0 /\ (d.episode \/ ~Arms(d)) => e.attempt >= d.attempt
            /\ d.policy.limit > 0 /\ d.episode /\ Waits(e) => e.attempt >= d.attempt + 1
<1> DEFINE e == OnDrop(d, c)
<1>1. d \in Guardians
  BY DEF Sound
<1>2. d.policy.limit \in Nat /\ d.attempt \in Nat
  BY <1>1, PolicyOf
<1>3. CASE ~Arms(d)
  <2>1. e = [d EXCEPT !.state = "Idle"]
    BY <1>3 DEF OnDrop
  <2>2. ~d.needConsent
    BY <1>3 DEF Sound, Arms
  <2>3. /\ e \in Guardians /\ Same(d, e) /\ ~Waits(e) /\ ~e.needConsent
        /\ e.episode = d.episode /\ e.attempt = d.attempt
    BY <1>1, <2>1, <2>2 DEF Guardians, GuardianStates, Same, Waits
  <2> HIDE DEF e
  <2>4. Sound(e)
    BY <2>3 DEF Sound, Same
  <2> QED
    BY <1>2, <2>3, <2>4 DEF e
<1>4. CASE Arms(d)
  <2> DEFINE o == OpenEpisode(d)
  <2>1. /\ o \in Guardians /\ Same(d, o) /\ o.episode /\ o.needConsent = d.needConsent
        /\ o.state = d.state /\ (d.episode => o = d) /\ (~d.episode => o.attempt = 0)
    BY <1>1 DEF OpenEpisode, Guardians, Same
  <2>2. Sound(o)
    BY <2>1, <1>2 DEF Sound, Same, Waits
  <2>3. e = Decide(o, c)
    BY <1>4 DEF OnDrop
  <2> HIDE DEF o
  <2>4. o.policy = d.policy /\ o.attempt \in Nat
    BY <2>1, PolicyOf DEF Same
  <2>5. CASE \E s \in GuardianStates \ {"WaitingToReconnect"} : e = Stop(o, s)
    <3>1. PICK s \in GuardianStates \ {"WaitingToReconnect"} : e = Stop(o, s)
      BY <2>5
    <3>2. /\ Sound(e) /\ Same(o, e) /\ e.attempt = o.attempt
          /\ ~Waits(e) /\ ~e.needConsent /\ ~e.episode
      BY <2>2, <3>1, StopEnds
    <3> HIDE DEF e
    <3> QED
      BY <1>2, <1>4, <2>1, <2>4, <3>2 DEF Same, e
  <2>6. CASE /\ c = "Transient" /\ MustAsk(o)
             /\ e = [o EXCEPT !.state = "ConnectionLost", !.needConsent = TRUE]
    <3>1. /\ e \in Guardians /\ Same(o, e) /\ e.needConsent /\ e.state = "ConnectionLost"
          /\ e.attempt = 0 /\ e.episode /\ o.attempt = 0 /\ e.policy.mode = "Ask"
      BY <2>1, <2>6 DEF Guardians, GuardianStates, Same, MustAsk
    <3> HIDE DEF e
    <3>2. Sound(e) /\ ~Waits(e)
      BY <1>2, <1>4, <2>1, <3>1 DEF Sound, Same, Arms, Waits
    <3> QED
      BY <1>2, <1>4, <2>1, <2>6, <3>1, <3>2 DEF Same, e
  <2>7. CASE c = "Transient" /\ ~MustAsk(o) /\ e = Schedule(o)
    <3>1. ~o.needConsent
      BY <2>2, <2>7 DEF Sound, MustAsk
    <3>2. /\ Sound(e) /\ Same(o, e) /\ ~e.needConsent
          /\ Waits(e) => e.episode /\ (o.policy.limit > 0 => e.attempt = o.attempt + 1)
          /\ ~Waits(e) => ~e.episode
          /\ o.policy.limit > 0 => e.attempt >= o.attempt
      BY <2>1, <2>2, <2>7, <3>1, ScheduleCounts
    <3>3. e.policy.mode = "Ask" => o.attempt # 0
      BY <2>7, <3>2 DEF MustAsk, Same
    <3> HIDE DEF e
    <3> QED
      BY <1>2, <1>4, <2>1, <2>4, <2>7, <3>2, <3>3 DEF Same, e
  <2>8. CASE c \in {"HostKeyAttention", "AuthRequired", "UserInitiated"}
    <3>1. e \in {Stop(o, "HostKeyAttention"), Stop(o, "AuthenticationRequired"),
                 Stop(o, "UserStopped")}
      BY <2>3, <2>8 DEF Decide
    <3> QED
      BY <2>5, <3>1 DEF GuardianStates
  <2>9. CASE c \in {"RemoteClosed", "Fatal", "Transient"}
    <3>1. CASE ~RetryableClass(c) \/ o.policy.mode = "Off"
      <4>1. e = Stop(o, "ConnectionLost")
        BY <2>3, <2>9, <3>1 DEF Decide
      <4> QED
        BY <2>5, <4>1 DEF GuardianStates
    <3>2. CASE ~(~RetryableClass(c) \/ o.policy.mode = "Off")
      <4>1. c = "Transient"
        BY <3>2 DEF RetryableClass
      <4>2. e = IF MustAsk(o)
                THEN [o EXCEPT !.state = "ConnectionLost", !.needConsent = TRUE]
                ELSE Schedule(o)
        BY <2>3, <2>9, <3>2 DEF Decide
      <4> QED
        BY <2>6, <2>7, <4>1, <4>2
    <3> QED
      BY <3>1, <3>2
  <2> QED
    BY <2>8, <2>9 DEF DropClasses
<1> QED
  BY <1>3, <1>4

----------------------------------------------------------------------------
(* The steps.                                                               *)

LEMMA InvInit == Init => Inv
<1> SUFFICES ASSUME Init PROVE Inv
  OBVIOUS
<1>1. PICK p \in Policies : g = Reset(p)
  BY DEF Init
<1>2. g \in Guardians
  BY <1>1 DEF Reset, Guardians, GuardianStates
<1>3. g.policy.limit \in Nat
  BY <1>2, PolicyOf
<1>4. Sound(g)
  BY <1>1, <1>2, <1>3 DEF Sound, Reset, Waits
<1>5. ReportsInv
  BY DEF Init, ReportsInv, Life!TypeOK, Life!Live
<1>6. BarInv /\ AskInv /\ CountInv
  <2>1. ~g.userClosed /\ ~Waits(g) /\ ~g.episode
    BY <1>1 DEF Reset, Waits
  <2>2. /\ ~barred /\ barred \in BOOLEAN /\ ~agreed /\ agreed \in BOOLEAN
        /\ tries = 0 /\ g.attempt = 0
    BY <1>1 DEF Init, Reset
  <2> QED
    BY <1>3, <2>1, <2>2 DEF BarInv, AskInv, CountInv
<1> QED
  BY <1>4, <1>5, <1>6 DEF Inv

\* A step that leaves the machine and the account alone.
LEMMA ElsewhereStep ==
  ASSUME Inv, ReportsInv', MayDrop' => MayDrop, UNCHANGED <<g, history>>
  PROVE  Inv'
  BY DEF Inv, BarInv, AskInv, CountInv, Sound, history, Waits

\* The steps that call the machine, by what they make of it: one that stops it, or
\* leaves it without a wait or a question.
LEMMA StoppingStep ==
  ASSUME Inv, ReportsInv', MayDrop' => MayDrop,
         Sound(g'), g'.policy = g.policy, g'.userClosed => barred',
         ~Waits(g'), ~g'.needConsent, ~g'.episode,
         barred' = barred \/ g'.userClosed, g.userClosed => g'.userClosed,
         barred' \in BOOLEAN, agreed' \in BOOLEAN,
         tries' = 0 \/ (tries' = tries /\ g'.userClosed /\ g'.attempt = g.attempt)
  PROVE  Inv'
<1>1. g'.policy.limit \in Nat /\ g'.attempt \in Nat
  <2>1. g' \in Guardians
    BY DEF Sound
  <2> QED
    BY <2>1, PolicyOf
<1>2. BarInv'
  BY DEF Inv, BarInv
<1>3. AskInv'
  BY DEF AskInv
<1>4. CountInv'
  BY <1>1 DEF Inv, CountInv
<1> QED
  BY <1>2, <1>3, <1>4 DEF Inv

LEMMA ConnectedStep == ASSUME Inv, HandleConnected PROVE Inv'
<1>1. ReportsInv' /\ (MayDrop' => MayDrop)
  BY TakeStep DEF Inv, HandleConnected
<1>2. g \in Guardians
  BY DEF Inv, Sound
<1>3. g' = [OnConnected(g) EXCEPT !.justReconnected = FALSE]
  BY DEF HandleConnected
<1>4. /\ g' \in Guardians /\ g'.policy = g.policy /\ g'.userClosed = g.userClosed
      /\ ~Waits(g') /\ ~g'.needConsent /\ ~g'.episode /\ g'.attempt = 0
  BY <1>2, <1>3 DEF OnConnected, Guardians, GuardianStates, Waits
<1>5. Sound(g')
  BY <1>2, <1>4, PolicyOf DEF Sound
<1> QED
  BY <1>1, <1>4, <1>5, StoppingStep DEF HandleConnected, Inv, BarInv, AskInv

LEMMA DropStep == ASSUME Inv, HandleDrop PROVE Inv'
<1> DEFINE c == Head(reports).class
<1>1. c \in DropClasses
  BY KindsDiffer DEF HandleDrop
<1>2. ReportsInv' /\ MayDrop /\ ~MayDrop'
  BY TakeStep DEF Inv, HandleDrop
<1>3. /\ g' = OnDrop(g, c) /\ barred' = (barred \/ (c # "Transient" /\ g.everConnected))
      /\ agreed' = agreed /\ tries' = tries
  BY DEF HandleDrop, history
<1> HIDE DEF c
<1>4. /\ Sound(g') /\ Same(g, g')
      /\ Waits(g') \/ g'.needConsent => Arms(g) /\ c = "Transient"
      /\ g'.policy.mode = "Ask" /\ (Waits(g') \/ (g'.episode /\ g'.attempt # 0))
           => g.episode /\ g.attempt # 0
      /\ g.policy.limit > 0 /\ (g.episode \/ ~Arms(g)) => g'.attempt >= g.attempt
      /\ g.policy.limit > 0 /\ g.episode /\ Waits(g') => g'.attempt >= g.attempt + 1
  BY <1>1, <1>3, DropOutcome DEF Inv
<1>5. /\ g.policy.limit \in Nat /\ g.attempt \in Nat
      /\ g'.policy.limit = g.policy.limit /\ g'.attempt \in Nat
  <2>1. g \in Guardians /\ g' \in Guardians
    BY <1>4 DEF Inv, Sound
  <2> QED
    BY <1>4, <2>1, PolicyOf DEF Same
<1>6. BarInv'
  <2>1. CASE barred
    BY <1>2, <1>3, <1>4, <2>1 DEF Inv, BarInv, Arms, Same
  <2>2. CASE ~barred
    BY <1>2, <1>3, <1>4, <2>2 DEF Inv, BarInv, Arms, Same
  <2> QED
    BY <2>1, <2>2
<1>7. AskInv'
  BY <1>3, <1>4 DEF Inv, AskInv, Same
<1>8. CountInv'
  <2>1. tries \in Nat /\ tries' \in 0 .. g'.policy.limit + 2
    BY <1>3, <1>5 DEF Inv, CountInv
  <2>2. ASSUME g.policy.limit > 0
        PROVE  tries' <= g'.attempt + 1 /\ (Waits(g') => tries' <= g'.attempt)
    <3>1. CASE g.episode
      BY <1>3, <1>4, <1>5, <2>1, <2>2, <3>1 DEF Inv, CountInv
    <3>2. CASE ~g.episode /\ Arms(g)
      BY <1>2, <1>3, <1>5, <2>1, <2>2, <3>2 DEF Inv, CountInv, Arms
    <3>3. CASE ~Arms(g)
      BY <1>3, <1>4, <1>5, <2>1, <2>2, <3>3 DEF Inv, CountInv
    <3> QED
      BY <3>1, <3>2, <3>3
  <2> QED
    BY <1>2, <1>5, <2>1, <2>2 DEF CountInv
<1> QED
  BY <1>2, <1>4, <1>6, <1>7, <1>8 DEF Inv

LEMMA ConsentStep ==
  ASSUME Inv, NEW yes \in BOOLEAN, Consent(yes) PROVE Inv'
<1> DEFINE d == [g EXCEPT !.needConsent = FALSE]
<1>1. /\ g.needConsent /\ agreed' = (agreed \/ yes) /\ tries' = 0 /\ barred' = barred
      /\ UNCHANGED session
      /\ g' = IF yes THEN Schedule(d) ELSE Stop(d, "UserStopped")
  BY DEF Consent, GrantConsent
<1>2. ReportsInv' /\ (MayDrop' <=> MayDrop)
  BY <1>1 DEF Inv, ReportsInv, MayDrop, session, Life!TypeOK
<1>3. /\ d \in Guardians /\ Same(g, d) /\ ~d.needConsent /\ d.episode
      /\ d.attempt = g.attempt /\ d.state = g.state
  BY <1>1 DEF Inv, Sound, Guardians, Same
<1>4. Sound(d)
  BY <1>3 DEF Inv, Sound, Same, Waits
<1>5. ~barred
  BY <1>1 DEF Inv, BarInv
<1> HIDE DEF d
<1>6. CASE yes
  <2>1. /\ Sound(g') /\ Same(d, g') /\ ~g'.needConsent
        /\ d.policy.limit > 0 => g'.attempt >= d.attempt
    BY <1>1, <1>3, <1>4, <1>6, ScheduleCounts
  <2>2. g'.attempt \in Nat /\ g'.policy.limit \in Nat
    BY <2>1, PolicyOf DEF Sound
  <2>3. ~g'.userClosed
    BY <1>3, <1>5, <2>1 DEF Inv, BarInv, Same
  <2>4. barred' = barred /\ agreed' = TRUE
    BY <1>1, <1>6 DEF Inv, AskInv
  <2>5. BarInv'
    BY <1>5, <2>3, <2>4 DEF Inv, BarInv
  <2>6. AskInv'
    BY <2>4 DEF AskInv
  <2>7. CountInv'
    BY <1>1, <2>2 DEF CountInv
  <2> QED
    BY <1>2, <2>1, <2>5, <2>6, <2>7 DEF Inv
<1>7. CASE ~yes
  <2>1. /\ Sound(g') /\ Same(d, g') /\ ~Waits(g') /\ ~g'.needConsent /\ ~g'.episode
    BY <1>1, <1>4, <1>7, StopEnds DEF GuardianStates
  <2> QED
    BY <1>1, <1>2, <1>3, <1>5, <1>7, <2>1, StoppingStep
       DEF Inv, BarInv, AskInv, Same
<1> QED
  BY <1>6, <1>7

LEMMA TickStep == ASSUME Inv, QuietTick PROVE Inv'
<1>1. /\ ReportsInv' /\ (MayDrop' <=> MayDrop)
      /\ barred' = barred /\ agreed' = agreed /\ tries' = tries
  BY DEF Inv, QuietTick, ReportsInv, MayDrop, session, history, Life!TypeOK
<1>2. /\ g' \in Guardians /\ Same(g, g') /\ g'.attempt = g.attempt
      /\ g'.episode = g.episode /\ g'.needConsent = g.needConsent
      /\ Waits(g') <=> Waits(g)
      /\ g.state = "ConnectionLost" => g'.state = g.state
  BY DEF Inv, Sound, QuietTick, Settled, Guardians, GuardianStates, Same, Waits
<1>3. Sound(g')
  BY <1>2 DEF Inv, Sound, Same
<1> QED
  BY <1>1, <1>2, <1>3 DEF Inv, BarInv, AskInv, CountInv, Same

LEMMA ReconnectStep == ASSUME Inv, StartReconnect PROVE Inv'
<1>1. /\ Waits(g) /\ ~g.needConsent /\ g' = Fired(g) /\ Life!Begin
      /\ tries' = UpTo(g.policy.limit + 2, tries + 1)
      /\ barred' = barred /\ agreed' = agreed
  BY DEF StartReconnect, TickFires, Waits
<1>2. ReportsInv'
  BY <1>1, BeginStep DEF Inv
<1>3. g \in Guardians /\ g.episode /\ ~barred
  BY <1>1 DEF Inv, Sound, BarInv
<1>4. /\ g' \in Guardians /\ Same(g, g') /\ g'.attempt = g.attempt /\ g'.episode
      /\ ~g'.needConsent /\ ~Waits(g')
  BY <1>1, <1>3 DEF Fired, Guardians, GuardianStates, Same, Waits
<1>5. Sound(g')
  BY <1>4 DEF Inv, Sound, Same
<1>6. g.policy.limit \in Nat /\ g.attempt \in Nat
  BY <1>3, PolicyOf
<1>7. CountInv'
  BY <1>1, <1>3, <1>4, <1>6 DEF Inv, CountInv, UpTo, Same
<1> QED
  BY <1>1, <1>2, <1>3, <1>4, <1>5, <1>7 DEF Inv, BarInv, AskInv, Same

LEMMA TimerStep == ASSUME Inv, TimerRunsOut PROVE Inv'
<1>1. /\ ReportsInv' /\ (MayDrop' <=> MayDrop)
      /\ barred' = barred /\ agreed' = agreed /\ tries' = tries
  BY DEF Inv, TimerRunsOut, ReportsInv, MayDrop, session, history, Life!TypeOK
<1>2. /\ g' \in Guardians /\ Same(g, g') /\ g'.attempt = g.attempt
      /\ g'.episode = g.episode /\ g'.needConsent = g.needConsent /\ g'.state = g.state
  BY DEF Inv, Sound, TimerRunsOut, Guardians, Same
<1>3. Sound(g')
  BY <1>2 DEF Inv, Sound, Same, Waits
<1> QED
  BY <1>1, <1>2, <1>3 DEF Inv, BarInv, AskInv, CountInv, Same, Waits

LEMMA DisconnectStep == ASSUME Inv, UserDisconnect PROVE Inv'
<1> DEFINE d == [g EXCEPT !.userClosed = TRUE]
<1>1. /\ g' = Stop(d, "Idle") /\ Life!Halt /\ barred' = TRUE
      /\ agreed' = agreed /\ tries' = tries
  BY DEF UserDisconnect, Disarm, OnUserDisconnect
<1>2. ReportsInv'
  BY <1>1, HaltStep DEF Inv
<1>3. g \in Guardians
  BY DEF Inv, Sound
<1>4. /\ g' \in Guardians /\ g'.policy = g.policy /\ g'.userClosed /\ ~Waits(g')
      /\ ~g'.needConsent /\ ~g'.episode /\ g'.attempt = g.attempt
  BY <1>1, <1>3 DEF Stop, Guardians, GuardianStates, Waits
<1>5. Sound(g')
  BY <1>4 DEF Inv, Sound
<1>6. g.policy.limit \in Nat /\ g.attempt \in Nat
  BY <1>3, PolicyOf
<1> QED
  BY <1>1, <1>2, <1>4, <1>5, <1>6 DEF Inv, BarInv, AskInv, CountInv

LEMMA StopStep == ASSUME Inv, GuardianStop PROVE Inv'
<1>1. /\ ReportsInv' /\ (MayDrop' <=> MayDrop)
      /\ barred' = barred /\ agreed' = FALSE /\ tries' = 0
  BY DEF Inv, GuardianStop, ReportsInv, MayDrop, session, Life!TypeOK
<1>2. g' = Stop(g, "UserStopped")
  BY DEF GuardianStop, StopByUser, Armed, Inv, Sound
<1>3. /\ Sound(g') /\ Same(g, g') /\ ~Waits(g') /\ ~g'.needConsent /\ ~g'.episode
  BY <1>2, StopEnds DEF Inv, GuardianStates
<1> QED
  BY <1>1, <1>3, StoppingStep DEF Inv, BarInv, Same

LEMMA RetryStep == ASSUME Inv, GuardianRetryNow PROVE Inv'
<1>1. /\ ReportsInv' /\ (MayDrop' <=> MayDrop)
      /\ barred' = FALSE /\ agreed' = TRUE /\ tries' = 0 /\ g' = RetryNow(g)
  BY DEF Inv, GuardianRetryNow, ReportsInv, MayDrop, session, Life!TypeOK
<1>2. g \in Guardians
  BY DEF Inv, Sound
<1>3. /\ g' \in Guardians /\ g'.policy = g.policy /\ ~g'.userClosed /\ g'.episode
      /\ ~g'.needConsent /\ g'.attempt = 0
  BY <1>1, <1>2 DEF RetryNow, Guardians, GuardianStates
<1>4. g'.policy.limit \in Nat
  BY <1>3, PolicyOf
<1>5. Sound(g')
  BY <1>3, <1>4 DEF Sound
<1>6. BarInv'
  BY <1>1, <1>3 DEF BarInv
<1>7. AskInv'
  BY <1>1 DEF AskInv
<1>8. CountInv'
  <2>1. g'.attempt = 0 /\ tries' = 0
    BY <1>1, <1>3
  <2> QED
    BY <1>4, <2>1 DEF CountInv
<1> QED
  BY <1>1, <1>5, <1>6, <1>7, <1>8 DEF Inv

LEMMA InvStep == Inv /\ [Next]_vars => Inv'
<1> SUFFICES ASSUME Inv, [Next]_vars PROVE Inv'
  OBVIOUS
<1>1. CASE HandlePrompt
  BY <1>1, TakeStep, ElsewhereStep DEF HandlePrompt, Inv
<1>2. ASSUME NEW yes \in BOOLEAN, HostKeyBox(yes) PROVE Inv'
  BY <1>2, AnswerStep, ElsewhereStep DEF HostKeyBox, Inv
<1>3. CASE Worker
  BY <1>3, WorkerStep, ElsewhereStep DEF Worker, Inv
<1>4. ASSUME UNCHANGED <<g, session, history>> PROVE Inv'
  <2>1. ReportsInv' /\ (MayDrop' => MayDrop)
    BY <1>4 DEF Inv, ReportsInv, MayDrop, session, Life!TypeOK
  <2> QED
    BY <1>4, <2>1, ElsewhereStep
<1>5. CASE BeginFrame \/ PumpDone \/ PumpReturns \/ Minimize \/ UNCHANGED vars
  BY <1>4, <1>5 DEF BeginFrame, PumpDone, PumpReturns, Minimize, vars
<1>6. ASSUME NEW yes \in BOOLEAN, Consent(yes) PROVE Inv'
  BY <1>6, ConsentStep
<1> QED
  BY <1>1, <1>2, <1>3, <1>5, <1>6, ConnectedStep, DropStep, TickStep, ReconnectStep,
     TimerStep, DisconnectStep, StopStep, RetryStep DEF Next, Frame, User

----------------------------------------------------------------------------
(* The theorems.                                                            *)

LEMMA Invariance == Spec => []Inv
  BY InvInit, InvStep, PTL DEF Spec

\* Where a drop or an answer leaves the machine: never "Reconnecting" by itself.
AfterDrop == {"Idle", "ConnectionLost", "WaitingToReconnect", "AuthenticationRequired",
              "HostKeyAttention", "GaveUp", "UserStopped"}
LEMMA DropsLeaveIt ==
  ASSUME NEW d \in Guardians
  PROVE  /\ Schedule(d).state \in AfterDrop
         /\ \A c \in DropClasses : OnDrop(d, c).state \in AfterDrop
<1>1. ASSUME NEW f \in Guardians PROVE Schedule(f).state \in AfterDrop
  BY <1>1 DEF Schedule, Stop, Guardians, AfterDrop
<1>2. ASSUME NEW c \in DropClasses, Arms(d) PROVE OnDrop(d, c).state \in AfterDrop
  <2> DEFINE o == OpenEpisode(d)
  <2>1. o \in Guardians
    BY DEF OpenEpisode, Guardians
  <2>2. OnDrop(d, c) = Decide(o, c)
    BY <1>2 DEF OnDrop
  <2> HIDE DEF o
  <2>3. \A s \in GuardianStates : Stop(o, s).state = s
    BY <2>1 DEF Stop, Guardians
  <2>4. [o EXCEPT !.state = "ConnectionLost", !.needConsent = TRUE].state
          = "ConnectionLost"
    BY <2>1 DEF Guardians
  <2>5. CASE c \in {"HostKeyAttention", "AuthRequired", "UserInitiated"}
    BY <2>2, <2>3, <2>5 DEF Decide, GuardianStates, AfterDrop
  <2>6. CASE c \in {"RemoteClosed", "Fatal", "Transient"}
    <3>1. Decide(o, c) \in {Stop(o, "ConnectionLost"), Schedule(o),
             [o EXCEPT !.state = "ConnectionLost", !.needConsent = TRUE]}
      BY <2>6 DEF Decide
    <3>2. Stop(o, "ConnectionLost").state \in AfterDrop
      BY <2>3 DEF GuardianStates, AfterDrop
    <3>3. Schedule(o).state \in AfterDrop
      BY <1>1, <2>1
    <3> QED
      BY <2>2, <2>4, <3>1, <3>2, <3>3 DEF AfterDrop
  <2> QED
    BY <2>5, <2>6 DEF DropClasses
<1>3. ASSUME NEW c \in DropClasses, ~Arms(d) PROVE OnDrop(d, c).state \in AfterDrop
  BY <1>3 DEF OnDrop, Guardians, AfterDrop
<1> QED
  BY <1>1, <1>2, <1>3

\* A step that begins an attempt is the tick of a machine that waits: nothing else
\* the user, the worker or the frame does makes it "Reconnecting".
LEMMA AttemptsBeginHere ==
  ASSUME Inv, [Next]_vars, AttemptBegins PROVE Waits(g)
<1>1. g \in Guardians /\ g' # g /\ g.state # "Reconnecting"
      /\ g'.state = "Reconnecting"
  BY DEF AttemptBegins, Inv, Sound
<1>2. ~HandleConnected
  BY <1>1 DEF HandleConnected, OnConnected, Guardians
<1>3. ~HandleDrop
  <2> SUFFICES ASSUME HandleDrop PROVE FALSE
    OBVIOUS
  <2>1. Head(reports).class \in DropClasses /\ g' = OnDrop(g, Head(reports).class)
    BY KindsDiffer DEF HandleDrop
  <2> QED
    BY <1>1, <2>1, DropsLeaveIt DEF AfterDrop
<1>4. ASSUME NEW yes \in BOOLEAN, Consent(yes) PROVE FALSE
  <2> DEFINE d == [g EXCEPT !.needConsent = FALSE]
  <2>1. d \in Guardians
    BY <1>1 DEF Guardians
  <2>2. g' = IF yes THEN Schedule(d) ELSE Stop(d, "UserStopped")
    BY <1>4 DEF Consent, GrantConsent
  <2>3. Stop(d, "UserStopped").state = "UserStopped"
    BY <2>1 DEF Stop, Guardians
  <2> HIDE DEF d
  <2> QED
    BY <1>1, <2>1, <2>2, <2>3, DropsLeaveIt DEF AfterDrop
<1>5. ~QuietTick
  BY <1>1 DEF QuietTick, Settled, Guardians
<1>6. ~TimerRunsOut
  BY <1>1 DEF TimerRunsOut, Guardians
<1>7. ~UserDisconnect
  BY <1>1 DEF UserDisconnect, Disarm, OnUserDisconnect, Stop, Guardians
<1>8. ~GuardianStop
  BY <1>1 DEF GuardianStop, StopByUser, Stop, Guardians
<1>9. ~GuardianRetryNow
  BY <1>1 DEF GuardianRetryNow, RetryNow, Guardians
<1>10. ~UNCHANGED g
  BY <1>1
<1>11. StartReconnect
  BY <1>2, <1>3, <1>4, <1>5, <1>6, <1>7, <1>8, <1>9, <1>10
     DEF Next, Frame, User, BeginFrame, HandlePrompt, PumpDone, HostKeyBox, PumpReturns,
         Minimize, Worker, vars
<1> QED
  BY <1>11 DEF StartReconnect, TickFires, Waits

\* The tick starts an attempt only from the wait, and what bars one leaves no wait
\* and no drop behind that could bring one about (Guardian.cpp, OnDrop and Tick;
\* app.cpp, PumpSshEvents).
THEOREM NothingForbiddenIsRetried == Spec => AttemptsOnlyWhenAllowed
<1>1. Inv /\ [Next]_vars => (AttemptBegins => ~barred)
  BY AttemptsBeginHere DEF Inv, BarInv
<1>2. Inv /\ [Next]_vars => [AttemptBegins => ~barred]_vars
  BY <1>1
<1> QED
  BY <1>2, Invariance, PTL DEF Spec, AttemptsOnlyWhenAllowed

\* In Ask mode the wait itself shows that the user agreed in this outage.
THEOREM UserIsAskedFirst == Spec => AskBeforeFirstAttempt
<1>1. Inv /\ [Next]_vars => [AttemptBegins /\ g.policy.mode = "Ask" => agreed]_vars
  BY AttemptsBeginHere DEF Inv, AskInv
<1> QED
  BY <1>1, Invariance, PTL DEF Spec, AskBeforeFirstAttempt

\* The count of the machine is never behind the attempts by more than one, and
\* never passes the limit.
THEOREM LimitHolds == Spec => []LimitKept
<1>1. Inv => LimitKept
  <2> SUFFICES ASSUME Inv, g.policy.limit > 0 PROVE tries <= g.policy.limit + 1
    BY DEF LimitKept
  <2>1. tries <= g.attempt + 1 /\ g.attempt <= g.policy.limit
    BY DEF Inv, Sound, CountInv
  <2>2. g.attempt \in Nat /\ g.policy.limit \in Nat /\ tries \in Nat
    <3>1. g.attempt \in Nat /\ g.policy.limit \in Nat
      BY PolicyOf DEF Inv, Sound
    <3> QED
      BY <3>1 DEF Inv, CountInv
  <2> QED
    BY <2>1, <2>2
<1> QED
  BY <1>1, Invariance, PTL

AppTypes == /\ upc \in {"idle", "pump", "consent", "tick"}
            /\ state \in {"Connecting", "Connected", "Reconnecting", "Disconnected",
                          "Error"}
            /\ prompt \in BOOLEAN /\ minimized \in BOOLEAN

LEMMA AppStep == AppTypes /\ [Next]_vars => AppTypes'
<1> SUFFICES ASSUME AppTypes, [Next]_vars PROVE AppTypes'
  OBVIOUS
<1> USE DEF AppTypes, app, vars
<1>1. CASE \E yes \in BOOLEAN : Consent(yes) \/ HostKeyBox(yes)
  BY <1>1 DEF Consent, HostKeyBox
<1>2. CASE HandleDrop
  <2>1. \A d, kind : StateAfterDrop(d, kind) \in {"Disconnected", "Error", "Reconnecting"}
    BY DEF StateAfterDrop
  <2> QED
    BY <1>2, <2>1 DEF HandleDrop
<1>3. CASE BeginFrame \/ HandleConnected \/ HandlePrompt \/ PumpDone
  BY <1>3 DEF BeginFrame, HandleConnected, HandlePrompt, PumpDone
<1>4. CASE PumpReturns \/ QuietTick \/ StartReconnect
  BY <1>4 DEF PumpReturns, QuietTick, StartReconnect
<1>5. CASE User
  BY <1>5 DEF User, UserDisconnect, GuardianStop, GuardianRetryNow, Minimize
<1>6. CASE TimerRunsOut \/ Worker \/ UNCHANGED vars
  BY <1>6 DEF TimerRunsOut, Worker
<1> QED
  BY <1>1, <1>2, <1>3, <1>4, <1>5, <1>6 DEF Next, Frame

\* The type invariant of the tab, with the machine's count within its limit.
THEOREM TabTypes == Spec => []TypeOK
<1>1. Init => AppTypes
  BY DEF Init, AppTypes
<1>2. Inv /\ AppTypes => TypeOK
  BY DEF Inv, AppTypes, TypeOK, Sound, ReportsInv, BarInv, AskInv, CountInv
<1> QED
  BY <1>1, <1>2, AppStep, Invariance, PTL DEF Spec

\* What the run checks of every attempt: nothing forbids it, and in Ask mode the
\* user agreed to it.
THEOREM AttemptsWanted == Spec => AttemptsAreWanted
  BY NothingForbiddenIsRetried, UserIsAskedFirst, PTL DEF AttemptsAreWanted

----------------------------------------------------------------------------
(* What the tab shows.                                                      *)

Queued(q, r) == \E i \in 1 .. Len(q) : q[i] = r
EndDue(q)    == q # <<>> /\ q[Len(q)] \in Life!Ends
Past         == phase \in {"over", "stopped"}

\* A question of this connection's worker waits in the queue or before the user.
Asked == prompt \/ Queued(reports, Life!Prompt)

\* There is one question, it is put before the worker is told, and the connection is
\* not up before it is answered.
PromptInv ==
  /\ prompt => upc \in {"pump", "consent"} /\ ~Queued(reports, Life!Prompt)
  /\ \A i, j \in 1 .. Len(reports) :
       reports[i] = Life!Prompt /\ reports[j] = Life!Prompt => i = j
  /\ Asked => phase \in {"asked", "refused"} \/ Past
  /\ Asked => ~Queued(reports, Life!Connected)
  /\ Queued(reports, Life!Connected) => phase = "up" \/ Past

\* A question nobody waits for is followed by an end for want of a trusted key.
RefusedInv ==
  /\ Asked /\ EndDue(reports) => reports[Len(reports)].class = "HostKeyAttention"
  /\ Queued(reports, Life!Prompt) /\ Past => EndDue(reports)

\* What the tab shows agrees with the machine, or the end that will correct it is in
\* the queue or still to come.
ShownInv ==
  /\ Waits(g) \/ g.needConsent => Past /\ (prompt => EndDue(reports))
  /\ g.state \in {"Connected", "Reconnected"} =>
       state = "Connected" /\ ~Asked /\ (phase = "up" \/ Past)
  /\ Waits(g) => state = "Reconnecting" \/ EndDue(reports)
  /\ g.state \in GuardianTerminal \cup {"ConnectionLost"} =>
       state \in {"Disconnected", "Error"} \/ ~Past \/ EndDue(reports)

TabInv == PromptInv /\ RefusedInv /\ ShownInv

\* What an append adds to the queue.
LEMMA Appended ==
  ASSUME ReportsInv, NEW r \in Life!Reports, reports' = Append(reports, r)
  PROVE  /\ \A x : Queued(reports', x) <=> Queued(reports, x) \/ x = r
         /\ reports' # <<>> /\ reports'[Len(reports')] = r
         /\ \A i \in 1 .. Len(reports') : i \notin 1 .. Len(reports) => i = Len(reports')
         /\ \A i \in 1 .. Len(reports) : reports'[i] = reports[i]
<1>1. reports \in Seq(Life!Reports)
  BY DEF ReportsInv, Life!TypeOK
<1>2. /\ Len(reports) \in Nat /\ Len(reports') = Len(reports) + 1
      /\ reports'[Len(reports')] = r /\ reports' # <<>>
      /\ \A i \in 1 .. Len(reports) : reports'[i] = reports[i]
  BY <1>1
<1>3. \A i \in 1 .. Len(reports') : i \in 1 .. Len(reports) \/ i = Len(reports')
  BY <1>2
<1>4. \A i \in 1 .. Len(reports) : i \in 1 .. Len(reports')
  BY <1>2
<1>5. Len(reports') \in 1 .. Len(reports')
  BY <1>2
<1>6. ASSUME NEW x PROVE Queued(reports', x) <=> Queued(reports, x) \/ x = r
  BY <1>2, <1>3, <1>4, <1>5 DEF Queued
<1> QED
  BY <1>2, <1>3, <1>6

\* What a take leaves in it.
LEMMA Taken ==
  ASSUME ReportsInv, Life!Take
  PROVE  /\ phase' = phase /\ Queued(reports, Head(reports))
         /\ \A x : Queued(reports', x) => Queued(reports, x)
         /\ Head(reports) \in Life!Ends =>
              reports' = <<>> /\ EndDue(reports) /\ Head(reports) = reports[Len(reports)]
         /\ Head(reports) \notin Life!Ends /\ EndDue(reports) => EndDue(reports')
         /\ EndDue(reports') =>
              EndDue(reports) /\ reports'[Len(reports')] = reports[Len(reports)]
         /\ \A i \in 1 .. Len(reports') : i + 1 \in 1 .. Len(reports)
                                          /\ reports'[i] = reports[i + 1]
         /\ 1 \in 1 .. Len(reports) /\ Head(reports) = reports[1]
<1>1. reports \in Seq(Life!Reports) /\ reports # <<>> /\ reports' = Tail(reports)
      /\ phase' = phase
  BY DEF ReportsInv, Life!TypeOK, Life!Take
<1>2. /\ Len(reports) \in Nat \ {0} /\ Len(reports') = Len(reports) - 1
      /\ Head(reports) = reports[1] /\ 1 \in 1 .. Len(reports)
      /\ reports' \in Seq(Life!Reports)
  BY <1>1
<1>3. \A i \in 1 .. Len(reports') : i + 1 \in 1 .. Len(reports)
                                    /\ reports'[i] = reports[i + 1]
  BY <1>1, <1>2
<1>4. \A x : Queued(reports', x) => Queued(reports, x)
  BY <1>3 DEF Queued
<1>5. Queued(reports, Head(reports))
  BY <1>2 DEF Queued
<1>6. reports' # <<>> => reports'[Len(reports')] = reports[Len(reports)]
  <2> SUFFICES ASSUME reports' # <<>>
               PROVE  reports'[Len(reports')] = reports[Len(reports)]
    OBVIOUS
  <2>1. Len(reports') \in Nat \ {0}
    BY <1>2
  <2>2. Len(reports') \in 1 .. Len(reports') /\ Len(reports') + 1 = Len(reports)
    BY <1>2, <2>1
  <2> QED
    BY <1>3, <2>2
<1>7. ASSUME Head(reports) \in Life!Ends
      PROVE  reports' = <<>> /\ Head(reports) = reports[Len(reports)]
  <2>1. 1 = Len(reports)
    BY <1>2, <1>7 DEF ReportsInv
  <2>2. PICK n \in Nat : n = Len(reports') /\ n = Len(reports) - 1
    BY <1>2
  <2>3. reports' = <<>>
    BY <1>2, <2>1, <2>2
  <2> QED
    BY <1>2, <2>1, <2>3
<1>8. ASSUME Head(reports) \notin Life!Ends, EndDue(reports) PROVE reports' # <<>>
  <2>1. Len(reports) # 1
    BY <1>2, <1>8 DEF EndDue
  <2> QED
    BY <1>2, <2>1
<1> QED
  BY <1>1, <1>2, <1>3, <1>4, <1>5, <1>6, <1>7, <1>8 DEF EndDue

\* The end of a live worker: what was asked of it then ends for want of a key.
LEMMA EndsKeep ==
  ASSUME ReportsInv, PromptInv, RefusedInv, UNCHANGED <<prompt, upc>>,
         phase \in Life!Live, phase' \in {"over", "stopped"},
         \E end \in Life!EndsNow : reports' = Append(reports, end)
  PROVE  /\ PromptInv' /\ RefusedInv' /\ Past' /\ ~Past /\ EndDue(reports')
         /\ Asked' => Asked
<1>1. PICK end \in Life!EndsNow : reports' = Append(reports, end)
  OBVIOUS
<1>2. end \in Life!Ends /\ end # Life!Prompt /\ end # Life!Connected
      /\ end \in Life!Reports
  BY EndsNowAreEnds, KindsDiffer DEF Life!Reports
<1>3. /\ \A x : Queued(reports', x) <=> Queued(reports, x) \/ x = end
      /\ reports' # <<>> /\ reports'[Len(reports')] = end
      /\ \A i \in 1 .. Len(reports') : i \notin 1 .. Len(reports) => i = Len(reports')
      /\ \A i \in 1 .. Len(reports) : reports'[i] = reports[i]
  BY <1>1, <1>2, Appended
<1>4. /\ Past' /\ ~Past /\ EndDue(reports')
      /\ Queued(reports', Life!Prompt) <=> Queued(reports, Life!Prompt)
      /\ Queued(reports', Life!Connected) <=> Queued(reports, Life!Connected)
  BY <1>2, <1>3 DEF Past, EndDue, Life!Live
<1>5. Asked' <=> Asked
  BY <1>4 DEF Asked
<1>6. Asked => end.class = "HostKeyAttention"
  <2> SUFFICES ASSUME Asked PROVE end.class = "HostKeyAttention"
    OBVIOUS
  <2>1. phase \in {"asked", "refused"}
    BY <1>4 DEF PromptInv
  <2>2. end = Life!EndOf(ClassifyDrop({"hostKey"}))
    BY <1>1, <2>1 DEF Life!EndsNow
  <2>3. ClassifyDrop({"hostKey"}) = "HostKeyAttention"
    BY DEF ClassifyDrop
  <2> QED
    BY <2>2, <2>3 DEF Life!EndOf
<1>7. \A i, j \in 1 .. Len(reports') :
        reports'[i] = Life!Prompt /\ reports'[j] = Life!Prompt => i = j
  <2>1. \A i, j \in 1 .. Len(reports) :
          reports[i] = Life!Prompt /\ reports[j] = Life!Prompt => i = j
    BY DEF PromptInv
  <2> QED
    BY <1>2, <1>3, <2>1
<1>8. PromptInv'
  BY <1>4, <1>5, <1>7 DEF PromptInv
<1>9. RefusedInv'
  BY <1>3, <1>4, <1>5, <1>6 DEF RefusedInv
<1> QED
  BY <1>4, <1>5, <1>8, <1>9

\* The worker's steps: it asks when nothing was asked, is up when nothing is, and is
\* past only with its end in the queue.
LEMMA WorkerKeeps ==
  ASSUME ReportsInv, PromptInv, RefusedInv, Life!Worker, UNCHANGED <<prompt, upc>>
  PROVE  /\ PromptInv' /\ RefusedInv'
         /\ Past => Past' /\ reports' = reports
         /\ Past' => Past \/ EndDue(reports')
         /\ phase = "up" => phase' = "up" \/ Past'
         /\ Asked' /\ ~Asked => phase = "starting"
<1>1. CASE Life!Ask
  <2>1. /\ phase = "starting" /\ phase' \in {"asked", "refused"}
        /\ reports' = Append(reports, Life!Prompt)
    BY <1>1 DEF Life!Ask
  <2>2. ~Asked /\ ~Queued(reports, Life!Connected) /\ ~Past
    BY <2>1 DEF PromptInv, Past
  <2>3. /\ \A x : Queued(reports', x) <=> Queued(reports, x) \/ x = Life!Prompt
        /\ reports' # <<>> /\ reports'[Len(reports')] = Life!Prompt
        /\ \A i \in 1 .. Len(reports') : i \notin 1 .. Len(reports) => i = Len(reports')
        /\ \A i \in 1 .. Len(reports) : reports'[i] = reports[i]
    BY <2>1, Appended DEF Life!Reports
  <2>4. Life!Prompt # Life!Connected
    BY DEF Life!Prompt, Life!Connected
  <2>5. \A i, j \in 1 .. Len(reports') :
          reports'[i] = Life!Prompt /\ reports'[j] = Life!Prompt => i = j
    BY <2>2, <2>3 DEF Asked, Queued
  <2>6. ~EndDue(reports') /\ ~Past'
    BY <2>1, <2>3, KindsDiffer DEF EndDue, Past
  <2>7. PromptInv'
    BY <2>1, <2>2, <2>3, <2>4, <2>5 DEF PromptInv, Asked
  <2> QED
    BY <2>1, <2>2, <2>6, <2>7 DEF RefusedInv
<1>2. CASE Life!Establish
  <2>1. /\ phase \in {"starting", "accepted"} /\ phase' = "up"
        /\ reports' = Append(reports, Life!Connected)
    BY <1>2 DEF Life!Establish
  <2>2. ~Asked /\ ~Past
    BY <2>1 DEF PromptInv, Past
  <2>3. /\ \A x : Queued(reports', x) <=> Queued(reports, x) \/ x = Life!Connected
        /\ reports' # <<>> /\ reports'[Len(reports')] = Life!Connected
    BY <2>1, Appended DEF Life!Reports
  <2>4. Life!Prompt # Life!Connected
    BY DEF Life!Prompt, Life!Connected
  <2>5. ~Asked' /\ ~Queued(reports', Life!Prompt)
    BY <2>2, <2>3, <2>4 DEF Asked
  <2>6. ~EndDue(reports') /\ ~Past'
    BY <2>1, <2>3, KindsDiffer DEF EndDue, Past
  <2>7. PromptInv'
    BY <2>1, <2>5 DEF PromptInv, Queued, Asked
  <2> QED
    BY <2>1, <2>2, <2>5, <2>6, <2>7 DEF RefusedInv
<1>3. CASE Life!End
  BY <1>3, EndsKeep DEF Life!End
<1>4. CASE Life!Finish
  <2>1. Past /\ Past' /\ reports' = reports
    BY <1>4 DEF Life!Finish, Past
  <2> QED
    BY <2>1 DEF PromptInv, RefusedInv, Asked
<1> QED
  BY <1>1, <1>2, <1>3, <1>4 DEF Life!Worker

\* Taking what is no end.
LEMMA TakingKeeps ==
  ASSUME ReportsInv, PromptInv, RefusedInv, Life!Take, upc = "pump", upc' = "pump",
         Head(reports) \notin Life!Ends,
         prompt' <=> prompt \/ Head(reports) = Life!Prompt
  PROVE  /\ PromptInv' /\ RefusedInv' /\ (Asked' => Asked)
         /\ Past' = Past /\ EndDue(reports) = EndDue(reports')
<1>1. /\ phase' = phase /\ Queued(reports, Head(reports))
      /\ \A x : Queued(reports', x) => Queued(reports, x)
      /\ EndDue(reports) => EndDue(reports')
      /\ EndDue(reports') =>
           EndDue(reports) /\ reports'[Len(reports')] = reports[Len(reports)]
      /\ \A i \in 1 .. Len(reports') : i + 1 \in 1 .. Len(reports)
                                       /\ reports'[i] = reports[i + 1]
      /\ 1 \in 1 .. Len(reports) /\ Head(reports) = reports[1]
  BY Taken
<1>2. Asked' => Asked
  BY <1>1 DEF Asked
<1>3. \A i, j \in 1 .. Len(reports') :
        reports'[i] = Life!Prompt /\ reports'[j] = Life!Prompt => i = j
  <2> TAKE i, j \in 1 .. Len(reports')
  <2>1. reports'[i] = Life!Prompt /\ reports'[j] = Life!Prompt => i + 1 = j + 1
    BY <1>1 DEF PromptInv
  <2> QED
    BY <2>1
<1>4. Head(reports) = Life!Prompt => ~Queued(reports', Life!Prompt)
  <2> SUFFICES ASSUME Head(reports) = Life!Prompt, NEW i \in 1 .. Len(reports'),
                      reports'[i] = Life!Prompt
               PROVE  FALSE
    BY DEF Queued
  <2>1. i + 1 = 1
    BY <1>1 DEF PromptInv
  <2> QED
    BY <2>1
<1>5. prompt' => ~Queued(reports', Life!Prompt)
  BY <1>1, <1>4 DEF PromptInv
<1>6. PromptInv'
  BY <1>1, <1>2, <1>3, <1>5 DEF PromptInv, Past
<1>7. Past' = Past /\ EndDue(reports) = EndDue(reports')
  BY <1>1 DEF Past, EndDue
<1>8. RefusedInv'
  BY <1>1, <1>2, <1>7 DEF RefusedInv
<1> QED
  BY <1>2, <1>6, <1>7, <1>8

\* Nothing in the queue, as the worker starts.
LEMMA StartKeeps ==
  ASSUME reports = <<>>, prompt = FALSE, phase = "starting"
  PROVE  PromptInv /\ RefusedInv /\ ~Asked /\ ~EndDue(reports) /\ ~Past
  BY DEF PromptInv, RefusedInv, Asked, Queued, EndDue, Past

LEMMA TabInit == ASSUME Init PROVE TabInv
<1>1. PICK p \in Policies : g = Reset(p)
  BY DEF Init
<1>2. g.state = "Idle" /\ ~g.needConsent
  BY <1>1 DEF Reset
<1> QED
  BY <1>2, StartKeeps DEF Init, TabInv, ShownInv, Waits, GuardianTerminal

\* Steps that leave the machine, the tab's word and the session alone.
LEMMA LookingKeeps ==
  ASSUME TabInv, UNCHANGED <<g, state, prompt, phase, reports>>,
         prompt => upc' \in {"pump", "consent"}
  PROVE  TabInv'
<1>1. PromptInv' /\ RefusedInv' /\ ShownInv'
  BY DEF TabInv, PromptInv, RefusedInv, ShownInv, Asked, Past
<1> QED
  BY <1>1 DEF TabInv

LEMMA ConnectedKeeps == ASSUME Inv, TabInv, HandleConnected PROVE TabInv'
<1>1. /\ upc = "pump" /\ upc' = "pump" /\ prompt' = prompt /\ Life!Take
      /\ Head(reports) = Life!Connected /\ state' = "Connected"
      /\ g' = [OnConnected(g) EXCEPT !.justReconnected = FALSE]
  BY DEF HandleConnected
<1>2. Head(reports) \notin Life!Ends /\ Life!Connected # Life!Prompt
  BY <1>1, KindsDiffer DEF Life!Connected, Life!Prompt
<1>3. /\ PromptInv' /\ RefusedInv' /\ (Asked' => Asked) /\ Past' = Past
      /\ phase' = phase
  <2>1. prompt' <=> prompt \/ Head(reports) = Life!Prompt
    BY <1>1, <1>2
  <2> QED
    BY <1>1, <1>2, <2>1, TakingKeeps, Taken DEF Inv, TabInv
<1>4. ~Asked /\ (phase = "up" \/ Past)
  <2>1. Queued(reports, Life!Connected)
    BY <1>1, Taken DEF Inv
  <2> QED
    BY <2>1 DEF TabInv, PromptInv
<1>5. g'.state \in {"Connected", "Reconnected"} /\ ~g'.needConsent
  BY <1>1 DEF OnConnected, Inv, Sound, Guardians
<1>6. ShownInv'
  BY <1>1, <1>3, <1>4, <1>5 DEF ShownInv, Waits, GuardianTerminal
<1> QED
  BY <1>3, <1>6 DEF TabInv

LEMMA PromptKeeps == ASSUME Inv, TabInv, HandlePrompt PROVE TabInv'
<1>1. /\ upc = "pump" /\ upc' = "pump" /\ prompt' = TRUE /\ Life!Take
      /\ Head(reports) = Life!Prompt /\ g' = g
  BY DEF HandlePrompt
<1>2. Head(reports) \notin Life!Ends
  BY <1>1, KindsDiffer
<1>3. /\ PromptInv' /\ RefusedInv' /\ (Asked' => Asked) /\ Past' = Past
      /\ EndDue(reports) = EndDue(reports') /\ phase' = phase
  BY <1>1, <1>2, TakingKeeps, Taken DEF Inv, TabInv
<1>4. Asked /\ (Past => EndDue(reports))
  <2>1. Queued(reports, Life!Prompt)
    BY <1>1, Taken DEF Inv
  <2> QED
    BY <2>1 DEF TabInv, RefusedInv, Asked
<1>5. ShownInv'
  BY <1>1, <1>3, <1>4 DEF TabInv, ShownInv
<1> QED
  BY <1>3, <1>5 DEF TabInv

\* The end is handled, and the tab shows what the machine said to it.
LEMMA DropKeeps == ASSUME Inv, TabInv, HandleDrop PROVE TabInv'
<1> DEFINE r == Head(reports)
<1>1. /\ upc = "pump" /\ upc' = "pump" /\ prompt' = prompt /\ Life!Take
      /\ r \in Life!Ends /\ g' = OnDrop(g, r.class)
      /\ state' = StateAfterDrop(g', r.kind)
  BY DEF HandleDrop
<1>2. phase' = phase /\ reports' = <<>> /\ EndDue(reports) /\ r = reports[Len(reports)]
  BY <1>1, Taken DEF Inv
<1>3. Past
  <2>1. 1 \in 1 .. Len(reports) /\ reports[1] \in Life!Ends
    BY <1>1, Taken DEF Inv
  <2> QED
    BY <2>1 DEF Inv, ReportsInv, Past
<1>4. \A x : ~Queued(reports', x)
  BY <1>2 DEF Queued
<1>5. PromptInv' /\ RefusedInv'
  <2>1. Asked' => Asked
    BY <1>1, <1>4 DEF Asked
  <2>2. Past' /\ ~EndDue(reports')
    BY <1>2, <1>3 DEF Past, EndDue
  <2>3. PromptInv'
    BY <1>1, <1>2, <1>4, <2>1, <2>2 DEF TabInv, PromptInv
  <2> QED
    BY <1>4, <2>2, <2>3 DEF RefusedInv
<1>6. prompt => r.class = "HostKeyAttention"
  BY <1>2 DEF TabInv, RefusedInv, Asked
<1>7. r.class \in DropClasses
  BY <1>1, KindsDiffer
<1> HIDE DEF r
<1>8. /\ g'.state \in AfterDrop
      /\ Waits(g') \/ g'.needConsent => r.class = "Transient"
  BY <1>1, <1>7, DropsLeaveIt, DropOutcome DEF Inv, Sound
<1>9. /\ Waits(g') => state' = "Reconnecting"
      /\ g'.state \in GuardianTerminal \cup {"ConnectionLost"}
           => state' \in {"Disconnected", "Error"}
  BY <1>1 DEF StateAfterDrop, Waits, GuardianTerminal
<1>10. ShownInv'
  BY <1>1, <1>2, <1>3, <1>6, <1>8, <1>9 DEF ShownInv, Past, AfterDrop
<1> QED
  BY <1>5, <1>10 DEF TabInv

\* Steps of the machine between frames and in the boxes, while the worker is left
\* alone: what they do to the part that the tab shows.
LEMMA MachineKeeps ==
  ASSUME TabInv, UNCHANGED <<prompt, phase, reports>>,
         prompt => upc' \in {"pump", "consent"},
         Waits(g') \/ g'.needConsent => Past /\ (prompt => EndDue(reports)),
         g'.state \in {"Connected", "Reconnected"} =>
           state' = "Connected" /\ g.state \in {"Connected", "Reconnected"},
         Waits(g') => state' = "Reconnecting" \/ EndDue(reports),
         g'.state \in GuardianTerminal \cup {"ConnectionLost"} =>
           state' \in {"Disconnected", "Error"} \/ ~Past \/ EndDue(reports)
  PROVE  TabInv'
<1>1. PromptInv' /\ RefusedInv' /\ Asked' = Asked /\ Past' = Past
  BY DEF TabInv, PromptInv, RefusedInv, Asked, Past
<1>2. ShownInv'
  BY <1>1 DEF TabInv, ShownInv
<1> QED
  BY <1>1, <1>2 DEF TabInv

LEMMA ConsentKeeps ==
  ASSUME Inv, TabInv, NEW yes \in BOOLEAN, Consent(yes) PROVE TabInv'
<1> DEFINE d == [g EXCEPT !.needConsent = FALSE]
<1>1. /\ upc = "consent" /\ upc' = "consent" /\ UNCHANGED <<prompt, phase, reports>>
      /\ g.needConsent /\ g' = IF yes THEN Schedule(d) ELSE Stop(d, "UserStopped")
      /\ state' = IF yes THEN "Reconnecting" ELSE "Disconnected"
  BY DEF Consent, GrantConsent, session
<1>2. /\ d \in Guardians /\ d.attempt = 0 /\ d.policy = g.policy
      /\ d.policy.limit \in Nat /\ ~d.needConsent
  <2>1. d \in Guardians /\ d.attempt = 0 /\ d.policy = g.policy /\ ~d.needConsent
    BY <1>1 DEF Inv, Sound, Guardians
  <2> QED
    BY <2>1, PolicyOf
<1> HIDE DEF d
<1>3. CASE yes
  <2>1. ~LimitReached(d)
    BY <1>2 DEF LimitReached, NextAttempt
  <2>2. Schedule(d).state = "WaitingToReconnect"
    BY <1>2, <2>1 DEF Schedule, Guardians
  <2> QED
    BY <1>1, <1>3, <2>2, MachineKeeps DEF TabInv, ShownInv, GuardianTerminal
<1>4. CASE ~yes
  <2>1. g'.state = "UserStopped" /\ ~g'.needConsent
    BY <1>1, <1>2, <1>4 DEF Stop, Guardians
  <2> QED
    BY <1>1, <1>4, <2>1, MachineKeeps DEF Waits, GuardianTerminal
<1> QED
  BY <1>3, <1>4

LEMMA BoxKeeps ==
  ASSUME Inv, TabInv, NEW yes \in BOOLEAN, HostKeyBox(yes) PROVE TabInv'
<1>1. /\ upc' = "consent" /\ prompt /\ prompt' = FALSE /\ g' = g /\ reports' = reports
      /\ state' = IF yes THEN state ELSE "Disconnected"
      /\ phase' = IF phase # "asked" THEN phase
                  ELSE IF yes THEN "accepted" ELSE "refused"
  BY DEF HostKeyBox, Life!Answer
<1>2. Past' = Past
  BY <1>1 DEF Past
<1>3. Asked /\ ~Asked' /\ ~Queued(reports', Life!Prompt)
      /\ ~Queued(reports', Life!Connected)
  BY <1>1 DEF TabInv, PromptInv, Asked
<1>4. PromptInv' /\ RefusedInv'
  BY <1>1, <1>3 DEF PromptInv, RefusedInv, Queued
<1>5. ShownInv'
  BY <1>1, <1>2, <1>3 DEF TabInv, ShownInv
<1> QED
  BY <1>4, <1>5 DEF TabInv

LEMMA QuietKeeps == ASSUME Inv, TabInv, QuietTick PROVE TabInv'
<1>1. /\ upc = "tick" /\ UNCHANGED <<prompt, phase, reports>>
      /\ state' \in {state, "Error"}
      /\ state' # state => g.state = "GaveUp" /\ state' = "Error"
  BY DEF QuietTick, session
<1>2. /\ g'.needConsent = g.needConsent
      /\ g'.state = g.state \/ (g'.state = "Connected" /\ g.state = "Reconnected")
  BY DEF QuietTick, Settled, Inv, Sound, Guardians
<1>3. ~prompt
  BY <1>1 DEF TabInv, PromptInv
<1> QED
  BY <1>1, <1>2, <1>3, MachineKeeps DEF TabInv, ShownInv, Waits, GuardianTerminal

LEMMA TimerKeeps == ASSUME Inv, TabInv, TimerRunsOut PROVE TabInv'
<1>1. /\ UNCHANGED <<upc, state, prompt, phase, reports>>
      /\ g'.needConsent = g.needConsent /\ g'.state = g.state
  BY DEF TimerRunsOut, session, app, Inv, Sound, Guardians
<1> QED
  BY <1>1, MachineKeeps DEF TabInv, PromptInv, ShownInv, Waits

LEMMA StopKeeps == ASSUME Inv, TabInv, GuardianStop PROVE TabInv'
<1>1. /\ UNCHANGED <<upc, prompt, phase, reports>> /\ state' = "Disconnected"
      /\ g' = Stop(g, "UserStopped")
  BY DEF GuardianStop, StopByUser, Armed, Inv, Sound, session
<1>2. g'.state = "UserStopped" /\ ~g'.needConsent
  BY <1>1 DEF Stop, Inv, Sound, Guardians
<1> QED
  BY <1>1, <1>2, MachineKeeps DEF TabInv, PromptInv, Waits

LEMMA RetryKeeps == ASSUME Inv, TabInv, GuardianRetryNow PROVE TabInv'
<1>1. /\ UNCHANGED <<upc, prompt, phase, reports>> /\ upc = "idle" /\ Past
      /\ state' = "Reconnecting" /\ g' = RetryNow(g)
  BY DEF GuardianRetryNow, session, Past
<1>2. g'.state = "WaitingToReconnect" /\ ~g'.needConsent
  BY <1>1 DEF RetryNow, Inv, Sound, Guardians
<1>3. ~prompt
  BY <1>1 DEF TabInv, PromptInv
<1> QED
  BY <1>1, <1>2, <1>3, MachineKeeps DEF GuardianTerminal

\* An attempt starts a worker with an empty queue and no box open.
LEMMA ReconnectKeeps == ASSUME Inv, TabInv, StartReconnect PROVE TabInv'
<1>1. /\ upc = "tick" /\ prompt' = prompt /\ g' = Fired(g) /\ ~g.needConsent
      /\ phase' = "starting" /\ reports' = <<>>
  BY DEF StartReconnect, TickFires, Life!Begin
<1>2. ~prompt
  BY <1>1 DEF TabInv, PromptInv
<1>3. g'.state = "Reconnecting" /\ ~g'.needConsent
  BY <1>1 DEF Fired, Inv, Sound, Guardians
<1>4. \A x : ~Queued(reports', x)
  BY <1>1 DEF Queued
<1>5. ~Asked' /\ ~EndDue(reports') /\ ~prompt'
  BY <1>1, <1>2, <1>4 DEF Asked, EndDue
<1>6. PromptInv' /\ RefusedInv'
  BY <1>1, <1>4, <1>5 DEF PromptInv, RefusedInv
<1>7. ShownInv'
  BY <1>3 DEF ShownInv, Waits, GuardianTerminal
<1> QED
  BY <1>6, <1>7 DEF TabInv

\* A manual disconnect leaves the end of a live worker in the queue.
LEMMA DisconnectKeeps == ASSUME Inv, TabInv, UserDisconnect PROVE TabInv'
<1>1. /\ UNCHANGED <<prompt, upc>> /\ Life!Halt
      /\ g' = Stop([g EXCEPT !.userClosed = TRUE], "Idle")
  BY DEF UserDisconnect, Disarm, OnUserDisconnect
<1>2. g'.state = "Idle" /\ ~g'.needConsent
  BY <1>1 DEF Stop, Inv, Sound, Guardians
<1>3. PromptInv' /\ RefusedInv'
  <2>1. CASE phase \in Life!Live
    BY <1>1, <2>1, EndsKeep DEF Life!Halt, Inv, TabInv
  <2>2. CASE phase \notin Life!Live
    <3>1. Past /\ Past' /\ reports' = reports
      BY <1>1, <2>2 DEF Life!Halt, Inv, ReportsInv, Life!TypeOK, Past
    <3> QED
      BY <1>1, <3>1 DEF TabInv, PromptInv, RefusedInv, Asked
  <2> QED
    BY <2>1, <2>2
<1>4. ShownInv'
  BY <1>2 DEF ShownInv, Waits, GuardianTerminal
<1> QED
  BY <1>3, <1>4 DEF TabInv

LEMMA WorkerLeaves == ASSUME Inv, TabInv, Worker PROVE TabInv'
<1>1. Life!Worker /\ UNCHANGED <<g, state, prompt, upc>>
  BY DEF Worker, app
<1>2. /\ PromptInv' /\ RefusedInv'
      /\ Past => Past' /\ reports' = reports
      /\ Past' => Past \/ EndDue(reports')
      /\ phase = "up" => phase' = "up" \/ Past'
      /\ Asked' /\ ~Asked => phase = "starting"
  BY <1>1, WorkerKeeps DEF Inv, TabInv
<1>3. ShownInv'
  <2>1. Waits(g) \/ g.needConsent => Past /\ (prompt => EndDue(reports))
    BY DEF TabInv, ShownInv
  <2>2. g.state \in {"Connected", "Reconnected"} =>
          state = "Connected" /\ ~Asked /\ (phase = "up" \/ Past)
    BY DEF TabInv, ShownInv
  <2>3. phase = "starting" => ~Past
    BY DEF Past
  <2> QED
    BY <1>1, <1>2, <2>1, <2>2, <2>3 DEF TabInv, ShownInv
<1> QED
  BY <1>2, <1>3 DEF TabInv

LEMMA TabStep == ASSUME Inv, TabInv, [Next]_vars PROVE TabInv'
<1>1. CASE BeginFrame \/ PumpDone \/ PumpReturns \/ Minimize \/ UNCHANGED vars
  <2>1. UNCHANGED <<g, state, prompt, phase, reports>>
    BY <1>1 DEF BeginFrame, PumpDone, PumpReturns, Minimize, vars, session, app
  <2>2. prompt => upc' \in {"pump", "consent"}
    BY <1>1 DEF BeginFrame, PumpDone, PumpReturns, Minimize, vars, app, TabInv, PromptInv
  <2> QED
    BY <2>1, <2>2, LookingKeeps
<1>2. ASSUME NEW yes \in BOOLEAN, Consent(yes) \/ HostKeyBox(yes) PROVE TabInv'
  BY <1>2, ConsentKeeps, BoxKeeps
<1> QED
  BY <1>1, <1>2, ConnectedKeeps, PromptKeeps, DropKeeps, QuietKeeps, ReconnectKeeps,
     TimerKeeps, DisconnectKeeps, StopKeeps, RetryKeeps, WorkerLeaves DEF Next, Frame, User

\* What the tab shows is true whenever no report waits: a link that is up is shown up,
\* a wait as a wait, and an outage that ended without the link as neither
\* (PumpSshEvents, RenderFrame and the user's commands in app.cpp).
THEOREM TabIsHonest == Spec => []TabTellsTheTruth
<1>1. TabInv => TabTellsTheTruth
  <2>1. ASSUME reports = <<>> PROVE ~EndDue(reports)
    BY <2>1 DEF EndDue
  <2>2. phase = "stopped" => Past
    BY DEF Past
  <2> QED
    BY <2>1, <2>2 DEF TabInv, ShownInv, TabTellsTheTruth, Waits
<1> QED
  BY <1>1, TabInit, TabStep, Invariance, PTL DEF Spec

----------------------------------------------------------------------------
(* Desk.                                                                   *)

----------------------------------------------------------------------------
(* Paths.                                                                  *)

Nodes == Seq({1, 2})

\* A set of numbers that is not empty has a least one.
LEMMA Least == ASSUME NEW T, T \subseteq Nat, T # {} PROVE \E m \in T : \A k \in T : m <= k
<1> DEFINE R == OpToRel(<, Nat)
<1>1. IsWellFoundedOn(R, Nat)
  BY NatLessThanWellFounded, Zenon
<1>2. \A y, z \in Nat : y < z => <<y, z>> \in R
  BY Zenon DEF OpToRel
<1> HIDE DEF R
<1>3. PICK x \in T : \A y \in T : ~(<<y, x>> \in R)
  BY <1>1, WFMin, Zenon
<1>4. \A y \in T : y \in Nat /\ ~(y < x) /\ x \in Nat
  BY <1>2, <1>3
<1> QED
  BY <1>3, <1>4

\* The beginning of a path is one, as long as asked, with the same steps.
LEMMA Begins ==
  ASSUME NEW n \in Nodes, NEW k \in 0 .. Len(n)
  PROVE  /\ SubSeq(n, 1, k) \in Nodes /\ Len(SubSeq(n, 1, k)) = k
         /\ \A i \in 1 .. k : SubSeq(n, 1, k)[i] = n[i]
  BY DEF Nodes

\* A path has a length, and its steps go to a first or a second child.
LEMMA Steps == ASSUME NEW n \in Nodes PROVE Len(n) \in Nat /\ DOMAIN n = 1 .. Len(n) /\ \A i \in 1 .. Len(n) : n[i] \in {1, 2}
  BY DEF Nodes

\* One step further.
LEMMA Further ==
  ASSUME NEW n \in Nodes, NEW c \in {1, 2}
  PROVE  /\ Append(n, c) \in Nodes /\ Len(Append(n, c)) = Len(n) + 1 /\ Append(n, c)[Len(n) + 1] = c
         /\ \A i \in 1 .. Len(n) : Append(n, c)[i] = n[i]
  BY DEF Nodes

\* Paths with the same steps are the same.
LEMMA SamePath ==
  ASSUME NEW m \in Nodes, NEW n \in Nodes, Len(m) = Len(n), \A i \in 1 .. Len(m) : m[i] = n[i]
  PROVE  m = n
  BY SeqEqual DEF Nodes

\* A path that begins another, by their steps.
LEMMA PrefixIs ==
  ASSUME NEW m \in Nodes, NEW n \in Nodes
  PROVE  IsPrefix(m, n) <=> Len(m) <= Len(n) /\ \A i \in 1 .. Len(m) : m[i] = n[i]
<1>1. Len(m) \in Nat /\ Len(n) \in Nat
  BY Steps
<1>2. CASE ~(Len(m) <= Len(n))
  BY <1>2 DEF IsPrefix
<1>3. CASE Len(m) <= Len(n)
  <2> DEFINE a == SubSeq(m, 1, Len(m))  b == SubSeq(n, 1, Len(m))
  <2>1. /\ a \in Nodes /\ Len(a) = Len(m) /\ \A i \in 1 .. Len(m) : a[i] = m[i]
        /\ b \in Nodes /\ Len(b) = Len(m) /\ \A i \in 1 .. Len(m) : b[i] = n[i]
    BY <1>1, <1>3, Begins
  <2> HIDE DEF a, b
  <2>2. a = b <=> \A i \in 1 .. Len(m) : m[i] = n[i]
    BY <2>1, SamePath
  <2> QED
    BY <1>3, <2>2 DEF IsPrefix, a, b
<1> QED
  BY <1>2, <1>3

\* Of two paths neither of which begins the other one comes first.
LEMMA OneIsEarlier ==
  ASSUME NEW m \in Nodes, NEW n \in Nodes, ~IsPrefix(m, n), ~IsPrefix(n, m)
  PROVE  Earlier(m, n) \/ Earlier(n, m)
<1> DEFINE D == {i \in 1 .. Len(m) : i <= Len(n) /\ m[i] # n[i]}
<1>1. Len(m) \in Nat /\ Len(n) \in Nat /\ DOMAIN m = 1 .. Len(m) /\ DOMAIN n = 1 .. Len(n)
  BY Steps
<1>2. D # {} /\ D \subseteq Nat
  BY <1>1, PrefixIs
<1>3. PICK i \in D : \A j \in D : i <= j
  BY <1>2, Least
<1>4. \A j \in 1 .. i - 1 : m[j] = n[j]
  BY <1>1, <1>3
<1>5. m[i] \in {1, 2} /\ n[i] \in {1, 2} /\ m[i] # n[i] /\ i \in DOMAIN m \cap DOMAIN n
  BY <1>1, <1>3, Steps
<1>6. m[i] < n[i] \/ n[i] < m[i]
  BY <1>5
<1> QED
  BY <1>4, <1>5, <1>6 DEF Earlier

\* No path comes before itself, and the order is transitive.
LEMMA EarlierOrders ==
  /\ \A m \in Nodes : ~Earlier(m, m)
  /\ \A l, m, n \in Nodes : Earlier(l, m) /\ Earlier(m, n) => Earlier(l, n)
<1>1. ASSUME NEW m \in Nodes PROVE ~Earlier(m, m)
  <2>1. \A i \in DOMAIN m : m[i] \in {1, 2}
    BY Steps
  <2> QED
    BY <2>1 DEF Earlier
<1>2. ASSUME NEW l \in Nodes, NEW m \in Nodes, NEW n \in Nodes, Earlier(l, m), Earlier(m, n) PROVE Earlier(l, n)
  <2>1. /\ Len(l) \in Nat /\ DOMAIN l = 1 .. Len(l) /\ \A i \in 1 .. Len(l) : l[i] \in {1, 2}
        /\ Len(m) \in Nat /\ DOMAIN m = 1 .. Len(m) /\ \A i \in 1 .. Len(m) : m[i] \in {1, 2}
        /\ Len(n) \in Nat /\ DOMAIN n = 1 .. Len(n) /\ \A i \in 1 .. Len(n) : n[i] \in {1, 2}
    BY Steps
  <2>2. PICK i \in DOMAIN l \cap DOMAIN m : l[i] < m[i] /\ \A j \in 1 .. i - 1 : l[j] = m[j]
    BY <1>2 DEF Earlier
  <2>3. PICK k \in DOMAIN m \cap DOMAIN n : m[k] < n[k] /\ \A j \in 1 .. k - 1 : m[j] = n[j]
    BY <1>2 DEF Earlier
  <2>4. CASE i <= k
    <3>1. i \in DOMAIN l \cap DOMAIN n
      BY <2>1, <2>2, <2>3, <2>4
    <3>2. l[i] < n[i]
      <4>1. CASE i = k
        BY <2>1, <2>2, <2>3, <4>1, <3>1
      <4>2. CASE i < k
        BY <2>1, <2>2, <2>3, <4>2
      <4> QED
        BY <2>1, <2>4, <4>1, <4>2
    <3>3. \A j \in 1 .. i - 1 : l[j] = n[j]
      BY <2>1, <2>2, <2>3, <2>4
    <3> QED
      BY <3>1, <3>2, <3>3 DEF Earlier
  <2>5. CASE k < i
    <3>1. k \in DOMAIN l \cap DOMAIN n
      BY <2>1, <2>2, <2>3, <2>5
    <3>2. l[k] < n[k]
      BY <2>1, <2>2, <2>3, <2>5
    <3>3. \A j \in 1 .. k - 1 : l[j] = n[j]
      BY <2>1, <2>2, <2>3, <2>5
    <3> QED
      BY <3>1, <3>2, <3>3 DEF Earlier
  <2> QED
    BY <2>1, <2>4, <2>5
<1> QED
  BY <1>1, <1>2

----------------------------------------------------------------------------
(* Trees.                                                                  *)

\* A tree in which no pane is twice.
Proper(t) == IsTree(t) /\ \A m, n \in Leaves(t) : t[m].pane = t[n].pane => m = n

\* The nodes of a tree are paths.
LEMMA TreeNodes ==
  ASSUME NEW t, IsTree(t)
  PROVE  /\ DOMAIN t \subseteq Nodes /\ Leaves(t) \subseteq DOMAIN t
         /\ IsFiniteSet(DOMAIN t) /\ IsFiniteSet(Leaves(t)) /\ Count(t) \in Nat
<1>1. /\ DOMAIN t \subseteq Nodes /\ Leaves(t) \subseteq DOMAIN t /\ IsFiniteSet(DOMAIN t)
  BY DEF IsTree, Nodes, Leaves
<1> QED
  BY <1>1, FS_Subset, FS_CardinalityType DEF Count

\* No leaf is on the way to another.
LEMMA LeavesApart ==
  ASSUME NEW t, IsTree(t), NEW m \in Leaves(t), NEW n \in DOMAIN t, m # n
  PROVE  ~IsPrefix(m, n)
<1> SUFFICES ASSUME IsPrefix(m, n) PROVE FALSE
  OBVIOUS
<1>1. m \in Nodes /\ n \in Nodes /\ m \in DOMAIN t
  BY TreeNodes
<1>2. Len(m) <= Len(n) /\ \A i \in 1 .. Len(m) : m[i] = n[i]
  BY <1>1, PrefixIs
<1>3. Len(m) \in Nat /\ Len(n) \in Nat /\ \A i \in 1 .. Len(n) : n[i] \in {1, 2}
  BY <1>1, Steps
<1>4. Len(m) < Len(n)
  BY <1>1, <1>2, <1>3, SamePath
<1> DEFINE c == n[Len(m) + 1]  b == SubSeq(n, 1, Len(m) + 1)
<1>5. c \in {1, 2} /\ Len(m) + 1 \in 0 .. Len(n)
  BY <1>3, <1>4
<1>6. b \in Nodes /\ Len(b) = Len(m) + 1 /\ \A i \in 1 .. Len(m) + 1 : b[i] = n[i]
  BY <1>1, <1>5, Begins
<1>7. b \in DOMAIN t
  BY <1>5 DEF IsTree
<1> HIDE DEF b
<1>8. Append(m, c) = b
  <2>1. /\ Append(m, c) \in Nodes /\ Len(Append(m, c)) = Len(m) + 1 /\ Append(m, c)[Len(m) + 1] = c
        /\ \A i \in 1 .. Len(m) : Append(m, c)[i] = m[i]
    BY <1>1, <1>5, Further
  <2> DEFINE a == Append(m, c)
  <2>2. \A i \in 1 .. Len(a) : a[i] = b[i]
    BY <1>2, <1>3, <1>6, <2>1
  <2> HIDE DEF a
  <2> QED
    BY <1>6, <2>1, <2>2, SamePath DEF a
<1>9. Append(m, 1) \in DOMAIN t
  <2>1. Append(m, 1) \in DOMAIN t <=> Append(m, 2) \in DOMAIN t
    BY <1>1 DEF IsTree
  <2> HIDE DEF c
  <2> QED
    BY <1>5, <1>7, <1>8, <2>1
<1> QED
  BY <1>9 DEF Leaves, IsLeaf

\* A tree has more nodes than any of its paths has steps.
LEMMA PathsBounded ==
  ASSUME NEW t, IsTree(t), NEW n \in DOMAIN t
  PROVE  Cardinality(DOMAIN t) \in Nat /\ Len(n) < Cardinality(DOMAIN t)
<1> DEFINE K == 0 .. Len(n)
           f == [k \in K |-> SubSeq(n, 1, k)]
<1>1. n \in Nodes /\ Len(n) \in Nat /\ IsFiniteSet(DOMAIN t)
  BY TreeNodes, Steps
<1>2. f \in [K -> DOMAIN t]
  BY DEF IsTree
<1>3. \A j, k \in K : f[j] = f[k] => j = k
  <2>1. \A k \in K : f[k] = SubSeq(n, 1, k)
    OBVIOUS
  <2> HIDE DEF f
  <2>2. \A k \in K : Len(f[k]) = k
    BY <1>1, <2>1, Begins
  <2> QED
    BY <2>2
<1>4. f \in Injection(K, DOMAIN t)
  BY <1>2, <1>3, Zenon DEF Injection, IsInjective
<1>5. Cardinality(K) <= Cardinality(DOMAIN t)
  BY <1>1, <1>4, FS_Injection
<1>6. Cardinality(K) = Len(n) + 1
  <2>1. 0 \in Int /\ Len(n) \in Int /\ ~(0 > Len(n)) /\ Len(n) - 0 + 1 = Len(n) + 1
    BY <1>1
  <2> QED
    BY <2>1, FS_Interval
<1>7. Cardinality(DOMAIN t) \in Nat
  BY <1>1, FS_CardinalityType
<1> QED
  BY <1>1, <1>5, <1>6, <1>7

\* A tree has a leaf: the end of its longest path.
LEMMA HasLeaf == ASSUME NEW t, IsTree(t) PROVE Leaves(t) # {} /\ Count(t) \in Nat \ {0}
<1> DEFINE C == Cardinality(DOMAIN t)
           S == {k \in Nat : \E n \in DOMAIN t : k = C - Len(n)}
<1>1. C \in Nat /\ \A n \in DOMAIN t : Len(n) \in Nat /\ Len(n) < C
  BY PathsBounded, TreeNodes, Steps DEF IsTree
<1> HIDE DEF C
<1>2. <<>> \in DOMAIN t
  BY DEF IsTree
<1>3. S # {} /\ S \subseteq Nat
  <2>1. C - Len(<<>>) \in S
    BY <1>1, <1>2
  <2> QED
    BY <2>1
<1>4. PICK k \in S : \A j \in S : k <= j
  BY <1>3, Least
<1>5. PICK n \in DOMAIN t : k = C - Len(n)
  BY <1>4
<1>6. Append(n, 1) \notin DOMAIN t
  <2> SUFFICES ASSUME Append(n, 1) \in DOMAIN t PROVE FALSE
    OBVIOUS
  <2>1. n \in Nodes /\ Len(Append(n, 1)) = Len(n) + 1
    BY TreeNodes, Further
  <2>2. Len(n) \in Nat /\ Len(n) + 1 < C
    BY <1>1, <2>1
  <2> DEFINE j == C - (Len(n) + 1)
  <2>3. j \in Nat /\ j = C - Len(Append(n, 1)) /\ j < k
    BY <1>1, <1>5, <2>1, <2>2
  <2> HIDE DEF j
  <2>4. j \in S
    BY <2>3
  <2> HIDE DEF S
  <2> QED
    BY <1>4, <1>5, <1>1, <2>2, <2>3, <2>4
<1>7. n \in Leaves(t)
  BY <1>6 DEF Leaves, IsLeaf
<1> QED
  BY <1>7, TreeNodes, FS_EmptySet DEF Count

\* The panes of a tree in order: each of them, and nothing else.
LEMMA PanesAre ==
  ASSUME NEW t, IsTree(t)
  PROVE  /\ Panes(t) \in Seq(PanesOf(t)) /\ Len(Panes(t)) = Count(t) /\ DOMAIN Panes(t) = 1 .. Count(t)
         /\ \A p \in PanesOf(t) : \E i \in DOMAIN Panes(t) : Panes(t)[i] = p
<1> DEFINE L == Leaves(t)  c == Count(t)
           rank == [n \in L |-> Cardinality(Before(t, n)) + 1]
<1>1. c \in Nat /\ IsFiniteSet(L) /\ c = Cardinality(L) /\ L \subseteq Nodes /\ L \subseteq DOMAIN t
  BY TreeNodes DEF Count
<1>2. \A n \in L : Before(t, n) \subseteq L /\ n \notin Before(t, n)
  BY <1>1, EarlierOrders DEF Before
<1>3. \A n \in L : IsFiniteSet(Before(t, n)) /\ Cardinality(Before(t, n)) \in 0 .. c - 1
  <2> SUFFICES ASSUME NEW n \in L
               PROVE  IsFiniteSet(Before(t, n)) /\ Cardinality(Before(t, n)) \in 0 .. c - 1
    OBVIOUS
  <2>1. Before(t, n) \in SUBSET L /\ Before(t, n) # L
    BY <1>2
  <2>2. IsFiniteSet(Before(t, n)) /\ Cardinality(Before(t, n)) <= c /\ Cardinality(Before(t, n)) # c
    BY <1>1, <2>1, FS_Subset
  <2> QED
    BY <1>1, <2>2, FS_CardinalityType
<1>4. \A m, n \in L : Earlier(m, n) => Cardinality(Before(t, m)) < Cardinality(Before(t, n))
  <2> SUFFICES ASSUME NEW m \in L, NEW n \in L, Earlier(m, n)
               PROVE  Cardinality(Before(t, m)) < Cardinality(Before(t, n))
    OBVIOUS
  <2>1. Before(t, m) \in SUBSET Before(t, n)
    BY <1>1, EarlierOrders DEF Before
  <2>2. m \in Before(t, n) /\ m \notin Before(t, m)
    BY <1>2 DEF Before
  <2>3. /\ Cardinality(Before(t, m)) <= Cardinality(Before(t, n))
        /\ Cardinality(Before(t, m)) # Cardinality(Before(t, n))
    BY <1>3, <2>1, <2>2, FS_Subset
  <2> QED
    BY <1>3, <2>3
<1>5. \A m, n \in L : m # n => Earlier(m, n) \/ Earlier(n, m)
  BY <1>1, LeavesApart, OneIsEarlier
<1>6. rank \in [L -> 1 .. c]
  BY <1>1, <1>3
<1>7. \A m, n \in L : rank[m] = rank[n] => m = n
  <2>1. \A n \in L : rank[n] = Cardinality(Before(t, n)) + 1
    OBVIOUS
  <2> QED
    BY <1>3, <1>4, <1>5, <2>1
<1>8. rank \in Injection(L, 1 .. c)
  BY <1>6, <1>7, Zenon DEF Injection, IsInjective
<1>9. IsFiniteSet(1 .. c) /\ Cardinality(1 .. c) = c
  <2>1. 1 \in Int /\ c \in Int /\ (IF 1 > c THEN 0 ELSE c - 1 + 1) = c
    BY <1>1
  <2> QED
    BY <2>1, FS_Interval
<1>10. rank \in Surjection(L, 1 .. c)
  BY <1>1, <1>8, <1>9, FS_Injection
<1>11. \A i \in 1 .. c : \E n \in L : Cardinality(Before(t, n)) = i - 1
  <2> SUFFICES ASSUME NEW i \in 1 .. c PROVE \E n \in L : Cardinality(Before(t, n)) = i - 1
    OBVIOUS
  <2>1. PICK n \in L : rank[n] = i
    BY <1>10, Zenon DEF Surjection
  <2>2. Cardinality(Before(t, n)) + 1 = i
    BY <2>1
  <2> QED
    BY <1>1, <1>3, <2>2
<1> DEFINE at(i) == CHOOSE n \in L : Cardinality(Before(t, n)) = i - 1
<1>12. \A i \in 1 .. c : at(i) \in L /\ Cardinality(Before(t, at(i))) = i - 1
  BY <1>11
<1>13. Panes(t) = [i \in 1 .. c |-> t[at(i)].pane]
  BY DEF Panes
<1> HIDE DEF at
<1>14. \A i \in 1 .. c : t[at(i)].pane \in PanesOf(t)
  BY <1>12 DEF PanesOf
<1>15. Panes(t) \in Seq(PanesOf(t)) /\ Len(Panes(t)) = c /\ DOMAIN Panes(t) = 1 .. c
  BY <1>1, <1>13, <1>14
<1>16. ASSUME NEW p \in PanesOf(t) PROVE \E i \in 1 .. c : Panes(t)[i] = p
  <2>1. PICK n \in L : t[n].pane = p
    BY DEF PanesOf
  <2> DEFINE i == Cardinality(Before(t, n)) + 1
  <2>2. i \in 1 .. c /\ Cardinality(Before(t, n)) = i - 1
    BY <1>1, <1>3
  <2> HIDE DEF i
  <2>3. at(i) = n
    <3>1. at(i) \in L /\ Cardinality(Before(t, at(i))) = Cardinality(Before(t, n))
      BY <1>12, <2>2
    <3> QED
      BY <1>3, <1>4, <1>5, <3>1
  <2> QED
    BY <1>13, <2>1, <2>2, <2>3
<1> QED
  BY <1>15, <1>16

\* The first of some panes is one of them.
LEMMA FirstIs ==
  ASSUME NEW t, IsTree(t), NEW ps, ps \cap PanesOf(t) # {}
  PROVE  First(t, ps) \in ps \cap PanesOf(t)
<1> DEFINE all == Panes(t)
           S == {i \in DOMAIN all : all[i] \in ps}
<1>1. all \in Seq(PanesOf(t)) /\ DOMAIN all = 1 .. Count(t) /\ Count(t) \in Nat
      /\ \A p \in PanesOf(t) : \E i \in DOMAIN all : all[i] = p
  BY PanesAre, TreeNodes
<1> HIDE DEF all
<1>2. S \subseteq Nat /\ S # {}
  BY <1>1
<1>3. PICK k \in S : \A j \in S : k <= j
  BY <1>2, Least
<1> DEFINE Is(i) == all[i] \in ps /\ \A j \in 1 .. i - 1 : all[j] \notin ps
<1>4. k \in DOMAIN all /\ Is(k)
  BY <1>1, <1>3
<1>5. First(t, ps) = all[CHOOSE i \in DOMAIN all : Is(i)]
  BY DEF First, all
<1> DEFINE i == CHOOSE i \in DOMAIN all : Is(i)
<1>6. i \in DOMAIN all /\ Is(i)
  BY <1>4
<1> HIDE DEF i
<1>7. all[i] \in ps /\ all[i] \in PanesOf(t)
  BY <1>1, <1>6
<1> QED
  BY <1>5, <1>7 DEF i

\* What comes after or before a pane is a pane.
LEMMA CycleIs ==
  ASSUME NEW t, IsTree(t) \/ t = Empty, NEW from, NEW delta \in {1, -1}
  PROVE  Cycle(t, from, delta) \in PanesOf(t) \cup {NoPane}
<1> DEFINE all == Panes(t)
<1>1. CASE t = Empty
  <2>1. Leaves(t) = {} /\ Count(t) = 0
    BY <1>1, FS_EmptySet DEF Leaves, Count, Empty
  <2>2. Panes(t) = <<>>
    BY <2>1 DEF Panes
  <2> QED
    BY <2>2 DEF Cycle
<1>2. CASE IsTree(t)
  <2>1. all \in Seq(PanesOf(t)) /\ DOMAIN all = 1 .. Len(all) /\ Len(all) \in Nat \ {0}
    BY <1>2, PanesAre, HasLeaf
  <2> DEFINE i == CHOOSE i \in DOMAIN all : all[i] = from
             j == ((i - 1 + delta) % Len(all)) + 1
  <2>2. Cycle(t, from, delta) = IF all = <<>> THEN NoPane ELSE IF from \notin Range(all) THEN all[1] ELSE all[j]
    BY DEF Cycle
  <2> HIDE DEF all
  <2>3. CASE from \notin Range(all)
    BY <2>1, <2>2, <2>3
  <2>4. CASE from \in Range(all)
    <3>1. i \in DOMAIN all
      BY <2>4 DEF Range
    <3> HIDE DEF i
    <3>2. i - 1 + delta \in Int
      BY <2>1, <3>1
    <3>3. (i - 1 + delta) % Len(all) \in 0 .. Len(all) - 1
      BY <2>1, <3>2
    <3>4. j \in 1 .. Len(all)
      BY <2>1, <3>3
    <3> QED
      BY <2>1, <2>2, <2>4, <3>4
  <2> QED
    BY <2>3, <2>4
<1> QED
  BY <1>1, <1>2

\* Paths joined and taken apart.
LEMMA Joined ==
  ASSUME NEW a \in Nodes, NEW b \in Nodes
  PROVE  /\ a \o b \in Nodes /\ Len(a \o b) = Len(a) + Len(b)
         /\ \A i \in 1 .. Len(a) : (a \o b)[i] = a[i]
         /\ \A i \in 1 .. Len(b) : (a \o b)[Len(a) + i] = b[i]
  BY DEF Nodes

LEMMA Ends ==
  ASSUME NEW n \in Nodes, NEW k \in 0 .. Len(n)
  PROVE  /\ SubSeq(n, k + 1, Len(n)) \in Nodes /\ Len(SubSeq(n, k + 1, Len(n))) = Len(n) - k
         /\ \A i \in 1 .. Len(n) - k : SubSeq(n, k + 1, Len(n))[i] = n[k + i]
  BY DEF Nodes

\* A path is what it begins with and the rest.
LEMMA BeginsWith ==
  ASSUME NEW a \in Nodes, NEW n \in Nodes, IsPrefix(a, n)
  PROVE  /\ SubSeq(n, Len(a) + 1, Len(n)) \in Nodes
         /\ n = a \o SubSeq(n, Len(a) + 1, Len(n))
<1> DEFINE b == SubSeq(n, Len(a) + 1, Len(n))  ab == a \o b
<1>1. Len(a) \in 0 .. Len(n) /\ Len(n) \in Nat /\ \A i \in 1 .. Len(a) : a[i] = n[i]
  BY PrefixIs, Steps
<1>2. b \in Nodes /\ Len(b) = Len(n) - Len(a) /\ \A i \in 1 .. Len(n) - Len(a) : b[i] = n[Len(a) + i]
  BY <1>1, Ends
<1> HIDE DEF b
<1>3. /\ ab \in Nodes /\ Len(ab) = Len(a) + Len(b)
      /\ \A i \in 1 .. Len(a) : ab[i] = a[i]
      /\ \A i \in 1 .. Len(b) : ab[Len(a) + i] = b[i]
  BY <1>2, Joined
<1> HIDE DEF ab
<1>4. \A i \in 1 .. Len(n) : ab[i] = n[i]
  <2> SUFFICES ASSUME NEW i \in 1 .. Len(n) PROVE ab[i] = n[i]
    OBVIOUS
  <2>1. CASE i <= Len(a)
    BY <1>1, <1>3, <2>1
  <2>2. CASE i > Len(a)
    <3>1. i - Len(a) \in 1 .. Len(b) /\ Len(a) + (i - Len(a)) = i
      BY <1>1, <1>2, <2>2
    <3> QED
      BY <1>2, <1>3, <3>1
  <2> QED
    BY <1>1, <2>1, <2>2
<1>5. ab = n
  BY <1>1, <1>2, <1>3, <1>4, SamePath
<1> QED
  BY <1>2, <1>5 DEF ab, b

\* What follows a common beginning tells paths apart.
LEMMA SameEnd ==
  ASSUME NEW a \in Nodes, NEW b \in Nodes
  PROVE  /\ IsPrefix(a, a \o b)
         /\ SubSeq(a \o b, Len(a) + 1, Len(a \o b)) = b
         /\ a \o b = a => b = <<>>
<1> DEFINE ab == a \o b  e == SubSeq(ab, Len(a) + 1, Len(ab))
<1>1. /\ ab \in Nodes /\ Len(ab) = Len(a) + Len(b) /\ Len(a) \in Nat /\ Len(b) \in Nat
      /\ \A i \in 1 .. Len(a) : ab[i] = a[i]
      /\ \A i \in 1 .. Len(b) : ab[Len(a) + i] = b[i]
  BY Joined, Steps
<1> HIDE DEF ab
<1>2. IsPrefix(a, ab)
  BY <1>1, PrefixIs
<1>3. e \in Nodes /\ Len(e) = Len(ab) - Len(a) /\ \A i \in 1 .. Len(ab) - Len(a) : e[i] = ab[Len(a) + i]
  <2>1. Len(a) \in 0 .. Len(ab)
    BY <1>1
  <2> QED
    BY <1>1, <2>1, Ends
<1> HIDE DEF e
<1>4. Len(e) = Len(b) /\ \A i \in 1 .. Len(e) : e[i] = b[i]
  BY <1>1, <1>3
<1>5. e = b
  BY <1>3, <1>4, SamePath
<1>6. ab = a => b = <<>>
  <2>1. ab = a => Len(b) = 0
    BY <1>1
  <2> QED
    BY <2>1 DEF Nodes
<1> QED
  BY <1>2, <1>5, <1>6 DEF ab, e

\* One step further after the rest.
LEMMA FurtherOn ==
  ASSUME NEW a \in Nodes, NEW b \in Nodes, NEW c \in {1, 2}
  PROVE  Append(a \o b, c) = a \o Append(b, c)
<1> DEFINE x == Append(a \o b, c)  y == a \o Append(b, c)
<1>1. x \in Nodes /\ y \in Nodes /\ Len(x) = Len(y)
  BY DEF Nodes
<1>2. \A i \in 1 .. Len(x) : x[i] = y[i]
  BY DEF Nodes
<1> HIDE DEF x, y
<1>3. x = y
  BY <1>1, <1>2, SamePath
<1> QED
  BY <1>3 DEF x, y

\* The beginning of a path that has been joined.
LEMMA BeginsJoined ==
  ASSUME NEW a \in Nodes, NEW b \in Nodes, NEW k \in 0 .. Len(a \o b)
  PROVE  IF k <= Len(a) THEN SubSeq(a \o b, 1, k) = SubSeq(a, 1, k)
         ELSE k - Len(a) \in 0 .. Len(b) /\ SubSeq(a \o b, 1, k) = a \o SubSeq(b, 1, k - Len(a))
<1> DEFINE ab == a \o b  x == SubSeq(ab, 1, k)
<1>1. /\ ab \in Nodes /\ Len(ab) = Len(a) + Len(b) /\ Len(a) \in Nat /\ Len(b) \in Nat
      /\ \A i \in 1 .. Len(a) : ab[i] = a[i]
      /\ \A i \in 1 .. Len(b) : ab[Len(a) + i] = b[i]
  BY Joined, Steps
<1> HIDE DEF ab
<1>2. x \in Nodes /\ Len(x) = k /\ \A i \in 1 .. k : x[i] = ab[i]
  BY <1>1, Begins DEF ab
<1> HIDE DEF x
<1>3. CASE k <= Len(a)
  <2> DEFINE y == SubSeq(a, 1, k)
  <2>1. y \in Nodes /\ Len(y) = k /\ \A i \in 1 .. k : y[i] = a[i]
    BY <1>1, <1>3, Begins
  <2> HIDE DEF y
  <2>2. \A i \in 1 .. Len(x) : x[i] = y[i]
    BY <1>1, <1>2, <1>3, <2>1
  <2>3. x = y
    BY <1>2, <2>1, <2>2, SamePath
  <2> QED
    BY <1>3, <2>3 DEF x, y, ab
<1>4. CASE ~(k <= Len(a))
  <2> DEFINE j == k - Len(a)  z == SubSeq(b, 1, j)  y == a \o z
  <2>1. j \in 0 .. Len(b) /\ Len(a) + j = k
    BY <1>1, <1>4 DEF ab
  <2> HIDE DEF j
  <2>2. z \in Nodes /\ Len(z) = j /\ \A i \in 1 .. j : z[i] = b[i]
    BY <2>1, Begins
  <2> HIDE DEF z
  <2>3. /\ y \in Nodes /\ Len(y) = Len(a) + Len(z)
        /\ \A i \in 1 .. Len(a) : y[i] = a[i]
        /\ \A i \in 1 .. Len(z) : y[Len(a) + i] = z[i]
    BY <2>2, Joined
  <2> HIDE DEF y
  <2>4. \A i \in 1 .. Len(x) : x[i] = y[i]
    <3> SUFFICES ASSUME NEW i \in 1 .. k PROVE x[i] = y[i]
      BY <1>2
    <3>1. CASE i <= Len(a)
      BY <1>1, <1>2, <2>3, <3>1
    <3>2. CASE i > Len(a)
      <4> DEFINE e == i - Len(a)
      <4>1. e \in 1 .. j /\ e \in 1 .. Len(b) /\ Len(a) + e = i
        BY <1>1, <2>1, <3>2
      <4> HIDE DEF e
      <4>2. ab[Len(a) + e] = b[e] /\ y[Len(a) + e] = z[e] /\ z[e] = b[e]
        BY <1>1, <2>2, <2>3, <4>1
      <4> QED
        BY <1>2, <4>1, <4>2
    <3> QED
      BY <1>1, <3>1, <3>2
  <2>5. x = y
    BY <1>2, <2>1, <2>2, <2>3, <2>4, SamePath
  <2> QED
    BY <1>4, <2>1, <2>5 DEF x, y, z, ab, j
<1> QED
  BY <1>3, <1>4

\* Of a path and one that is a step longer the same paths are the beginning, but
\* for the longer one itself.
LEMMA PrefixOfFurther ==
  ASSUME NEW a \in Nodes, NEW n \in Nodes, NEW c \in {1, 2}, IsPrefix(a, Append(n, c))
  PROVE  IsPrefix(a, n) \/ a = Append(n, c)
<1>1. /\ Append(n, c) \in Nodes /\ Len(Append(n, c)) = Len(n) + 1
      /\ \A i \in 1 .. Len(n) : Append(n, c)[i] = n[i]
  BY Further
<1>2. /\ Len(a) \in Nat /\ Len(n) \in Nat /\ Len(a) <= Len(n) + 1
      /\ \A i \in 1 .. Len(a) : a[i] = Append(n, c)[i]
  BY <1>1, PrefixIs, Steps
<1>3. CASE Len(a) <= Len(n)
  BY <1>1, <1>2, <1>3, PrefixIs
<1>4. CASE ~(Len(a) <= Len(n))
  <2>1. Len(a) = Len(Append(n, c))
    BY <1>1, <1>2, <1>4
  <2> QED
    BY <1>1, <1>2, <2>1, SamePath
<1> QED
  BY <1>3, <1>4

\* What a beginning begins with the whole begins with.
LEMMA PrefixOfBegin ==
  ASSUME NEW a \in Nodes, NEW n \in Nodes, NEW k \in 0 .. Len(n), IsPrefix(a, SubSeq(n, 1, k))
  PROVE  IsPrefix(a, n) /\ Len(a) <= k
<1> DEFINE b == SubSeq(n, 1, k)
<1>1. b \in Nodes /\ Len(b) = k /\ \A i \in 1 .. k : b[i] = n[i]
  BY Begins
<1> HIDE DEF b
<1>2. Len(a) \in Nat /\ Len(n) \in Nat
  BY Steps
<1>3. Len(a) <= k /\ \A i \in 1 .. Len(a) : a[i] = b[i]
  BY <1>1, PrefixIs DEF b
<1> QED
  BY <1>1, <1>2, <1>3, PrefixIs

\* The last step of a path, and the way to it.
LEMMA LastStep ==
  ASSUME NEW n \in Nodes, n # <<>>
  PROVE  /\ Len(n) \in Nat \ {0} /\ Last(n) \in {1, 2} /\ Front(n) \in Nodes /\ Len(Front(n)) = Len(n) - 1
         /\ n = Append(Front(n), Last(n)) /\ Front(n) = SubSeq(n, 1, Len(n) - 1)
<1>1. Len(n) \in Nat \ {0} /\ n[Len(n)] \in {1, 2}
  BY DEF Nodes
<1> DEFINE f == SubSeq(n, 1, Len(n) - 1)  a == Append(f, n[Len(n)])
<1>2. f \in Nodes /\ Len(f) = Len(n) - 1 /\ \A i \in 1 .. Len(n) - 1 : f[i] = n[i]
  <2>1. Len(n) - 1 \in 0 .. Len(n)
    BY <1>1
  <2> QED
    BY <2>1, Begins
<1> HIDE DEF f
<1>3. /\ a \in Nodes /\ Len(a) = Len(f) + 1 /\ a[Len(f) + 1] = n[Len(n)]
      /\ \A i \in 1 .. Len(f) : a[i] = f[i]
  BY <1>1, <1>2, Further
<1> HIDE DEF a
<1>4. \A i \in 1 .. Len(n) : a[i] = n[i]
  BY <1>1, <1>2, <1>3
<1>5. a = n
  BY <1>1, <1>2, <1>3, <1>4, SamePath
<1> QED
  BY <1>1, <1>2, <1>5 DEF f, a, Front, Last

----------------------------------------------------------------------------
(* The operations on trees.                                                *)

NodeInfo == [pane : Nat \cup {NoPane}, dir : {"V", "H"}, ratio : 10 .. 90]

\* Where a pane is, and nowhere else.
LEMMA LeafOfIs ==
  ASSUME NEW t, Proper(t), NEW p \in PanesOf(t)
  PROVE  /\ LeafOf(t, p) \in Leaves(t) /\ LeafOf(t, p) \in DOMAIN t /\ t[LeafOf(t, p)].pane = p
         /\ \A m \in Leaves(t) : t[m].pane = p => m = LeafOf(t, p)
         /\ p \in Nat
<1>1. \E n \in Leaves(t) : t[n].pane = p
  BY DEF PanesOf
<1>2. LeafOf(t, p) \in Leaves(t) /\ t[LeafOf(t, p)].pane = p
  BY <1>1 DEF LeafOf
<1>3. \A m \in Leaves(t) : t[m].pane = p => m = LeafOf(t, p)
  BY <1>2 DEF Proper
<1>4. LeafOf(t, p) \in DOMAIN t /\ IsLeaf(t, LeafOf(t, p))
  BY <1>2 DEF Leaves
<1>5. t[LeafOf(t, p)].pane \in Nat
  <2>1. t[LeafOf(t, p)].pane # NoPane /\ t[LeafOf(t, p)].pane \in Nat \cup {NoPane}
    BY <1>4 DEF Proper, IsTree
  <2> QED
    BY <2>1
<1> QED
  BY <1>2, <1>3, <1>4, <1>5

\* The panes of a tree have ids.
LEMMA PanesTyped == ASSUME NEW t, Proper(t) PROVE PanesOf(t) \subseteq Nat /\ NoPane \notin PanesOf(t)
  BY LeafOfIs DEF NoPane

\* A tree with more than one pane, and one of them: its leaf has a sibling.
LEMMA NotRoot ==
  ASSUME NEW t, Proper(t), NEW p \in PanesOf(t), Count(t) > 1 \/ \E q \in PanesOf(t) : q # p
  PROVE  LeafOf(t, p) # <<>>
<1> DEFINE n == LeafOf(t, p)
<1>1. n \in Leaves(t) /\ t[n].pane = p /\ IsTree(t)
  BY LeafOfIs DEF Proper
<1> HIDE DEF n
<1>2. \E m \in Leaves(t) : m # n
  <2>1. CASE Count(t) > 1
    <3>1. Cardinality({n}) = 1
      BY FS_Singleton, Zenon
    <3>2. Cardinality(Leaves(t)) # 1
      BY <2>1 DEF Count
    <3>3. Leaves(t) # {n}
      BY <3>1, <3>2
    <3> QED
      BY <1>1, <3>3
  <2>2. CASE \E q \in PanesOf(t) : q # p
    BY <1>1, <2>2 DEF PanesOf
  <2> QED
    BY <2>1, <2>2
<1>3. PICK m \in Leaves(t) : m # n
  BY <1>2
<1>4. ~IsPrefix(n, m) /\ m \in Nodes /\ n \in Nodes
  BY <1>1, <1>3, TreeNodes, LeavesApart
<1>5. n # <<>>
  <2> SUFFICES ASSUME n = <<>> PROVE FALSE
    OBVIOUS
  <2>1. Len(n) = 0 /\ Len(m) \in Nat
    BY <1>4, Steps, EmptySeq
  <2> QED
    BY <1>4, <2>1, PrefixIs
<1> QED
  BY <1>5 DEF n

\* A tree with the same nodes and the same panes is as sound.
LEMMA SameShape ==
  ASSUME NEW t, Proper(t), NEW u \in [DOMAIN t -> NodeInfo], \A n \in DOMAIN t : u[n].pane = t[n].pane
  PROVE  Proper(u) /\ PanesOf(u) = PanesOf(t)
<1>1. DOMAIN u = DOMAIN t
  OBVIOUS
<1>2. Leaves(u) = Leaves(t) /\ \A n \in DOMAIN t : IsLeaf(u, n) <=> IsLeaf(t, n)
  BY <1>1 DEF Leaves, IsLeaf
<1>3. Leaves(t) \subseteq DOMAIN t
  BY DEF Leaves
<1>4. PanesOf(u) = PanesOf(t)
  BY <1>2, <1>3 DEF PanesOf
<1>5. IsTree(u)
  BY <1>1, <1>2 DEF Proper, IsTree, NodeInfo
<1> QED
  BY <1>2, <1>3, <1>4, <1>5 DEF Proper

\* Two panes change places.
LEMMA SwapIs ==
  ASSUME NEW t, Proper(t), NEW p \in PanesOf(t), NEW q \in PanesOf(t)
  PROVE  Proper(Swap(t, p, q)) /\ PanesOf(Swap(t, p, q)) = PanesOf(t)
<1> DEFINE u == Swap(t, p, q)
           Other(x) == IF x = p THEN q ELSE IF x = q THEN p ELSE x
<1>1. p \in Nat /\ q \in Nat /\ p # NoPane /\ q # NoPane
  BY LeafOfIs, PanesTyped
<1>2. IsTree(t) /\ t \in [DOMAIN t -> NodeInfo] /\ Leaves(t) \subseteq DOMAIN t
  BY DEF Proper, IsTree, NodeInfo, Leaves
<1>3. /\ DOMAIN u = DOMAIN t /\ u \in [DOMAIN t -> NodeInfo]
      /\ \A n \in DOMAIN t : u[n].pane = Other(t[n].pane)
  BY <1>1, <1>2 DEF Swap, NodeInfo
<1> HIDE DEF u
<1>4. Leaves(u) = Leaves(t) /\ \A n \in DOMAIN t : IsLeaf(u, n) <=> IsLeaf(t, n)
  BY <1>3 DEF Leaves, IsLeaf
<1>5. \A x, y : Other(x) = Other(y) => x = y
  OBVIOUS
<1>6. \A n \in DOMAIN t : t[n].pane # NoPane => u[n].pane # NoPane
  BY <1>1, <1>3
<1>7. IsTree(u)
  BY <1>2, <1>3, <1>4, <1>6 DEF IsTree, NodeInfo
<1>8. \A m, n \in Leaves(u) : u[m].pane = u[n].pane => m = n
  BY <1>2, <1>3, <1>4, <1>5 DEF Proper
<1>9. PanesOf(u) = {Other(x) : x \in PanesOf(t)}
  BY <1>2, <1>3, <1>4 DEF PanesOf
<1>10. {Other(x) : x \in PanesOf(t)} = PanesOf(t)
  OBVIOUS
<1> QED
  BY <1>7, <1>8, <1>9, <1>10 DEF Proper, u

\* A pane split: the new one beside it.
LEMMA SplitIs ==
  ASSUME NEW t, Proper(t), NEW p \in PanesOf(t), NEW new \in Nat \ PanesOf(t), NEW dir \in {"V", "H"}
  PROVE  /\ Proper(Split(t, p, new, dir)) /\ PanesOf(Split(t, p, new, dir)) = PanesOf(t) \cup {new}
<1> DEFINE u == Split(t, p, new, dir)  n == LeafOf(t, p)  a == Append(n, 1)  b == Append(n, 2)
<1>1. /\ IsTree(t) /\ n \in Leaves(t) /\ n \in DOMAIN t /\ t[n].pane = p /\ p \in Nat
      /\ \A m \in Leaves(t) : t[m].pane = p => m = n
  BY LeafOfIs DEF Proper
<1>2. DOMAIN t \subseteq Nodes /\ n \in Nodes /\ Leaves(t) \subseteq DOMAIN t /\ IsFiniteSet(DOMAIN t)
  BY <1>1, TreeNodes
<1>0. u = [m \in DOMAIN t \cup {a, b} |-> IF m = n THEN [pane |-> NoPane, dir |-> dir, ratio |-> 50]
                                           ELSE IF m = a THEN Leaf(p) ELSE IF m = b THEN Leaf(new) ELSE t[m]]
  BY DEF Split
<1> HIDE DEF n
<1>3. /\ a \in Nodes /\ Len(a) = Len(n) + 1 /\ a[Len(n) + 1] = 1 /\ \A i \in 1 .. Len(n) : a[i] = n[i]
      /\ b \in Nodes /\ Len(b) = Len(n) + 1 /\ b[Len(n) + 1] = 2 /\ \A i \in 1 .. Len(n) : b[i] = n[i]
      /\ Len(n) \in Nat
  BY <1>2, Further, Steps
<1>4. a # n /\ b # n /\ a # b
  BY <1>3
<1>5. a \notin DOMAIN t /\ b \notin DOMAIN t
  BY <1>1 DEF Leaves, IsLeaf, IsTree
<1>6. /\ DOMAIN u = DOMAIN t \cup {a, b} /\ u[n] = [pane |-> NoPane, dir |-> dir, ratio |-> 50]
      /\ u[a] = Leaf(p) /\ u[b] = Leaf(new) /\ \A m \in DOMAIN t \ {n} : u[m] = t[m]
  BY <1>0, <1>1, <1>4, <1>5
<1> HIDE DEF u
<1>7. Leaf(p) \in NodeInfo /\ Leaf(new) \in NodeInfo /\ [pane |-> NoPane, dir |-> dir, ratio |-> 50] \in NodeInfo
  BY <1>1 DEF Leaf, NodeInfo
<1>8. t \in [DOMAIN t -> NodeInfo]
  BY <1>1 DEF IsTree, NodeInfo
<1>9. u \in [DOMAIN u -> NodeInfo]
  <2>1. \A m \in DOMAIN u : u[m] \in NodeInfo
    BY <1>6, <1>7, <1>8
  <2>2. u = [m \in DOMAIN u |-> u[m]]
    BY <1>0 DEF u
  <2> QED
    BY <2>1, <2>2
<1>10. \A m \in Nodes, c \in {1, 2} : Append(m, c) \in {a, b} => m = n
  <2> SUFFICES ASSUME NEW m \in Nodes, NEW c \in {1, 2}, Append(m, c) \in {a, b} PROVE m = n
    OBVIOUS
  <2>1. Len(Append(m, c)) = Len(m) + 1 /\ (\A i \in 1 .. Len(m) : Append(m, c)[i] = m[i]) /\ Len(m) \in Nat
    BY Further, Steps
  <2>2. Len(m) = Len(n) /\ \A i \in 1 .. Len(m) : m[i] = n[i]
    BY <1>3, <2>1
  <2> QED
    BY <1>2, <2>2, SamePath
<1>11. \A m \in {a, b}, c \in {1, 2} : Append(m, c) \notin DOMAIN u
  <2> SUFFICES ASSUME NEW m \in {a, b}, NEW c \in {1, 2}, Append(m, c) \in DOMAIN u PROVE FALSE
    OBVIOUS
  <2>1. m \in Nodes /\ Len(m) = Len(n) + 1
    BY <1>3
  <2>2. Append(m, c) \notin {a, b}
    BY <1>4, <1>10, <2>1
  <2>3. Append(m, c) \in DOMAIN t
    BY <1>6, <2>2
  <2>4. Len(Append(m, c)) = Len(m) + 1 /\ \A i \in 1 .. Len(m) : Append(m, c)[i] = m[i]
    BY <2>1, Further
  <2>5. IsPrefix(n, Append(m, c))
    <3>1. Len(n) <= Len(Append(m, c))
      BY <1>3, <2>1, <2>4
    <3>2. \A i \in 1 .. Len(n) : n[i] = Append(m, c)[i]
      BY <1>3, <2>1, <2>4
    <3> QED
      BY <1>2, <2>3, <3>1, <3>2, PrefixIs
  <2>6. n # Append(m, c)
    BY <1>3, <2>1, <2>4
  <2> QED
    BY <1>1, <2>3, <2>5, <2>6, LeavesApart
<1>12. Leaves(u) = (Leaves(t) \ {n}) \cup {a, b}
  <2>1. \A m \in DOMAIN t : m # n => Append(m, 1) \notin {a, b}
    BY <1>2, <1>10
  <2>2. \A m \in DOMAIN t : m # n => (Append(m, 1) \in DOMAIN u <=> Append(m, 1) \in DOMAIN t)
    BY <1>6, <2>1
  <2>3. n \notin Leaves(u)
    BY <1>6 DEF Leaves, IsLeaf
  <2>4. a \in Leaves(u) /\ b \in Leaves(u)
    BY <1>6, <1>11 DEF Leaves, IsLeaf
  <2>5. \A m \in DOMAIN t \ {n} : m \in Leaves(u) <=> m \in Leaves(t)
    BY <1>6, <2>2 DEF Leaves, IsLeaf
  <2>6. Leaves(u) \subseteq DOMAIN t \cup {a, b}
    BY <1>6 DEF Leaves
  <2> HIDE DEF a, b
  <2> QED
    BY <1>2, <1>5, <2>3, <2>4, <2>5, <2>6
<1>13. IsTree(u)
  <2>1. IsFiniteSet(DOMAIN u)
    <3>1. IsFiniteSet(DOMAIN t \cup {a})
      BY <1>2, FS_AddElement
    <3>2. IsFiniteSet((DOMAIN t \cup {a}) \cup {b}) /\ (DOMAIN t \cup {a}) \cup {b} = DOMAIN t \cup {a, b}
      BY <3>1, FS_AddElement
    <3> QED
      BY <1>6, <3>2
  <2>2. DOMAIN u \subseteq Seq({1, 2}) /\ <<>> \in DOMAIN u
    BY <1>1, <1>2, <1>3, <1>6 DEF IsTree, Nodes
  <2>3. ASSUME NEW m \in DOMAIN u PROVE \A k \in 0 .. Len(m) : SubSeq(m, 1, k) \in DOMAIN u
    <3>1. CASE m \in DOMAIN t
      BY <1>1, <1>6, <3>1 DEF IsTree
    <3>2. CASE m \in {a, b}
      <4> SUFFICES ASSUME NEW k \in 0 .. Len(m) PROVE SubSeq(m, 1, k) \in DOMAIN u
        OBVIOUS
      <4> DEFINE s == SubSeq(m, 1, k)
      <4>1. s \in Nodes /\ Len(s) = k /\ (\A i \in 1 .. k : s[i] = m[i]) /\ m \in Nodes /\ Len(m) = Len(n) + 1
        BY <1>3, <3>2, Begins
      <4> HIDE DEF s
      <4>2. CASE k = Len(m)
        <5>1. s = m
          BY <4>1, <4>2, SamePath
        <5> QED
          BY <5>1 DEF s
      <4>3. CASE k # Len(m)
        <5> DEFINE r == SubSeq(n, 1, k)
        <5>1. k \in 0 .. Len(n)
          BY <1>3, <4>1, <4>3
        <5>2. r \in Nodes /\ Len(r) = k /\ (\A i \in 1 .. k : r[i] = n[i])
          BY <1>2, <5>1, Begins
        <5>3. r \in DOMAIN t
          BY <1>1, <5>1 DEF IsTree
        <5> HIDE DEF r
        <5>4. \A i \in 1 .. k : r[i] = s[i]
          BY <1>3, <3>2, <4>1, <5>1, <5>2
        <5>5. r = s
          BY <4>1, <5>2, <5>4, SamePath
        <5> QED
          BY <1>6, <5>3, <5>5 DEF s
      <4> QED
        BY <4>2, <4>3
    <3> QED
      BY <1>6, <3>1, <3>2
  <2>4. ASSUME NEW m \in DOMAIN u PROVE Append(m, 1) \in DOMAIN u <=> Append(m, 2) \in DOMAIN u
    <3>1. CASE m \in {a, b}
      BY <1>11, <3>1
    <3>2. CASE m = n
      BY <1>6, <3>2
    <3>3. CASE m \in DOMAIN t /\ m # n
      <4>1. Append(m, 1) \notin {a, b} /\ Append(m, 2) \notin {a, b}
        BY <1>2, <1>10, <3>3
      <4> QED
        BY <1>1, <1>6, <3>3, <4>1 DEF IsTree
    <3> QED
      BY <1>6, <3>1, <3>2, <3>3
  <2>5. ASSUME NEW m \in DOMAIN u, IsLeaf(u, m) PROVE u[m].pane # NoPane
    <3>1. m \in Leaves(u)
      BY <2>5 DEF Leaves
    <3>2. CASE m \in Leaves(t) \ {n}
      BY <1>1, <1>2, <1>6, <3>2 DEF IsTree, Leaves
    <3>3. CASE m \in {a, b}
      <4>1. u[m].pane = p \/ u[m].pane = new
        <5>1. Leaf(p).pane = p /\ Leaf(new).pane = new
          BY DEF Leaf
        <5> HIDE DEF a, b
        <5> QED
          BY <1>6, <3>3, <5>1
      <4>2. p # NoPane /\ new # NoPane
        BY <1>1 DEF NoPane
      <4> QED
        BY <4>1, <4>2
    <3> QED
      BY <1>12, <3>1, <3>2, <3>3
  <2> QED
    BY <1>9, <2>1, <2>2, <2>3, <2>4, <2>5 DEF IsTree, NodeInfo
<1>14. \A l, m \in Leaves(u) : u[l].pane = u[m].pane => l = m
  <2>1. u[a].pane = p /\ u[b].pane = new
    BY <1>6 DEF Leaf
  <2>2. \A m \in Leaves(t) \ {n} : u[m].pane = t[m].pane /\ t[m].pane # p /\ t[m].pane # new
    BY <1>1, <1>2, <1>6 DEF PanesOf
  <2>3. new # p
    OBVIOUS
  <2>4. \A l, m \in Leaves(t) \ {n} : t[l].pane = t[m].pane => l = m
    BY DEF Proper
  <2> HIDE DEF a, b
  <2> QED
    BY <1>12, <2>1, <2>2, <2>3, <2>4
<1>15. PanesOf(u) = PanesOf(t) \cup {new}
  <2>1. u[a].pane = p /\ u[b].pane = new
    BY <1>6 DEF Leaf
  <2>2. \A m \in Leaves(t) \ {n} : u[m].pane = t[m].pane
    BY <1>2, <1>6
  <2>3. PanesOf(t) = {t[m].pane : m \in Leaves(t) \ {n}} \cup {p}
    BY <1>1 DEF PanesOf
  <2>4. PanesOf(u) = {u[m].pane : m \in Leaves(t) \ {n}} \cup {p, new}
    BY <1>12, <2>1 DEF PanesOf
  <2> QED
    BY <2>2, <2>3, <2>4
<1>16. Proper(u)
  BY <1>13, <1>14 DEF Proper
<1> QED
  BY <1>15, <1>16 DEF u

\* A pane closed: its sibling and what is below it come up by one.
LEMMA CloseIs ==
  ASSUME NEW t, Proper(t), NEW p \in PanesOf(t), LeafOf(t, p) # <<>>
  PROVE  Proper(Close(t, p)) /\ PanesOf(Close(t, p)) = PanesOf(t) \ {p}
<1> DEFINE u == Close(t, p)  gone == LeafOf(t, p)  par == Front(gone)  c == Last(gone)  keep == Append(par, 3 - c)
           Above == {n \in DOMAIN t : ~IsPrefix(par, n)}
           Kept == {n \in DOMAIN t : IsPrefix(keep, n)}
           Lifted(n) == par \o SubSeq(n, Len(keep) + 1, Len(n))
           Below == {Lifted(k) : k \in Kept}
<1>1. /\ IsTree(t) /\ gone \in Leaves(t) /\ gone \in DOMAIN t /\ t[gone].pane = p
      /\ \A m \in Leaves(t) : t[m].pane = p => m = gone
  BY LeafOfIs DEF Proper
<1>2. DOMAIN t \subseteq Nodes /\ gone \in Nodes /\ IsFiniteSet(DOMAIN t) /\ Leaves(t) \subseteq DOMAIN t
  BY <1>1, TreeNodes
<1>3. u = [n \in Above \cup Below |-> IF n \in Above THEN t[n] ELSE t[keep \o SubSeq(n, Len(par) + 1, Len(n))]]
  BY DEF Close
<1> HIDE DEF u
<1>4. gone # <<>>
  OBVIOUS
<1> HIDE DEF gone
<1>5. /\ c \in {1, 2} /\ par \in Nodes /\ gone = Append(par, c) /\ Len(par) \in Nat
      /\ Len(gone) = Len(par) + 1 /\ par = SubSeq(gone, 1, Len(par))
  BY <1>2, <1>4, LastStep, Steps
<1> HIDE DEF c
<1>6. 3 - c \in {1, 2} /\ 3 - c # c
  BY <1>5
<1>7. par \in DOMAIN t
  <2>1. Len(par) \in 0 .. Len(gone)
    BY <1>5
  <2> QED
    BY <1>1, <1>5, <2>1 DEF IsTree
<1> HIDE DEF par
<1>8. /\ keep \in Nodes /\ Len(keep) = Len(par) + 1 /\ keep[Len(par) + 1] = 3 - c
      /\ gone[Len(par) + 1] = c /\ \A i \in 1 .. Len(par) : keep[i] = par[i] /\ gone[i] = par[i]
  BY <1>5, <1>6, Further
<1>9. keep \in DOMAIN t /\ Append(par, 1) \in DOMAIN t
  <2>1. Append(par, c) \in DOMAIN t
    BY <1>1, <1>5
  <2>2. Append(par, 1) \in DOMAIN t <=> Append(par, 2) \in DOMAIN t
    BY <1>1, <1>7 DEF IsTree
  <2> QED
    BY <1>5, <1>6, <2>1, <2>2
<1> HIDE DEF keep
\* The nodes that are left, and where each was.
<1>10. \A b \in Nodes : /\ par \o b \in Nodes /\ keep \o b \in Nodes /\ IsPrefix(par, par \o b)
                        /\ IsPrefix(keep, keep \o b) /\ Len(keep \o b) = Len(keep) + Len(b)
                        /\ SubSeq(par \o b, Len(par) + 1, Len(par \o b)) = b
                        /\ SubSeq(keep \o b, Len(keep) + 1, Len(keep \o b)) = b
  BY <1>5, <1>8, Joined, SameEnd
<1>11. \A n : n \in Below <=> \E b \in Nodes : keep \o b \in DOMAIN t /\ n = par \o b
  <2>1. ASSUME NEW n, n \in Below PROVE \E b \in Nodes : keep \o b \in DOMAIN t /\ n = par \o b
    <3>1. PICK k \in Kept : n = Lifted(k)
      BY <2>1
    <3>2. k \in Nodes /\ k \in DOMAIN t /\ IsPrefix(keep, k)
      BY <1>2, <3>1
    <3>3. SubSeq(k, Len(keep) + 1, Len(k)) \in Nodes /\ k = keep \o SubSeq(k, Len(keep) + 1, Len(k))
      BY <1>8, <3>2, BeginsWith
    <3> QED
      BY <3>1, <3>2, <3>3
  <2>2. ASSUME NEW b \in Nodes, keep \o b \in DOMAIN t PROVE par \o b \in Below
    <3>1. keep \o b \in Kept /\ Lifted(keep \o b) = par \o b
      BY <1>10, <2>2
    <3> QED
      BY <3>1
  <2> QED
    BY <2>1, <2>2
<1>12. DOMAIN u = Above \cup Below
  BY <1>3
<1>13. \A n \in Above : u[n] = t[n]
  BY <1>3
<1>14. ASSUME NEW b \in Nodes, keep \o b \in DOMAIN t
       PROVE  par \o b \in DOMAIN u /\ par \o b \notin Above /\ u[par \o b] = t[keep \o b]
  <2>1. par \o b \in Below /\ par \o b \notin Above
    BY <1>10, <1>11, <1>14
  <2> HIDE DEF Above, Below
  <2> QED
    BY <1>3, <1>10, <2>1
<1>15. Above \subseteq DOMAIN t /\ Above \subseteq Nodes /\ IsFiniteSet(Above)
  <2>1. Above \in SUBSET DOMAIN t
    OBVIOUS
  <2> HIDE DEF Above
  <2> QED
    BY <1>2, <2>1, FS_Subset
<1>16. \A n \in DOMAIN t : n \in Above <=> ~IsPrefix(par, n)
  OBVIOUS
<1>17. IsFiniteSet(Below)
  <2>1. IsFiniteSet(Kept)
    <3>1. Kept \in SUBSET DOMAIN t
      OBVIOUS
    <3> HIDE DEF Kept
    <3> QED
      BY <1>2, <3>1, FS_Subset
  <2> DEFINE f == [k \in Kept |-> Lifted(k)]
  <2>2. f \in Surjection(Kept, Below)
    BY DEF Surjection
  <2> HIDE DEF f, Kept, Lifted, Below
  <2> QED
    BY <2>1, <2>2, FS_Surjection
<1>18. u = [n \in DOMAIN u |-> u[n]]
  BY <1>3
<1> HIDE DEF Above, Below, Lifted, Kept
\* Further along them.
<1>19. ASSUME NEW n \in Above, NEW d \in {1, 2} PROVE Append(n, d) \in DOMAIN u <=> Append(n, d) \in DOMAIN t
  <2>0. n \in DOMAIN t /\ n \in Nodes /\ ~IsPrefix(par, n)
    BY <1>15, <1>16
  <2>1. CASE Append(n, d) \in Above
    BY <1>12, <1>15, <2>1
  <2>2. CASE Append(n, d) = par
    <3>1. keep \o <<>> = keep /\ par \o <<>> = par /\ <<>> \in Nodes
      BY <1>5, <1>8, ConcatEmptySeq, EmptySeq DEF Nodes
    <3>2. par \in DOMAIN u
      BY <1>9, <1>14, <3>1
    <3> QED
      BY <1>7, <2>2, <3>2
  <2>3. CASE Append(n, d) \notin Above /\ Append(n, d) # par
    <3>1. ~IsPrefix(par, Append(n, d))
      BY <1>5, <2>0, <2>3, PrefixOfFurther
    <3>2. Append(n, d) \notin DOMAIN t
      BY <1>16, <2>3, <3>1
    <3>3. Append(n, d) \notin Below
      BY <1>10, <1>11, <3>1
    <3> QED
      BY <1>12, <2>3, <3>2, <3>3
  <2> QED
    BY <2>1, <2>2, <2>3
<1>20. ASSUME NEW b \in Nodes, keep \o b \in DOMAIN t, NEW d \in {1, 2}
       PROVE  Append(par \o b, d) \in DOMAIN u <=> Append(keep \o b, d) \in DOMAIN t
  <2>1. Append(b, d) \in Nodes /\ Append(par \o b, d) = par \o Append(b, d) /\ Append(keep \o b, d) = keep \o Append(b, d)
    BY <1>5, <1>8, Further, FurtherOn
  <2>2. par \o Append(b, d) \notin Above
    BY <1>10, <1>15, <1>16, <2>1
  <2>3. par \o Append(b, d) \in Below <=> keep \o Append(b, d) \in DOMAIN t
    <3>1. ASSUME par \o Append(b, d) \in Below PROVE keep \o Append(b, d) \in DOMAIN t
      <4>1. PICK e \in Nodes : keep \o e \in DOMAIN t /\ par \o Append(b, d) = par \o e
        BY <1>11, <3>1
      <4>2. e = Append(b, d)
        BY <1>10, <2>1, <4>1
      <4> QED
        BY <4>1, <4>2
    <3> QED
      BY <1>11, <2>1, <3>1
  <2> QED
    BY <1>12, <2>1, <2>2, <2>3
<1>21. \A n \in DOMAIN u : \/ n \in Above
                           \/ \E b \in Nodes : keep \o b \in DOMAIN t /\ n = par \o b
  BY <1>11, <1>12
\* The leaves that are left.
<1>22. \A n \in Above : (IsLeaf(u, n) <=> IsLeaf(t, n)) /\ n \in DOMAIN u
  BY <1>12, <1>19 DEF IsLeaf
<1>23. \A b \in Nodes : keep \o b \in DOMAIN t => (IsLeaf(u, par \o b) <=> IsLeaf(t, keep \o b))
  BY <1>20 DEF IsLeaf
<1>24. gone \notin Above /\ \A b \in Nodes : keep \o b # gone
  <2>1. IsPrefix(par, gone)
    <3>1. Len(par) <= Len(gone)
      BY <1>5
    <3> QED
      BY <1>2, <1>5, <1>8, <3>1, PrefixIs
  <2>2. ~IsPrefix(keep, gone)
    <3>1. Len(par) + 1 \in 1 .. Len(keep)
      BY <1>5, <1>8
    <3> QED
      BY <1>2, <1>6, <1>8, <3>1, PrefixIs
  <2> QED
    BY <1>1, <1>10, <1>16, <2>1, <2>2
<1>25. ASSUME NEW m \in Leaves(t), m # gone, m \notin Above
       PROVE  \E b \in Nodes : m = keep \o b
  <2>1. m \in DOMAIN t /\ m \in Nodes /\ IsPrefix(par, m)
    BY <1>2, <1>16, <1>25
  <2>2. m # par
    BY <1>9, <1>25 DEF Leaves, IsLeaf
  <2>3. Len(par) <= Len(m) /\ Len(m) \in Nat /\ \A i \in 1 .. Len(par) : par[i] = m[i]
    BY <1>5, <2>1, PrefixIs, Steps
  <2>4. Len(par) < Len(m)
    BY <1>5, <2>1, <2>2, <2>3, SamePath
  <2>5. m[Len(par) + 1] \in {1, 2}
    BY <1>5, <2>1, <2>3, <2>4, Steps
  <2>6. CASE m[Len(par) + 1] = c
    <3>1. Len(gone) <= Len(m) /\ \A i \in 1 .. Len(gone) : gone[i] = m[i]
      BY <1>5, <1>8, <2>3, <2>4, <2>6
    <3>2. IsPrefix(gone, m)
      BY <1>2, <2>1, <3>1, PrefixIs
    <3> QED
      BY <1>1, <1>25, <2>1, <3>2, LeavesApart
  <2>7. CASE m[Len(par) + 1] = 3 - c
    <3>1. Len(keep) <= Len(m) /\ \A i \in 1 .. Len(keep) : keep[i] = m[i]
      BY <1>5, <1>8, <2>3, <2>4, <2>7
    <3>2. IsPrefix(keep, m)
      BY <1>8, <2>1, <3>1, PrefixIs
    <3> QED
      BY <1>8, <2>1, <3>2, BeginsWith
  <2> QED
    BY <1>5, <2>5, <2>6, <2>7
<1>26. \A n \in Leaves(u) : \/ n \in Above /\ n \in Leaves(t) /\ n # gone /\ u[n] = t[n]
                            \/ \E b \in Nodes : /\ n = par \o b /\ keep \o b \in Leaves(t) /\ keep \o b # gone
                                                /\ u[n] = t[keep \o b]
  <2> SUFFICES ASSUME NEW n \in Leaves(u)
               PROVE  \/ n \in Above /\ n \in Leaves(t) /\ n # gone /\ u[n] = t[n]
                      \/ \E b \in Nodes : /\ n = par \o b /\ keep \o b \in Leaves(t) /\ keep \o b # gone
                                          /\ u[n] = t[keep \o b]
    OBVIOUS
  <2>1. n \in DOMAIN u /\ IsLeaf(u, n)
    BY DEF Leaves
  <2>2. CASE n \in Above
    BY <1>13, <1>15, <1>22, <1>24, <2>1, <2>2 DEF Leaves
  <2>3. CASE \E b \in Nodes : keep \o b \in DOMAIN t /\ n = par \o b
    <3>1. PICK b \in Nodes : keep \o b \in DOMAIN t /\ n = par \o b
      BY <2>3
    <3>2. keep \o b \in Leaves(t) /\ keep \o b # gone /\ u[n] = t[keep \o b]
      BY <1>14, <1>23, <1>24, <2>1, <3>1 DEF Leaves
    <3> QED
      BY <3>1, <3>2
  <2> QED
    BY <1>21, <2>1, <2>2, <2>3
<1>27. \A m \in Leaves(t) \ {gone} : \E n \in Leaves(u) : u[n] = t[m]
  <2> SUFFICES ASSUME NEW m \in Leaves(t), m # gone PROVE \E n \in Leaves(u) : u[n] = t[m]
    OBVIOUS
  <2>1. m \in DOMAIN t /\ IsLeaf(t, m)
    BY DEF Leaves
  <2>2. CASE m \in Above
    BY <1>13, <1>22, <2>1, <2>2 DEF Leaves
  <2>3. CASE m \notin Above
    <3>1. PICK b \in Nodes : m = keep \o b
      BY <1>25, <2>3
    <3>2. par \o b \in Leaves(u) /\ u[par \o b] = t[m]
      BY <1>14, <1>23, <2>1, <3>1 DEF Leaves
    <3> QED
      BY <3>2
  <2> QED
    BY <2>2, <2>3
<1>28. PanesOf(u) = PanesOf(t) \ {p}
  <2>1. ASSUME NEW q \in PanesOf(u) PROVE q \in PanesOf(t) /\ q # p
    <3>1. PICK n \in Leaves(u) : q = u[n].pane
      BY DEF PanesOf
    <3>2. \E m \in Leaves(t) : m # gone /\ u[n] = t[m]
      BY <1>26
    <3> QED
      BY <1>1, <3>1, <3>2 DEF PanesOf
  <2>2. ASSUME NEW q \in PanesOf(t), q # p PROVE q \in PanesOf(u)
    <3>1. PICK m \in Leaves(t) : q = t[m].pane
      BY DEF PanesOf
    <3>2. m # gone
      BY <1>1, <2>2, <3>1
    <3> QED
      BY <1>27, <3>1, <3>2 DEF PanesOf
  <2> QED
    BY <2>1, <2>2
<1>29. \A m, n \in Leaves(u) : u[m].pane = u[n].pane => m = n
  <2> SUFFICES ASSUME NEW m \in Leaves(u), NEW n \in Leaves(u), u[m].pane = u[n].pane PROVE m = n
    OBVIOUS
  <2>1. \A k, l \in Leaves(t) : t[k].pane = t[l].pane => k = l
    BY DEF Proper
  <2>2. \A b \in Nodes : keep \o b \in Leaves(t) => keep \o b \notin Above
    <3> SUFFICES ASSUME NEW b \in Nodes, keep \o b \in Leaves(t) PROVE keep \o b \notin Above
      OBVIOUS
    <3>1. IsPrefix(par, keep \o b)
      <4> DEFINE kb == keep \o b
      <4>1. kb \in Nodes /\ IsPrefix(keep, kb)
        BY <1>10
      <4> HIDE DEF kb
      <4>2. Len(keep) <= Len(kb) /\ (\A i \in 1 .. Len(keep) : keep[i] = kb[i]) /\ Len(kb) \in Nat
        BY <1>8, <4>1, PrefixIs, Steps
      <4>3. Len(par) <= Len(kb) /\ \A i \in 1 .. Len(par) : par[i] = kb[i]
        BY <1>5, <1>8, <4>2
      <4> QED
        BY <1>5, <4>1, <4>3, PrefixIs DEF kb
    <3> QED
      BY <1>2, <1>16, <3>1
  <2>3. \A b, d \in Nodes : keep \o b = keep \o d => b = d
    BY <1>10
  <2>4. \/ m \in Above /\ m \in Leaves(t) /\ u[m] = t[m]
        \/ \E b \in Nodes : m = par \o b /\ keep \o b \in Leaves(t) /\ u[m] = t[keep \o b]
    BY <1>26
  <2>5. \/ n \in Above /\ n \in Leaves(t) /\ u[n] = t[n]
        \/ \E b \in Nodes : n = par \o b /\ keep \o b \in Leaves(t) /\ u[n] = t[keep \o b]
    BY <1>26
  <2> QED
    BY <2>1, <2>2, <2>3, <2>4, <2>5
<1>30. IsTree(u)
  <2>1. IsFiniteSet(DOMAIN u)
    BY <1>12, <1>15, <1>17, FS_Union
  <2>2. DOMAIN u \subseteq Nodes
    BY <1>10, <1>15, <1>21
  <2>3. <<>> \in DOMAIN u
    <3>0. <<>> \in DOMAIN t /\ <<>> \in Nodes
      BY <1>1, <1>2 DEF IsTree
    <3>1. CASE par = <<>>
      <4>1. keep \o <<>> = keep /\ par \o <<>> = par
        BY <1>5, <1>8, ConcatEmptySeq DEF Nodes
      <4> QED
        BY <1>9, <1>14, <3>0, <3>1, <4>1
    <3>2. CASE par # <<>>
      <4>1. Len(par) # 0 /\ Len(<<>>) = 0
        BY <1>5, <3>2 DEF Nodes
      <4>2. ~IsPrefix(par, <<>>)
        BY <1>5, <3>0, <4>1, PrefixIs
      <4> QED
        BY <1>12, <1>16, <3>0, <4>2
    <3> QED
      BY <3>1, <3>2
  <2>4. \A n \in DOMAIN u : u[n] \in NodeInfo
    <3>1. \A n \in DOMAIN t : t[n] \in NodeInfo
      BY <1>1 DEF IsTree, NodeInfo
    <3> QED
      BY <1>13, <1>14, <1>15, <1>21, <3>1
  <2>5. u \in [DOMAIN u -> NodeInfo]
    BY <1>18, <2>4
  <2>6. ASSUME NEW n \in DOMAIN u, NEW k \in 0 .. Len(n) PROVE SubSeq(n, 1, k) \in DOMAIN u
    <3>1. CASE n \in Above
      <4>1. n \in DOMAIN t /\ n \in Nodes /\ ~IsPrefix(par, n)
        BY <1>15, <1>16, <3>1
      <4>2. SubSeq(n, 1, k) \in DOMAIN t
        BY <1>1, <4>1 DEF IsTree
      <4>3. ~IsPrefix(par, SubSeq(n, 1, k))
        BY <1>5, <4>1, PrefixOfBegin
      <4> QED
        BY <1>12, <1>16, <4>2, <4>3
    <3>2. CASE \E b \in Nodes : keep \o b \in DOMAIN t /\ n = par \o b
      <4>1. PICK b \in Nodes : keep \o b \in DOMAIN t /\ n = par \o b
        BY <3>2
      <4>2. CASE k <= Len(par)
        <5>1. SubSeq(n, 1, k) = SubSeq(par, 1, k) /\ k \in 0 .. Len(par)
          BY <1>5, <4>1, <4>2, BeginsJoined
        <5>2. SubSeq(par, 1, k) \in DOMAIN t /\ SubSeq(par, 1, k) \in Nodes /\ Len(SubSeq(par, 1, k)) = k
          BY <1>1, <1>5, <1>7, <5>1, Begins DEF IsTree
        <5> DEFINE r == SubSeq(par, 1, k)
        <5>3. CASE k = Len(par)
          <6>1. SubSeq(par, 1, k) = par /\ keep \o <<>> = keep /\ par \o <<>> = par /\ <<>> \in Nodes
            BY <1>5, <1>8, <5>3, SubSeqFull, ConcatEmptySeq, EmptySeq DEF Nodes
          <6>2. par \in DOMAIN u
            BY <1>9, <1>14, <6>1
          <6> QED
            BY <5>1, <6>1, <6>2
        <5>4. CASE k < Len(par)
          <6>1. r \in DOMAIN t /\ r \in Nodes /\ Len(r) = k /\ SubSeq(n, 1, k) = r
            BY <5>1, <5>2
          <6> HIDE DEF r
          <6>2. ~IsPrefix(par, r)
            BY <1>5, <5>4, <6>1, PrefixIs
          <6>3. r \in DOMAIN u
            BY <1>12, <1>16, <6>1, <6>2
          <6> QED
            BY <6>1, <6>3
        <5>5. k \in Int /\ Len(par) \in Int
          BY <1>5
        <5> HIDE DEF r
        <5>6. k = Len(par) \/ k < Len(par)
          BY <4>2, <5>5
        <5> QED
          BY <5>3, <5>4, <5>6, Zenon
      <4>3. CASE ~(k <= Len(par))
        <5> DEFINE j == k - Len(par)  e == SubSeq(b, 1, j)
        <5>1. j \in 0 .. Len(b) /\ SubSeq(n, 1, k) = par \o e
          BY <1>5, <4>1, <4>3, BeginsJoined
        <5> HIDE DEF j
        <5>2. e \in Nodes /\ Len(b) \in Nat /\ Len(keep) \in Nat
          BY <1>8, <5>1, Begins, Steps
        <5> HIDE DEF e
        <5>3. keep \o e \in DOMAIN t
          <6> DEFINE i == Len(keep) + j
          <6>0. Len(keep \o b) = Len(keep) + Len(b)
            BY <1>10
          <6>1. i \in 0 .. Len(keep \o b) /\ i - Len(keep) = j /\ (i <= Len(keep) => j = 0 /\ i = Len(keep))
            BY <5>1, <5>2, <6>0
          <6> HIDE DEF i
          <6>2. SubSeq(keep \o b, 1, i) \in DOMAIN t
            BY <1>1, <4>1, <6>1 DEF IsTree
          <6>3. CASE i <= Len(keep)
            <7>1. e = <<>>
              BY <6>1, <6>3, SubSeqEmpty DEF e
            <7>2. keep \o <<>> = keep
              BY <1>8, ConcatEmptySeq DEF Nodes
            <7> QED
              BY <1>9, <7>1, <7>2
          <6>4. CASE ~(i <= Len(keep))
            <7>1. SubSeq(keep \o b, 1, i) = keep \o SubSeq(b, 1, i - Len(keep))
              BY <1>8, <6>1, <6>4, BeginsJoined
            <7> QED
              BY <6>1, <6>2, <7>1 DEF e
          <6> QED
            BY <6>3, <6>4
        <5> QED
          BY <1>14, <5>1, <5>2, <5>3
      <4> QED
        BY <4>2, <4>3
    <3> QED
      BY <1>21, <3>1, <3>2
  <2>7. ASSUME NEW n \in DOMAIN u PROVE Append(n, 1) \in DOMAIN u <=> Append(n, 2) \in DOMAIN u
    <3>0. \A m \in DOMAIN t : Append(m, 1) \in DOMAIN t <=> Append(m, 2) \in DOMAIN t
      BY <1>1 DEF IsTree
    <3>1. CASE n \in Above
      BY <1>15, <1>19, <3>0, <3>1
    <3>2. CASE \E b \in Nodes : keep \o b \in DOMAIN t /\ n = par \o b
      BY <1>20, <3>0, <3>2
    <3> QED
      BY <1>21, <3>1, <3>2
  <2>8. ASSUME NEW n \in DOMAIN u, IsLeaf(u, n) PROVE u[n].pane # NoPane
    <3>1. n \in Leaves(u)
      BY <2>8 DEF Leaves
    <3>2. \E m \in Leaves(t) : u[n] = t[m]
      BY <1>26, <3>1
    <3> QED
      BY <1>1, <3>2 DEF IsTree, Leaves
  <2> QED
    BY <2>1, <2>2, <2>3, <2>5, <2>6, <2>7, <2>8 DEF IsTree, NodeInfo, Nodes
<1> QED
  BY <1>28, <1>29, <1>30 DEF Proper, u

----------------------------------------------------------------------------
(* Geometry.                                                               *)

Rectangles == [col : Nat, row : Nat, cols : Nat, rows : Nat]
Grids == [cols : Nat, rows : Nat]

\* The first child has no more than there is.
LEMMA ShareIs ==
  ASSUME NEW n \in Nat, NEW ratio \in 10 .. 90
  PROVE  FirstShare(n, ratio) \in 0 .. n /\ SecondShare(n, ratio) \in 0 .. n
         /\ FirstShare(n, ratio) + SecondShare(n, ratio) = n
<1> DEFINE x == 2 * n * ratio + 100
<1>1. n * ratio \in Nat /\ n * ratio <= 90 * n
  <2>1. ratio \in Nat /\ n * (90 - ratio) >= 0 /\ n * (90 - ratio) = n * 90 - n * ratio
    OBVIOUS
  <2> QED
    BY <2>1
<1>2. 2 * n * ratio = 2 * (n * ratio)
  OBVIOUS
<1>3. x \in Nat /\ x < 200 * (n + 1)
  BY <1>1, <1>2
<1> HIDE DEF x
<1>4. x \div 200 \in Nat /\ x \div 200 <= n
  BY <1>3
<1>5. FirstShare(n, ratio) = x \div 200
  BY DEF FirstShare, x
<1> QED
  BY <1>4, <1>5 DEF SecondShare

\* A rectangle is split in two.
LEMMA SplitRectIs ==
  ASSUME NEW r \in Rectangles, NEW node \in NodeInfo, NEW child \in {1, 2}
  PROVE  SplitRect(r, node, child) \in Rectangles
<1> DEFINE n == IF node.dir = "V" THEN Avail(r.cols) ELSE Avail(r.rows)
           a == FirstShare(n, node.ratio)  b == SecondShare(n, node.ratio)
<1>1. n \in Nat /\ node.ratio \in 10 .. 90 /\ node.dir \in {"V", "H"}
  BY DEF Rectangles, NodeInfo, Avail
<1>2. SplitRect(r, node, child) =
        CASE node.dir = "V" /\ child = 1 -> [r EXCEPT !.cols = a]
          [] node.dir = "V" /\ child = 2 -> [r EXCEPT !.col = @ + a + 1, !.cols = b]
          [] node.dir = "H" /\ child = 1 -> [r EXCEPT !.rows = a]
          [] node.dir = "H" /\ child = 2 -> [r EXCEPT !.row = @ + a + 1, !.rows = b]
  BY DEF SplitRect
<1> HIDE DEF n
<1>3. a \in Nat /\ b \in Nat
  <2>1. a \in 0 .. n /\ b \in 0 .. n
    BY <1>1, ShareIs, Zenon
  <2> HIDE DEF a, b
  <2> QED
    BY <1>1, <2>1
<1> HIDE DEF a, b
<1>4. [r EXCEPT !.cols = a] \in Rectangles /\ [r EXCEPT !.rows = a] \in Rectangles
  BY <1>3 DEF Rectangles
<1>5. [r EXCEPT !.col = @ + a + 1, !.cols = b] \in Rectangles /\ [r EXCEPT !.row = @ + a + 1, !.rows = b] \in Rectangles
  <2>1. r.col + a + 1 \in Nat /\ r.row + a + 1 \in Nat
    BY <1>3 DEF Rectangles
  <2> QED
    BY <1>3, <2>1 DEF Rectangles
<1> QED
  BY <1>1, <1>2, <1>4, <1>5

\* Every node of a tree has a rectangle: the root the whole, another its part of
\* the one it hangs on.
LEMMA WalkIs ==
  ASSUME NEW t, IsTree(t), NEW w \in Grids
  PROVE  LET r == Walk(t, w) IN
         /\ r \in [DOMAIN t -> Rectangles] /\ r[<<>>] = Full(w)
         /\ \A n \in DOMAIN t : n # <<>> => Front(n) \in DOMAIN t /\ r[n] = SplitRect(r[Front(n)], t[Front(n)], Last(n))
<1> DEFINE T == DOMAIN t  f == Walk(t, w)
           Def(fn, n) == IF n = <<>> THEN Full(w) ELSE SplitRect(fn[Front(n)], t[Front(n)], Last(n))
           D(k) == {n \in T : Len(n) <= k}
           Has(k) == \E fn \in [D(k) -> Rectangles] : \A n \in D(k) : fn[n] = Def(fn, n)
<1>1. /\ T \subseteq Nodes /\ <<>> \in T /\ \A n \in T : Len(n) \in Nat /\ t[n] \in NodeInfo
  BY TreeNodes, Steps DEF IsTree, NodeInfo
<1>2. \A n \in T : n # <<>> => /\ Front(n) \in T /\ Len(Front(n)) = Len(n) - 1
                               /\ Last(n) \in {1, 2} /\ Len(n) >= 1
  <2> SUFFICES ASSUME NEW n \in T, n # <<>>
               PROVE  Front(n) \in T /\ Len(Front(n)) = Len(n) - 1 /\ Last(n) \in {1, 2} /\ Len(n) >= 1
    OBVIOUS
  <2>1. /\ Len(n) \in Nat \ {0} /\ Last(n) \in {1, 2} /\ Len(Front(n)) = Len(n) - 1
        /\ Front(n) = SubSeq(n, 1, Len(n) - 1)
    BY <1>1, LastStep
  <2>2. Len(n) - 1 \in 0 .. Len(n)
    BY <2>1
  <2>3. SubSeq(n, 1, Len(n) - 1) \in T
    BY <2>2 DEF IsTree
  <2> QED
    BY <2>1, <2>3
<1>3. Full(w) \in Rectangles
  BY DEF Full, Rect, Rectangles, Grids
<1>4. \A fn, n : n \in T /\ (n # <<>> => fn[Front(n)] \in Rectangles) => Def(fn, n) \in Rectangles
  BY <1>1, <1>2, <1>3, SplitRectIs
<1>5. Has(0)
  <2>1. \A n \in D(0) : n = <<>>
    BY <1>1 DEF Nodes
  <2> DEFINE fn == [n \in D(0) |-> Full(w)]
  <2>2. fn \in [D(0) -> Rectangles] /\ \A n \in D(0) : fn[n] = Def(fn, n)
    BY <1>3, <2>1
  <2> QED
    BY <2>2
<1>6. ASSUME NEW k \in Nat, Has(k) PROVE Has(k + 1)
  <2>1. PICK fn \in [D(k) -> Rectangles] : \A n \in D(k) : fn[n] = Def(fn, n)
    BY <1>6
  <2> DEFINE h == [n \in D(k + 1) |-> Def(fn, n)]
  <2>2. \A n \in D(k + 1) : n # <<>> => Front(n) \in D(k) /\ Front(n) \in D(k + 1)
    BY <1>1, <1>2
  <2>3. \A n \in D(k + 1) : h[n] = Def(fn, n) /\ Def(fn, n) \in Rectangles
    BY <1>4, <2>2
  <2>4. h \in [D(k + 1) -> Rectangles]
    BY <2>3
  <2>5. \A n \in D(k) : h[n] = fn[n]
    <3>1. D(k) \subseteq D(k + 1)
      BY <1>1
    <3> QED
      BY <2>1, <2>3, <3>1
  <2> HIDE DEF h
  <2>6. \A n \in D(k + 1) : h[n] = Def(h, n)
    BY <2>2, <2>3, <2>5
  <2> QED
    BY <2>4, <2>6
<1> HIDE DEF Has
<1>7. \A k \in Nat : Has(k)
  <2> DEFINE S == {k \in Nat : ~Has(k)}
  <2> SUFFICES ASSUME S # {} PROVE FALSE
    OBVIOUS
  <2>1. PICK k \in S : \A j \in S : k <= j
    BY Least
  <2>2. k \in Nat /\ k # 0 /\ ~Has(k)
    BY <1>5, <2>1
  <2>3. k - 1 \in Nat /\ k - 1 + 1 = k /\ k - 1 \notin S
    BY <2>1, <2>2
  <2>4. Has(k - 1)
    BY <2>3
  <2> QED
    BY <1>6, <2>2, <2>3, <2>4
<1>8. \E fn : fn = [n \in T |-> Def(fn, n)]
  <2> DEFINE c == Cardinality(T)
  <2>1. c \in Nat /\ \A n \in T : Len(n) <= c
    BY <1>1, PathsBounded
  <2>2. Has(c) /\ D(c) = T
    BY <1>7, <2>1
  <2>3. PICK fn \in [T -> Rectangles] : \A n \in T : fn[n] = Def(fn, n)
    BY <2>2 DEF Has
  <2> HIDE DEF Def
  <2>4. fn = [n \in T |-> Def(fn, n)]
    BY <2>3
  <2> QED
    BY <2>4
<1>9. f = [n \in T |-> Def(f, n)]
  BY <1>8 DEF Walk
<1> HIDE DEF f
<1>10. DOMAIN f = T /\ \A n \in T : f[n] = Def(f, n)
  BY <1>9
<1>11. \A n \in T : f[n] \in Rectangles
  <2> DEFINE S == {k \in Nat : \E n \in T : Len(n) = k /\ f[n] \notin Rectangles}
  <2> SUFFICES ASSUME NEW n \in T, f[n] \notin Rectangles PROVE FALSE
    OBVIOUS
  <2>1. S # {} /\ S \subseteq Nat
    BY <1>1
  <2>2. PICK k \in S : \A j \in S : k <= j
    BY <2>1, Least
  <2>3. PICK m \in T : Len(m) = k /\ f[m] \notin Rectangles
    BY <2>2
  <2>4. m # <<>> /\ f[Front(m)] \notin Rectangles
    BY <1>4, <1>10, <2>3
  <2>5. Front(m) \in T /\ Len(Front(m)) = k - 1 /\ k \in Nat \ {0}
    BY <1>1, <1>2, <2>3, <2>4
  <2>6. k - 1 \in S
    BY <2>4, <2>5
  <2> QED
    BY <2>2, <2>5, <2>6
<1>12. f \in [T -> Rectangles]
  BY <1>9, <1>11
<1> QED
  BY <1>1, <1>2, <1>10, <1>12 DEF f

\* Every pane of a layout has a rectangle.
LEMMA RectsAre ==
  ASSUME NEW t, Proper(t) \/ t = Empty, NEW zoom, NEW w \in Grids
  PROVE  Rects(t, zoom, w) \in [PanesOf(t) -> Rectangles]
<1> DEFINE rect == Walk(t, w)
<1>1. \A p \in PanesOf(t) : rect[LeafOf(t, p)] \in Rectangles
  <2>1. CASE t = Empty
    BY <2>1 DEF PanesOf, Leaves, Empty
  <2>2. CASE Proper(t)
    BY <2>2, WalkIs, LeafOfIs DEF Proper
  <2> QED
    BY <2>1, <2>2
<1>2. Full(w) \in Rectangles /\ Hidden \in Rectangles
  BY DEF Full, Hidden, Rect, Rectangles, Grids
<1>3. Rects(t, zoom, w) = [p \in PanesOf(t) |-> IF ~Zoomed(t, zoom) THEN rect[LeafOf(t, p)]
                                                ELSE IF p = zoom THEN Full(w) ELSE Hidden]
  BY DEF Rects
<1> HIDE DEF rect
<1> QED
  BY <1>1, <1>2, <1>3

----------------------------------------------------------------------------
(* Panes found and moved.                                                  *)

Layout(t) == t = Empty \/ Proper(t)

\* An empty layout has no pane.
LEMMA NoPanes == PanesOf(Empty) = {} /\ Leaves(Empty) = {} /\ Count(Empty) = 0
<1>1. Leaves(Empty) = {}
  BY DEF Leaves, Empty
<1> QED
  BY <1>1, FS_EmptySet DEF PanesOf, Count

\* The pane found in a direction is another one.
LEMMA NeighbourIs ==
  ASSUME NEW t, Layout(t), NEW zoom, NEW from, NEW d \in Dirs, NEW w \in Grids,
         Neighbour(t, zoom, from, d, w) # NoPane
  PROVE  LET to == Neighbour(t, zoom, from, d, w) IN
         Proper(t) /\ from \in PanesOf(t) /\ to \in PanesOf(t) /\ to # from
<1> DEFINE rects == Rects(t, zoom, w)
           GapTo(p) == Gap(rects[from], rects[p], d)
           there == {p \in DOMAIN rects \ {from} : Visible(rects[p]) /\ GapTo(p) >= 0}
           nearest == {p \in there : \A q \in there : GapTo(p) <= GapTo(q)}
<1>1. Neighbour(t, zoom, from, d, w) =
        IF from \notin DOMAIN rects \/ rects[from].cols = 0 \/ there = {} THEN NoPane ELSE First(t, nearest)
  BY DEF Neighbour
<1>2. rects \in [PanesOf(t) -> Rectangles]
  BY RectsAre DEF Layout
<1> HIDE DEF rects
<1>3. from \in PanesOf(t) /\ there # {} /\ Neighbour(t, zoom, from, d, w) = First(t, nearest)
  BY <1>1, <1>2
<1>4. Proper(t)
  BY <1>3, NoPanes DEF Layout
<1>5. \A p \in PanesOf(t) : GapTo(p) \in Int
  <2> SUFFICES ASSUME NEW p \in PanesOf(t) PROVE GapTo(p) \in Int
    OBVIOUS
  <2> DEFINE me == rects[from]  r == rects[p]
  <2>1. me \in Rectangles /\ r \in Rectangles
    BY <1>2, <1>3
  <2> HIDE DEF me, r
  <2>2. Gap(me, r, d) \in Int
    BY <2>1 DEF Gap, Rectangles, Dirs
  <2> QED
    BY <2>2 DEF me, r
<1> DEFINE S == {gap \in Nat : \E p \in there : GapTo(p) = gap}
<1>6. there \subseteq PanesOf(t) \ {from} /\ \A p \in there : GapTo(p) \in Nat
  BY <1>2, <1>5
<1> HIDE DEF GapTo, there
<1>7. S # {}
  BY <1>3, <1>6
<1>8. PICK gap \in S : \A j \in S : gap <= j
  BY <1>7, Least
<1>9. PICK p \in there : GapTo(p) = gap
  BY <1>8
<1>10. p \in nearest
  BY <1>6, <1>8, <1>9
<1>11. nearest \cap PanesOf(t) # {} /\ nearest \subseteq there
  BY <1>6, <1>10
<1> HIDE DEF nearest
<1>12. First(t, nearest) \in nearest \cap PanesOf(t)
  BY <1>4, <1>11, FirstIs DEF Proper
<1> QED
  BY <1>3, <1>4, <1>6, <1>11, <1>12

\* A pane put back is a pane of the layout again, unless none has room for it.
LEMMA RestoreIs ==
  ASSUME NEW t, Proper(t), NEW p \in Nat \ PanesOf(t), NEW w \in Grids
  PROVE  LET u == Restore(t, p, w) IN
         /\ Proper(u)
         /\ \/ PanesOf(u) = PanesOf(t) \cup {p}
            \/ u = t /\ \A q \in PanesOf(t), dir \in {"V", "H"} : ~CanSplit(t, NoPane, q, dir, w)
<1> DEFINE hosts == {h \in PanesOf(t) : \E dir \in {"V", "H"} : CanSplit(t, NoPane, h, dir, w)}
           host == First(t, hosts)
           dir == IF CanSplit(t, NoPane, host, "V", w) THEN "V" ELSE "H"
<1>1. Restore(t, p, w) = IF hosts = {} THEN t ELSE Split(t, host, p, dir)
  BY DEF Restore
<1>2. CASE hosts = {}
  BY <1>1, <1>2
<1>3. CASE hosts # {}
  <2>1. hosts \cap PanesOf(t) # {}
    BY <1>3
  <2> HIDE DEF hosts
  <2>2. host \in PanesOf(t) /\ dir \in {"V", "H"}
    BY <2>1, FirstIs DEF Proper
  <2> HIDE DEF host, dir
  <2>3. Proper(Split(t, host, p, dir)) /\ PanesOf(Split(t, host, p, dir)) = PanesOf(t) \cup {p}
    BY <2>2, SplitIs
  <2> QED
    BY <1>1, <1>3, <2>3
<1> QED
  BY <1>2, <1>3

\* A pane moved is a pane of the layout still, unless none has room for it.
LEMMA MoveIs ==
  ASSUME NEW t, Proper(t), NEW p \in PanesOf(t), NEW to \in PanesOf(t) \ {p}, NEW dir \in {"V", "H"}, NEW w \in Grids
  PROVE  LET u == Move(t, p, to, dir, w) IN
         /\ Proper(u) /\ PanesOf(u) \subseteq PanesOf(t)
         /\ \/ PanesOf(u) = PanesOf(t)
            \/ \A q \in PanesOf(u), e \in {"V", "H"} : ~CanSplit(u, NoPane, q, e, w)
<1> DEFINE rest == Close(t, p)
<1>1. LeafOf(t, p) # <<>> /\ p \in Nat
  BY NotRoot, LeafOfIs
<1>2. Proper(rest) /\ PanesOf(rest) = PanesOf(t) \ {p}
  BY <1>1, CloseIs
<1> HIDE DEF rest
<1>3. p \in Nat \ PanesOf(rest) /\ to \in PanesOf(rest)
  BY <1>1, <1>2
<1>4. Move(t, p, to, dir, w) = IF CanSplit(rest, NoPane, to, dir, w) THEN Split(rest, to, p, dir) ELSE Restore(rest, p, w)
  BY DEF Move, rest
<1>5. CASE CanSplit(rest, NoPane, to, dir, w)
  <2>1. Proper(Split(rest, to, p, dir)) /\ PanesOf(Split(rest, to, p, dir)) = PanesOf(rest) \cup {p}
    BY <1>2, <1>3, SplitIs
  <2>2. PanesOf(rest) \cup {p} = PanesOf(t)
    BY <1>2
  <2> QED
    BY <1>4, <1>5, <2>1, <2>2
<1>6. CASE ~CanSplit(rest, NoPane, to, dir, w)
  <2> DEFINE u == Restore(rest, p, w)
  <2>1. /\ Proper(u)
        /\ \/ PanesOf(u) = PanesOf(rest) \cup {p}
           \/ u = rest /\ \A q \in PanesOf(rest), e \in {"V", "H"} : ~CanSplit(rest, NoPane, q, e, w)
    BY <1>2, <1>3, RestoreIs
  <2>2. Move(t, p, to, dir, w) = u
    BY <1>4, <1>6
  <2> HIDE DEF u
  <2>3. CASE PanesOf(u) = PanesOf(rest) \cup {p}
    <3>1. PanesOf(u) = PanesOf(t)
      BY <1>2, <2>3
    <3> QED
      BY <2>1, <2>2, <3>1
  <2>4. CASE u = rest /\ \A q \in PanesOf(rest), e \in {"V", "H"} : ~CanSplit(rest, NoPane, q, e, w)
    BY <1>2, <2>1, <2>2, <2>4
  <2> QED
    BY <2>1, <2>3, <2>4
<1> QED
  BY <1>5, <1>6

\* A split is turned, or its shares are changed, where a pane has a sibling.
LEMMA ParentIs ==
  ASSUME NEW t, Proper(t), NEW p \in PanesOf(t), Count(t) > 1
  PROVE  ParentOf(t, p) \in DOMAIN t
<1> DEFINE n == LeafOf(t, p)
<1>1. n # <<>> /\ n \in DOMAIN t /\ n \in Nodes /\ IsTree(t)
  BY NotRoot, LeafOfIs, TreeNodes DEF Proper
<1> HIDE DEF n
<1>2. Front(n) = SubSeq(n, 1, Len(n) - 1) /\ Len(n) - 1 \in 0 .. Len(n)
  BY <1>1, LastStep
<1>3. SubSeq(n, 1, Len(n) - 1) \in DOMAIN t
  BY <1>1, <1>2 DEF IsTree
<1> QED
  BY <1>2, <1>3 DEF ParentOf, n

LEMMA RotateIs ==
  ASSUME NEW t, Proper(t), NEW p \in PanesOf(t), Count(t) > 1
  PROVE  Proper(Rotate(t, p)) /\ PanesOf(Rotate(t, p)) = PanesOf(t)
<1> DEFINE u == Rotate(t, p)
<1>1. t \in [DOMAIN t -> NodeInfo]
  BY DEF Proper, IsTree, NodeInfo
<1>2. u \in [DOMAIN t -> NodeInfo] /\ \A n \in DOMAIN t : u[n].pane = t[n].pane
  BY <1>1, ParentIs DEF Rotate, Turned, NodeInfo
<1> HIDE DEF u
<1>3. Proper(u) /\ PanesOf(u) = PanesOf(t)
  BY <1>2, SameShape
<1> QED
  BY <1>3 DEF u

LEMMA ResizeIs ==
  ASSUME NEW t, Proper(t), NEW p \in PanesOf(t), Count(t) > 1, NEW delta \in Int
  PROVE  Proper(Resize(t, p, delta)) /\ PanesOf(Resize(t, p, delta)) = PanesOf(t)
<1> DEFINE u == Resize(t, p, delta)  n == ParentOf(t, p)
           e == IF Last(LeafOf(t, p)) = 1 THEN delta ELSE -delta
<1>1. t \in [DOMAIN t -> NodeInfo] /\ e \in Int
  BY DEF Proper, IsTree, NodeInfo
<1>2. u = [t EXCEPT ![n].ratio = Clamped(@ + e)]
  BY DEF Resize
<1> HIDE DEF e, n, u
<1>3. \A r \in 10 .. 90 : Clamped(r + e) \in 10 .. 90
  BY <1>1 DEF Clamped
<1>4. u \in [DOMAIN t -> NodeInfo] /\ \A m \in DOMAIN t : u[m].pane = t[m].pane
  BY <1>1, <1>2, <1>3, ParentIs DEF NodeInfo, n
<1>5. Proper(u) /\ PanesOf(u) = PanesOf(t)
  BY <1>4, SameShape
<1> QED
  BY <1>5 DEF u

----------------------------------------------------------------------------
(* The invariant.                                                          *)

Sessions == [profile : Profiles \cup {AdHoc}, readOnly : BOOLEAN, size : Grids]
PaneMaps == UNION {[D -> Sessions] : D \in SUBSET Nat}
Trees == UNION {[D -> NodeInfo] : D \in SUBSET Nodes}
TabRecs ==
  [id : Nat, panes : PaneMaps, tree : Trees,
   zoom : Nat \cup {NoPane}, focus : Nat, broadcast : SUBSET Nat, next : Nat, exited : BOOLEAN]
\* What a tab names are panes of its own, with ids it has given out.
TabSound(t) ==
  /\ t \in TabRecs /\ Layout(t.tree)
  /\ PanesOf(t.tree) \subseteq DOMAIN t.panes /\ DOMAIN t.panes \subseteq 0 .. t.next - 1
  /\ 0 \in DOMAIN t.panes /\ t.focus \in DOMAIN t.panes /\ t.zoom \in DOMAIN t.panes \cup {NoPane}
  /\ \A p \in t.broadcast : p \in DOMAIN t.panes /\ ~t.panes[p].readOnly
\* Tabs in a row, each of them sound.
TabsSound(ts) == ts \in Seq(TabRecs) /\ \A i \in 1 .. Len(ts) : TabSound(ts[i])
\* No two tabs have one id, and none the id that the next tab will have.
IdsApart ==
  /\ \A i \in DOMAIN tabs : tabs[i].id = 0 \/ tabs[i].id > budget.tabs
  /\ \A i, j \in DOMAIN tabs : tabs[i].id = tabs[j].id => i = j
BudgetRecs == [tabs : Nat, panes : Nat, edits : Nat, marks : Nat, ends : Nat]
DeskInv ==
  /\ window \in Windows /\ budget \in BudgetRecs
  /\ TabsSound(tabs)
  /\ active \in 0 .. Len(tabs) /\ (active = 0 <=> Len(tabs) = 0)
  /\ closing \in [at : Nat, id : Nat] /\ ClosesTheRightTab
  /\ IdsApart

\* What a step makes of a tab that lives on: it keeps its panes or has no room
\* for them, a split has room, and nothing new is a broadcast target.
Keeps(t, s) ==
  \/ PanesOf(t.tree) \cap DOMAIN s.panes \subseteq PanesOf(s.tree)
  \/ \A q \in PanesOf(s.tree), dir \in {"V", "H"} : ~CanSplit(s.tree, NoPane, q, dir, window)
Usable(r) == r.cols >= MinCols /\ r.rows >= MinRows
Roomy(t, s) ==
  s.next > t.next /\ t.zoom = NoPane /\ Usable(Rects(Started(t).tree, NoPane, window)[t.focus]) =>
    \A p \in {t.next, t.focus} : Usable(Rects(s.tree, NoPane, window)[p])
Follows(t, s) == s.id = t.id /\ Keeps(t, s) /\ Roomy(t, s) /\ s.broadcast \subseteq DOMAIN t.panes
Fresh(s) == s.broadcast = {} /\ \A i \in DOMAIN tabs : tabs[i].id # s.id
Steady ==
  \A j \in DOMAIN tabs' : \/ Fresh(tabs'[j])
                          \/ \E i \in DOMAIN tabs : /\ Follows(tabs[i], tabs'[j])
                                                    /\ tabs[i].exited => tabs'[j].exited \/ closing'.id = tabs'[j].id
----------------------------------------------------------------------------
(* One tab.                                                                *)

\* Panes by id, and layouts, as the records have them.
LEMMA PaneMapsAre ==
  /\ \A f \in PaneMaps : DOMAIN f \subseteq Nat /\ f \in [DOMAIN f -> Sessions]
  /\ \A D \in SUBSET Nat : \A f : f \in [D -> Sessions] => f \in PaneMaps
  BY Zenon DEF PaneMaps

LEMMA LayoutsAre == ASSUME NEW t, Layout(t) PROVE t \in Trees
<1>1. CASE t = Empty
  <2>1. t \in [{} -> NodeInfo]
    BY <1>1 DEF Empty
  <2> QED
    BY <2>1 DEF Trees
<1>2. CASE Proper(t)
  <2>1. DOMAIN t \in SUBSET Nodes /\ t \in [DOMAIN t -> NodeInfo]
    BY <1>2 DEF Proper, IsTree, NodeInfo, Nodes
  <2> QED
    BY <2>1 DEF Trees
<1> QED
  BY <1>1, <1>2 DEF Layout

\* A window is a grid.
LEMMA WindowsAre == ASSUME NEW w \in Windows PROVE w \in Grids
  BY DeskAssumption DEF Grids

\* Sizing a tab's panes changes nothing else of it.
LEMMA SizeTabIs ==
  ASSUME NEW t, TabSound(t), NEW w \in Grids
  PROVE  /\ TabSound(SizeTab(t, w))
         /\ SizeTab(t, w).id = t.id /\ SizeTab(t, w).exited = t.exited /\ SizeTab(t, w).next = t.next
         /\ SizeTab(t, w).tree = t.tree /\ SizeTab(t, w).zoom = t.zoom /\ SizeTab(t, w).focus = t.focus
         /\ SizeTab(t, w).broadcast = t.broadcast
         /\ DOMAIN SizeTab(t, w).panes = DOMAIN t.panes
<1> DEFINE rects == Rects(t.tree, t.zoom, w)
           NewSize(p) == IF Count(t.tree) <= 1 THEN IF p = 0 THEN w ELSE Unfollowed
                         ELSE IF p \in DOMAIN rects /\ Visible(rects[p])
                              THEN [cols |-> rects[p].cols, rows |-> rects[p].rows]
                              ELSE Unfollowed
           f == [p \in DOMAIN t.panes |-> [t.panes[p] EXCEPT !.size = NewSize(p)]]
           s == [t EXCEPT !.panes = f]
<1>1. SizeTab(t, w) = s
  BY DEF SizeTab
<1>2. rects \in [PanesOf(t.tree) -> Rectangles]
  BY RectsAre DEF TabSound, Layout
<1> HIDE DEF rects
<1>3. \A p : NewSize(p) \in Grids
  BY <1>2 DEF Grids, Rectangles, Unfollowed
<1> HIDE DEF NewSize
<1>4. t \in TabRecs /\ DOMAIN t.panes \subseteq Nat /\ t.panes \in [DOMAIN t.panes -> Sessions]
  BY PaneMapsAre DEF TabSound, TabRecs
<1>5. DOMAIN f = DOMAIN t.panes /\ f \in [DOMAIN t.panes -> Sessions] /\ \A p \in DOMAIN t.panes : f[p].readOnly = t.panes[p].readOnly
  BY <1>3, <1>4 DEF Sessions
<1> HIDE DEF f
<1>6. f \in PaneMaps
  BY <1>4, <1>5, PaneMapsAre
<1>7. /\ s \in TabRecs /\ s.id = t.id /\ s.exited = t.exited /\ s.next = t.next /\ s.tree = t.tree
      /\ s.zoom = t.zoom /\ s.focus = t.focus /\ s.broadcast = t.broadcast /\ s.panes = f
  BY <1>4, <1>6 DEF TabRecs
<1> HIDE DEF s
<1>8. TabSound(s)
  BY <1>5, <1>7 DEF TabSound
<1> QED
  BY <1>1, <1>5, <1>7, <1>8

\* A new tab has one pane.
LEMMA NewTabIs ==
  ASSUME NEW id \in Nat, NEW profile \in Profiles \cup {AdHoc}, window \in Windows
  PROVE  TabSound(NewTab(id, profile)) /\ NewTab(id, profile).id = id /\ NewTab(id, profile).broadcast = {}
         /\ NewTab(id, profile).next = 1
<1> DEFINE f == [p \in {0} |-> Session(profile, window)]  s == NewTab(id, profile)
<1>1. f \in [{0} -> Sessions] /\ {0} \in SUBSET Nat
  BY WindowsAre DEF Session, Sessions
<1>2. f \in PaneMaps /\ DOMAIN f = {0}
  BY <1>1, PaneMapsAre
<1>3. Empty \in Trees /\ Layout(Empty)
  BY LayoutsAre DEF Layout
<1>4. s = [id |-> id, panes |-> f, tree |-> Empty, zoom |-> NoPane, focus |-> 0, broadcast |-> {},
           next |-> 1, exited |-> FALSE]
  BY DEF NewTab
<1> HIDE DEF f, s
<1>5. s \in TabRecs
  BY <1>2, <1>3, <1>4 DEF TabRecs
<1>6. TabSound(s)
  BY <1>2, <1>3, <1>4, <1>5, NoPanes DEF TabSound
<1> QED
  BY <1>4, <1>6 DEF s

\* A layout of one pane.
LEMMA SingleIs == Proper(Single(0)) /\ PanesOf(Single(0)) = {0}
<1> DEFINE t == Single(0)
<1>1. t = [n \in {<<>>} |-> Leaf(0)]
  BY DEF Single
<1> HIDE DEF t
<1>2. DOMAIN t = {<<>>} /\ t[<<>>] = Leaf(0) /\ Leaf(0) \in NodeInfo /\ Leaf(0).pane = 0
  BY <1>1 DEF Leaf, NodeInfo
<1>3. t \in [DOMAIN t -> NodeInfo] /\ <<>> \in Nodes
  BY <1>1, <1>2 DEF Nodes
<1>4. \A c \in {1, 2} : Append(<<>>, c) # <<>>
  <2>1. \A c \in {1, 2} : Len(Append(<<>>, c)) = Len(<<>>) + 1 /\ Len(<<>>) \in Nat
    BY <1>3, Further, Steps
  <2> QED
    BY <2>1
<1>5. Leaves(t) = {<<>>} /\ IsLeaf(t, <<>>)
  BY <1>2, <1>4 DEF Leaves, IsLeaf
<1>6. \A k \in 0 .. Len(<<>>) : SubSeq(<<>>, 1, k) = <<>>
  <2>1. Len(<<>>) = 0
    BY EmptySeq
  <2> QED
    BY <2>1, SubSeqEmpty
<1>7. IsFiniteSet({<<>>})
  BY FS_Singleton
<1>8. t[<<>>].pane = 0 /\ 0 # NoPane
  BY <1>2 DEF NoPane
<1>9. IsTree(t)
  BY <1>2, <1>3, <1>4, <1>6, <1>7, <1>8 DEF IsTree, NodeInfo, Nodes
<1> QED
  BY <1>5, <1>8, <1>9 DEF Proper, PanesOf, t

\* A tab whose layout has been started.
LEMMA StartedIs ==
  ASSUME NEW t, TabSound(t)
  PROVE  /\ TabSound(Started(t)) /\ Proper(Started(t).tree) /\ PanesOf(t.tree) \subseteq PanesOf(Started(t).tree)
         /\ \A f \in {"id", "panes", "zoom", "focus", "broadcast", "next", "exited"} : Started(t)[f] = t[f]
<1>1. t \in TabRecs
  BY DEF TabSound
<1>2. CASE t.tree = Empty
  <2> DEFINE s == [t EXCEPT !.tree = Single(0)]
  <2>1. Started(t) = s
    BY <1>2 DEF Started
  <2>2. Single(0) \in Trees /\ Layout(Single(0)) /\ PanesOf(Single(0)) = {0} /\ Proper(Single(0))
    BY SingleIs, LayoutsAre DEF Layout
  <2>3. s \in TabRecs /\ s.tree = Single(0) /\ \A f \in {"id", "panes", "zoom", "focus", "broadcast", "next", "exited"} : s[f] = t[f]
    BY <1>1, <2>2 DEF TabRecs
  <2> HIDE DEF s
  <2>4. TabSound(s)
    BY <2>2, <2>3 DEF TabSound
  <2>5. PanesOf(t.tree) = {}
    BY <1>2, NoPanes
  <2> QED
    BY <2>1, <2>2, <2>3, <2>4, <2>5
<1>3. CASE t.tree # Empty
  <2>1. Started(t) = t
    BY <1>3 DEF Started
  <2>2. Proper(t.tree)
    BY <1>3 DEF TabSound, Layout
  <2> QED
    BY <2>1, <2>2
<1> QED
  BY <1>2, <1>3

\* A pane split off the focused one, or the tab as it was.
LEMMA AddPaneIs ==
  ASSUME NEW t, TabSound(t), NEW profile \in Profiles \cup {AdHoc}, NEW dir \in {"V", "H"}, window \in Windows
  PROVE  LET a == AddPane(t, profile, dir)  s == Started(t) IN
         /\ TabSound(a) /\ a.id = t.id /\ a.exited = t.exited /\ a.broadcast = t.broadcast
         /\ PanesOf(t.tree) \subseteq PanesOf(a.tree) /\ DOMAIN t.panes \subseteq DOMAIN a.panes
         /\ \/ a.next = t.next /\ a = s
            \/ /\ a.next = t.next + 1 /\ t.next \in DOMAIN a.panes /\ t.focus \in PanesOf(s.tree)
               /\ CanSplit(s.tree, s.zoom, s.focus, dir, window)
               /\ a.tree = Split(s.tree, t.focus, t.next, dir)
<1> DEFINE a == AddPane(t, profile, dir)  s == Started(t)  new == t.next
<1>1. /\ TabSound(s) /\ s \in TabRecs /\ Proper(s.tree) /\ PanesOf(t.tree) \subseteq PanesOf(s.tree)
      /\ s.id = t.id /\ s.panes = t.panes /\ s.zoom = t.zoom /\ s.focus = t.focus
      /\ s.broadcast = t.broadcast /\ s.next = t.next /\ s.exited = t.exited
  BY StartedIs DEF TabSound
<1> DEFINE f == [p \in DOMAIN s.panes \cup {new} |-> IF p = new THEN Session(profile, window) ELSE s.panes[p]]
           u == Split(s.tree, s.focus, new, dir)
           r == [s EXCEPT !.tree = u, !.zoom = NoPane, !.focus = new, !.next = @ + 1, !.broadcast = t.broadcast, !.panes = f]
<1>2. a = IF ~CanSplit(s.tree, s.zoom, s.focus, dir, window) THEN s ELSE r
  BY DEF AddPane, Targets
<1>3. CASE ~CanSplit(s.tree, s.zoom, s.focus, dir, window)
  <2>1. a = s
    BY <1>2, <1>3
  <2> HIDE DEF s, a
  <2> QED
    BY <1>1, <2>1 DEF s, a
<1>4. CASE CanSplit(s.tree, s.zoom, s.focus, dir, window)
  <2>1. a = r
    BY <1>2, <1>4
  <2> HIDE DEF s, a
  <2>2. s.focus \in PanesOf(s.tree)
    BY <1>4 DEF CanSplit
  <2>3. /\ new \in Nat /\ DOMAIN s.panes \subseteq 0 .. new - 1 /\ PanesOf(s.tree) \subseteq DOMAIN s.panes
        /\ s.panes \in [DOMAIN s.panes -> Sessions]
    BY <1>1, PaneMapsAre DEF TabSound, TabRecs
  <2>4. new \in Nat \ PanesOf(s.tree) /\ new \notin DOMAIN s.panes
    BY <2>3
  <2>5. Proper(u) /\ PanesOf(u) = PanesOf(s.tree) \cup {new} /\ u \in Trees /\ Layout(u)
    <3>1. Proper(u) /\ PanesOf(u) = PanesOf(s.tree) \cup {new}
      BY <1>1, <2>2, <2>4, SplitIs
    <3> QED
      BY <3>1, LayoutsAre DEF Layout
  <2>6. /\ f \in PaneMaps /\ DOMAIN f = DOMAIN s.panes \cup {new}
        /\ \A p \in DOMAIN s.panes : f[p] = s.panes[p]
    <3>1. Session(profile, window) \in Sessions
      BY WindowsAre DEF Session, Sessions
    <3>2. f \in [DOMAIN s.panes \cup {new} -> Sessions] /\ DOMAIN s.panes \cup {new} \in SUBSET Nat
      BY <2>3, <3>1
    <3> QED
      BY <2>4, <3>2, PaneMapsAre
  <2> HIDE DEF f, u
  <2>7. /\ r \in TabRecs /\ r.id = s.id /\ r.exited = s.exited /\ r.broadcast = t.broadcast /\ r.tree = u
        /\ r.zoom = NoPane /\ r.focus = new /\ r.next = new + 1 /\ r.panes = f
    <3>1. s \in TabRecs /\ s.next = new /\ t.broadcast = s.broadcast
      BY <1>1
    <3>2. u \in Trees /\ f \in PaneMaps /\ new \in Nat
      BY <2>3, <2>5, <2>6
    <3> HIDE DEF new
    <3>3. DOMAIN s = {"id", "panes", "tree", "zoom", "focus", "broadcast", "next", "exited"}
      BY <3>1 DEF TabRecs
    <3>4. /\ r.id = s.id /\ r.exited = s.exited /\ r.broadcast = t.broadcast /\ r.tree = u
          /\ r.zoom = NoPane /\ r.focus = new /\ r.next = new + 1 /\ r.panes = f
      BY <3>1, <3>3
    <3> DEFINE r1 == [s EXCEPT !.tree = u, !.zoom = NoPane, !.focus = new]
               r2 == [r1 EXCEPT !.next = s.next + 1, !.broadcast = t.broadcast, !.panes = f]
    <3>5. r = r2
      OBVIOUS
    <3>6. r1 \in TabRecs
      BY <3>1, <3>2 DEF TabRecs
    <3> HIDE DEF r1
    <3>7. s.next + 1 \in Nat /\ t.broadcast \in SUBSET Nat
      BY <3>1, <3>2 DEF TabRecs
    <3>8. r2 \in TabRecs
      BY <3>2, <3>6, <3>7 DEF TabRecs
    <3> HIDE DEF r, r2
    <3> QED
      BY <3>4, <3>5, <3>8
  <2> HIDE DEF r
  <2>8. TabSound(r)
    <3>1. DOMAIN f \subseteq 0 .. (new + 1) - 1
      BY <2>3, <2>6
    <3>2. PanesOf(r.tree) \subseteq DOMAIN r.panes
      BY <2>3, <2>5, <2>6, <2>7
    <3>3. \A p \in r.broadcast : p \in DOMAIN r.panes /\ ~r.panes[p].readOnly
      BY <1>1, <2>6, <2>7 DEF TabSound
    <3>4. 0 \in DOMAIN r.panes
      BY <1>1, <2>6, <2>7 DEF TabSound
    <3> QED
      BY <2>5, <2>6, <2>7, <3>1, <3>2, <3>3, <3>4 DEF TabSound
  <2>9. PanesOf(t.tree) \subseteq PanesOf(r.tree) /\ DOMAIN t.panes \subseteq DOMAIN r.panes
    BY <1>1, <2>5, <2>6, <2>7
  <2>10. r.tree = Split(s.tree, t.focus, t.next, dir)
    BY <1>1, <2>7 DEF u
  <2> QED
    BY <1>1, <1>4, <2>1, <2>2, <2>6, <2>7, <2>8, <2>9, <2>10 DEF s, a
<1> QED
  BY <1>3, <1>4

----------------------------------------------------------------------------
(* The room in a split.                                                    *)

\* What a split leaves of the layout, and where its halves are.
LEMMA HalvesAre ==
  ASSUME NEW t, Proper(t), NEW p \in PanesOf(t), NEW new \in Nat \ PanesOf(t), NEW dir \in {"V", "H"}, NEW w \in Grids,
         NEW u, u = Split(t, p, new, dir), NEW r, r = Walk(t, w)[LeafOf(t, p)]
  PROVE  /\ r \in Rectangles
         /\ Rects(u, NoPane, w)[p] = SplitRect(r, [pane |-> NoPane, dir |-> dir, ratio |-> 50], 1)
         /\ Rects(u, NoPane, w)[new] = SplitRect(r, [pane |-> NoPane, dir |-> dir, ratio |-> 50], 2)
<1> DEFINE n == LeafOf(t, p)  a == Append(n, 1)  b == Append(n, 2)
           node == [pane |-> NoPane, dir |-> dir, ratio |-> 50]
           was == Walk(t, w)  now == Walk(u, w)
<1>1. /\ IsTree(t) /\ n \in Leaves(t) /\ n \in DOMAIN t /\ t[n].pane = p
  BY LeafOfIs DEF Proper
<1>2. Proper(u) /\ IsTree(u) /\ PanesOf(u) = PanesOf(t) \cup {new}
  BY SplitIs DEF Proper
<1>3. u = [m \in DOMAIN t \cup {a, b} |-> IF m = n THEN node ELSE IF m = a THEN Leaf(p) ELSE IF m = b THEN Leaf(new) ELSE t[m]]
  BY DEF Split
<1> HIDE DEF n, node
<1>4. n \in Nodes /\ DOMAIN t \subseteq Nodes
  BY <1>1, TreeNodes
<1>5. /\ a \in Nodes /\ Len(a) = Len(n) + 1 /\ a[Len(n) + 1] = 1 /\ \A i \in 1 .. Len(n) : a[i] = n[i]
      /\ b \in Nodes /\ Len(b) = Len(n) + 1 /\ b[Len(n) + 1] = 2 /\ \A i \in 1 .. Len(n) : b[i] = n[i]
      /\ Len(n) \in Nat
  BY <1>4, Further, Steps
<1>6. a \notin DOMAIN t /\ b \notin DOMAIN t
  BY <1>1 DEF Leaves, IsLeaf, IsTree
<1>7. a # n /\ b # n /\ a # b /\ a # <<>> /\ b # <<>>
  <2>1. Len(<<>>) = 0
    BY EmptySeq
  <2> HIDE DEF a, b
  <2> QED
    BY <1>5, <2>1
<1>8. /\ Front(a) = n /\ Last(a) = 1 /\ Front(b) = n /\ Last(b) = 2
  <2>1. /\ a \in Seq({1, 2}) /\ b \in Seq({1, 2}) /\ n \in Seq({1, 2})
    BY <1>4, <1>5 DEF Nodes
  <2>2. Front(a) = n
    <3> DEFINE f == SubSeq(a, 1, Len(a) - 1)
    <3>0. Len(a) - 1 \in 0 .. Len(a) /\ Len(a) - 1 = Len(n)
      BY <1>5
    <3>1. f \in Nodes /\ Len(f) = Len(n) /\ \A i \in 1 .. Len(n) : f[i] = a[i]
      BY <1>5, <3>0, Begins
    <3> HIDE DEF f
    <3>2. f = n
      BY <1>4, <1>5, <3>1, SamePath
    <3> QED
      BY <3>2 DEF f, Front
  <2>3. Front(b) = n
    <3> DEFINE f == SubSeq(b, 1, Len(b) - 1)
    <3>0. Len(b) - 1 \in 0 .. Len(b) /\ Len(b) - 1 = Len(n)
      BY <1>5
    <3>1. f \in Nodes /\ Len(f) = Len(n) /\ \A i \in 1 .. Len(n) : f[i] = b[i]
      BY <1>5, <3>0, Begins
    <3> HIDE DEF f
    <3>2. f = n
      BY <1>4, <1>5, <3>1, SamePath
    <3> QED
      BY <3>2 DEF f, Front
  <2> HIDE DEF a, b
  <2> QED
    BY <1>5, <2>2, <2>3 DEF Last
<1> HIDE DEF a, b
<1>9. /\ DOMAIN u = DOMAIN t \cup {a, b} /\ u[n] = node /\ u[a] = Leaf(p) /\ u[b] = Leaf(new)
      /\ \A m \in DOMAIN t \ {n} : u[m] = t[m]
  BY <1>1, <1>3, <1>6, <1>7
\* The rest of the layout is where it was.
<1>10. /\ was \in [DOMAIN t -> Rectangles] /\ was[<<>>] = Full(w)
       /\ \A m \in DOMAIN t : m # <<>> => Front(m) \in DOMAIN t /\ was[m] = SplitRect(was[Front(m)], t[Front(m)], Last(m))
  BY <1>1, WalkIs
<1>11. /\ now \in [DOMAIN u -> Rectangles] /\ now[<<>>] = Full(w)
       /\ \A m \in DOMAIN u : m # <<>> => Front(m) \in DOMAIN u /\ now[m] = SplitRect(now[Front(m)], u[Front(m)], Last(m))
  BY <1>2, WalkIs
<1> HIDE DEF was, now
<1>12. \A m \in DOMAIN t : m # <<>> => Front(m) # n /\ Len(Front(m)) = Len(m) - 1 /\ Len(m) \in Nat \ {0}
  <2> SUFFICES ASSUME NEW m \in DOMAIN t, m # <<>>
               PROVE  Front(m) # n /\ Len(Front(m)) = Len(m) - 1 /\ Len(m) \in Nat \ {0}
    OBVIOUS
  <2>1. m \in Nodes /\ m = Append(Front(m), Last(m)) /\ Last(m) \in {1, 2} /\ Len(Front(m)) = Len(m) - 1 /\ Len(m) \in Nat \ {0}
    BY <1>4, LastStep
  <2>2. Front(m) # n
    BY <1>6, <2>1 DEF a, b
  <2> QED
    BY <2>1, <2>2
<1>13. \A m \in DOMAIN t : now[m] = was[m]
  <2> DEFINE S == {k \in Nat : \E m \in DOMAIN t : Len(m) = k /\ now[m] # was[m]}
  <2> SUFFICES ASSUME NEW l \in DOMAIN t, now[l] # was[l] PROVE FALSE
    OBVIOUS
  <2>1. S # {} /\ S \subseteq Nat
    BY <1>4, Steps
  <2>2. PICK k \in S : \A j \in S : k <= j
    BY <2>1, Least
  <2>3. PICK m \in DOMAIN t : Len(m) = k /\ now[m] # was[m]
    BY <2>2
  <2>4. m # <<>>
    BY <1>10, <1>11, <2>3
  <2>5. Front(m) \in DOMAIN t /\ Front(m) # n /\ Len(Front(m)) = k - 1 /\ k - 1 \in Nat /\ k \in Nat
    BY <1>10, <1>12, <2>3, <2>4
  <2>6. now[Front(m)] # was[Front(m)]
    BY <1>9, <1>10, <1>11, <2>3, <2>4, <2>5
  <2>7. k - 1 \in S
    BY <2>5, <2>6
  <2> QED
    BY <2>2, <2>5, <2>7
<1>14. now[a] = SplitRect(was[n], node, 1) /\ now[b] = SplitRect(was[n], node, 2)
  BY <1>1, <1>7, <1>8, <1>9, <1>11, <1>13
<1>15. LeafOf(u, p) = a /\ LeafOf(u, new) = b
  <2>1. \A m \in {a, b}, c \in {1, 2} : Append(m, c) \notin DOMAIN u
    <3> SUFFICES ASSUME NEW m \in {a, b}, NEW c \in {1, 2}, Append(m, c) \in DOMAIN u PROVE FALSE
      OBVIOUS
    <3>1. m \in Nodes /\ Len(m) = Len(n) + 1
      BY <1>5
    <3>2. Len(Append(m, c)) = Len(m) + 1 /\ (\A i \in 1 .. Len(m) : Append(m, c)[i] = m[i]) /\ Append(m, c) \in Nodes
      BY <3>1, Further
    <3>3. Append(m, c) # a /\ Append(m, c) # b
      BY <1>5, <3>1, <3>2
    <3>4. Append(m, c) \in DOMAIN t /\ n # Append(m, c)
      BY <1>5, <1>9, <3>1, <3>2, <3>3
    <3>5. Len(n) <= Len(Append(m, c)) /\ \A i \in 1 .. Len(n) : n[i] = Append(m, c)[i]
      BY <1>5, <3>1, <3>2
    <3>6. IsPrefix(n, Append(m, c))
      BY <1>4, <3>2, <3>5, PrefixIs
    <3> QED
      BY <1>1, <3>4, <3>6, LeavesApart
  <2>2. a \in Leaves(u) /\ b \in Leaves(u)
    BY <1>9, <2>1 DEF Leaves, IsLeaf
  <2>3. u[a].pane = p /\ u[b].pane = new
    BY <1>9 DEF Leaf
  <2>4. p \in PanesOf(u) /\ new \in PanesOf(u)
    BY <1>2
  <2> QED
    BY <1>2, <2>2, <2>3, <2>4, LeafOfIs
<1>16. \A q \in PanesOf(u) : Rects(u, NoPane, w)[q] = now[LeafOf(u, q)]
  BY DEF Rects, Zoomed, now
<1>17. r = was[n] /\ r \in Rectangles
  BY <1>1, <1>10 DEF n, was
<1> QED
  BY <1>2, <1>14, <1>15, <1>16, <1>17 DEF node

\* Half of what is left beside a divider, where there is room for two.
LEMMA HalvesAreUsable ==
  ASSUME NEW r \in Rectangles, Usable(r), NEW dir \in {"V", "H"}, HasRoom(r, dir), NEW c \in {1, 2}
  PROVE  Usable(SplitRect(r, [pane |-> NoPane, dir |-> dir, ratio |-> 50], c))
<1> DEFINE n == IF dir = "V" THEN Avail(r.cols) ELSE Avail(r.rows)
           least == IF dir = "V" THEN MinCols ELSE MinRows
           a == FirstShare(n, 50)  b == SecondShare(n, 50)
           node == [pane |-> NoPane, dir |-> dir, ratio |-> 50]
<1>1. MinCols \in Nat \ {0} /\ MinRows \in Nat \ {0} /\ r.cols \in Nat /\ r.rows \in Nat /\ r.col \in Nat /\ r.row \in Nat
  BY LayoutAssumption DEF Rectangles
<1>2. n \in Nat /\ least \in Nat /\ n >= 2 * least
  BY <1>1 DEF HasRoom, Avail
<1>3. node.dir = dir /\ node.ratio = 50
  OBVIOUS
<1>4. SplitRect(r, node, c) =
        CASE dir = "V" /\ c = 1 -> [r EXCEPT !.cols = a]
          [] dir = "V" /\ c = 2 -> [r EXCEPT !.col = @ + a + 1, !.cols = b]
          [] dir = "H" /\ c = 1 -> [r EXCEPT !.rows = a]
          [] dir = "H" /\ c = 2 -> [r EXCEPT !.row = @ + a + 1, !.rows = b]
  BY <1>3 DEF SplitRect
<1> HIDE DEF n, least
<1>5. a \in Nat /\ b \in Nat /\ a >= least /\ b >= least
  <2>1. a = (100 * n + 100) \div 200 /\ b = n - a
    BY <1>2 DEF FirstShare, SecondShare
  <2> HIDE DEF a, b
  <2>2. a \in Nat /\ a >= least /\ a <= n
    BY <1>2, <2>1
  <2>3. 2 * a <= n + 1
    BY <1>2, <2>1
  <2> QED
    BY <1>2, <2>1, <2>2, <2>3
<1> HIDE DEF a, b, node
<1>6. CASE dir = "V"
  <2>1. SplitRect(r, node, c).cols \in {a, b} /\ SplitRect(r, node, c).rows = r.rows
    <3>1. CASE c = 1
      BY <1>4, <1>6, <3>1 DEF Rectangles
    <3>2. CASE c = 2
      BY <1>4, <1>6, <3>2 DEF Rectangles
    <3> QED
      BY <3>1, <3>2
  <2> QED
    BY <1>1, <1>5, <1>6, <2>1 DEF Usable, node, least
<1>7. CASE dir = "H"
  <2>1. SplitRect(r, node, c).rows \in {a, b} /\ SplitRect(r, node, c).cols = r.cols
    <3>1. CASE c = 1
      BY <1>4, <1>7, <3>1 DEF Rectangles
    <3>2. CASE c = 2
      BY <1>4, <1>7, <3>2 DEF Rectangles
    <3> QED
      BY <3>1, <3>2
  <2> QED
    BY <1>1, <1>5, <1>7, <2>1 DEF Usable, node, least
<1> QED
  BY <1>6, <1>7

\* A split of a focused pane leaves room in both halves.
LEMMA AddPaneIsRoomy ==
  ASSUME NEW t, TabSound(t), NEW profile \in Profiles \cup {AdHoc}, NEW dir \in {"V", "H"}, window \in Windows
  PROVE  Roomy(t, AddPane(t, profile, dir))
<1> DEFINE a == AddPane(t, profile, dir)  s == Started(t)  tree == s.tree  r == Rects(tree, NoPane, window)[t.focus]
<1>0. t.next \in Nat /\ Proper(tree) /\ s.zoom = t.zoom /\ s.focus = t.focus /\ s.panes = t.panes
      /\ PanesOf(tree) \subseteq DOMAIN t.panes /\ DOMAIN t.panes \subseteq 0 .. t.next - 1
  BY StartedIs DEF TabSound, TabRecs
<1>1. \/ a.next = t.next
      \/ /\ t.focus \in PanesOf(s.tree) /\ CanSplit(s.tree, s.zoom, s.focus, dir, window)
         /\ a.tree = Split(s.tree, t.focus, t.next, dir)
  BY AddPaneIs
<1> SUFFICES ASSUME a.next > t.next, t.zoom = NoPane, Usable(r)
             PROVE  Usable(Rects(a.tree, NoPane, window)[t.next]) /\ Usable(Rects(a.tree, NoPane, window)[t.focus])
  BY DEF Roomy
<1> HIDE DEF a, s
<1>2. /\ t.focus \in PanesOf(tree) /\ CanSplit(tree, NoPane, t.focus, dir, window)
      /\ a.tree = Split(tree, t.focus, t.next, dir)
  BY <1>0, <1>1
<1>3. HasRoom(r, dir)
  BY <1>2 DEF CanSplit
<1>4. r = Walk(tree, window)[LeafOf(tree, t.focus)]
  BY <1>2 DEF Rects, Zoomed
<1>5. t.next \in Nat \ PanesOf(tree) /\ window \in Grids
  BY <1>0, WindowsAre
<1> DEFINE node == [pane |-> NoPane, dir |-> dir, ratio |-> 50]
<1> HIDE DEF tree, r
<1>6. /\ r \in Rectangles
      /\ Rects(a.tree, NoPane, window)[t.focus] = SplitRect(r, node, 1)
      /\ Rects(a.tree, NoPane, window)[t.next] = SplitRect(r, node, 2)
  BY <1>0, <1>2, <1>4, <1>5, HalvesAre
<1> QED
  BY <1>3, <1>6, HalvesAreUsable

----------------------------------------------------------------------------
(* Workspaces.                                                             *)

\* A saved layout with the panes in order: every one of them once.
LEMMA DeserializeIs ==
  ASSUME NEW s, IsTree(s), NEW order \in Seq(Nat), Readable(s, order),
         \A i, j \in 1 .. Len(order) : order[i] = order[j] => i = j
  PROVE  /\ Proper(Deserialize(s, order))
         /\ \A p \in PanesOf(Deserialize(s, order)) : \E i \in 1 .. Len(order) : p = order[i]
<1> DEFINE u == Deserialize(s, order)
           L == Leaves(s)
           place == [n \in L |-> s[n].pane]
           T == 0 .. Len(order) - 1
<1>1. /\ s \in [DOMAIN s -> NodeInfo] /\ L \subseteq DOMAIN s /\ IsFiniteSet(L) /\ Len(order) \in Nat
      /\ \A n \in L : IsLeaf(s, n)
  BY TreeNodes, LenProperties DEF IsTree, NodeInfo, Leaves
<1>2. Cardinality(L) = Len(order) /\ {s[n].pane : n \in L} = T
  BY DEF Readable, Count
<1>3. place \in Surjection(L, T)
  BY <1>2 DEF Surjection
<1>4. Cardinality(L) = Cardinality(T)
  <2> DEFINE k == Len(order) - 1
  <2>1. k \in Int /\ (IF 0 > k THEN 0 ELSE k - 0 + 1) = Len(order)
    BY <1>1
  <2> HIDE DEF k
  <2>2. Cardinality(0 .. k) = IF 0 > k THEN 0 ELSE k - 0 + 1
    BY <2>1, FS_Interval
  <2> QED
    BY <1>2, <2>1, <2>2 DEF k
<1>5. place \in Injection(L, T)
  BY <1>1, <1>3, <1>4, FS_SurjSameCardinalityImpliesInj
<1>6. \A m, n \in L : s[m].pane = s[n].pane => m = n
  BY <1>5 DEF Injection, IsInjective
<1>7. \A n \in L : s[n].pane \in T
  BY <1>2
<1>8. u = [n \in DOMAIN s |-> IF IsLeaf(s, n) THEN [s[n] EXCEPT !.pane = order[@ + 1]] ELSE s[n]]
  BY DEF Deserialize, Renamed
<1> HIDE DEF u, place
<1>9. \A i \in T : i + 1 \in 1 .. Len(order) /\ order[i + 1] \in Nat
  BY <1>1
<1>10. DOMAIN u = DOMAIN s
  BY <1>8
<1>11. \A n \in DOMAIN s : IsLeaf(s, n) => n \in L
  BY DEF Leaves
<1>12. \A n \in DOMAIN s : /\ u[n] \in NodeInfo
                           /\ IsLeaf(s, n) => u[n].pane = order[s[n].pane + 1]
  <2> SUFFICES ASSUME NEW n \in DOMAIN s
               PROVE  u[n] \in NodeInfo /\ (IsLeaf(s, n) => u[n].pane = order[s[n].pane + 1])
    OBVIOUS
  <2>1. s[n] \in NodeInfo
    BY <1>1
  <2>2. CASE IsLeaf(s, n)
    <3>1. u[n] = [s[n] EXCEPT !.pane = order[s[n].pane + 1]]
      BY <1>8, <2>2
    <3>2. order[s[n].pane + 1] \in Nat
      BY <1>7, <1>9, <1>11, <2>2
    <3> QED
      BY <2>1, <3>1, <3>2 DEF NodeInfo
  <2>3. CASE ~IsLeaf(s, n)
    BY <1>8, <2>1, <2>3
  <2> QED
    BY <2>2, <2>3
<1>13. u \in [DOMAIN s -> NodeInfo]
  BY <1>8, <1>10, <1>12
<1>14. Leaves(u) = L /\ \A n \in DOMAIN s : IsLeaf(u, n) <=> IsLeaf(s, n)
  BY <1>10 DEF Leaves, IsLeaf
<1>15. \A n \in L : u[n].pane = order[s[n].pane + 1] /\ u[n].pane # NoPane
  <2> SUFFICES ASSUME NEW n \in L PROVE u[n].pane = order[s[n].pane + 1] /\ u[n].pane # NoPane
    OBVIOUS
  <2>1. u[n].pane = order[s[n].pane + 1]
    BY <1>1, <1>12
  <2>2. order[s[n].pane + 1] \in Nat
    BY <1>7, <1>9
  <2> QED
    BY <2>1, <2>2 DEF NoPane
<1>16. IsTree(u)
  BY <1>10, <1>11, <1>13, <1>14, <1>15 DEF IsTree, NodeInfo
<1>17. \A m, n \in Leaves(u) : u[m].pane = u[n].pane => m = n
  <2> SUFFICES ASSUME NEW m \in L, NEW n \in L, u[m].pane = u[n].pane PROVE m = n
    BY <1>14
  <2>1. s[m].pane + 1 = s[n].pane + 1
    BY <1>7, <1>9, <1>15
  <2> QED
    BY <1>1, <1>6, <1>7, <2>1
<1>18. \A p \in PanesOf(u) : \E i \in 1 .. Len(order) : p = order[i]
  BY <1>7, <1>9, <1>14, <1>15 DEF PanesOf
<1> QED
  BY <1>16, <1>17, <1>18 DEF Proper, u

\* How far a workspace has been reopened: a sound tab that broadcasts nothing,
\* and panes of its own in the order they were made.
ReopenRecs == [tab : TabRecs, order : Seq(Nat), full : BOOLEAN]
ReopenSound(s, id) ==
  /\ s \in ReopenRecs /\ TabSound(s.tab) /\ s.tab.id = id /\ s.tab.broadcast = {} /\ Len(s.order) >= 1
  /\ \A i \in 1 .. Len(s.order) : s.order[i] \in DOMAIN s.tab.panes
  /\ \A i, j \in 1 .. Len(s.order) : i < j => s.order[i] < s.order[j]

\* One more pane.
LEMMA ReopenStep ==
  ASSUME NEW id, NEW s, ReopenSound(s, id), NEW profile, window \in Windows
  PROVE  ReopenSound(AddSaved(s, profile), id)
<1>0. CASE s.full \/ profile \notin Profiles
  BY <1>0 DEF AddSaved
<1> SUFFICES ASSUME ~s.full, profile \in Profiles PROVE ReopenSound(AddSaved(s, profile), id)
  BY <1>0
<1> DEFINE t == AddPane(s.tab, profile, "V")
           r == IF t.next = s.tab.next THEN [s EXCEPT !.tab = t, !.full = TRUE]
                ELSE [s EXCEPT !.tab = t, !.order = Append(@, s.tab.next)]
<1>6. AddSaved(s, profile) = r
  BY DEF AddSaved
<1> SUFFICES ReopenSound(r, id)
  BY <1>6
<1>7. t = AddPane(s.tab, profile, "V")
  OBVIOUS
<1> HIDE DEF t
<1>1. s \in ReopenRecs /\ TabSound(s.tab) /\ s.tab \in TabRecs
  BY DEF ReopenSound, TabSound
<1>2. /\ TabSound(t) /\ t.id = s.tab.id /\ t.broadcast = s.tab.broadcast
      /\ DOMAIN s.tab.panes \subseteq DOMAIN t.panes
      /\ \/ t.next = s.tab.next
         \/ t.next = s.tab.next + 1 /\ s.tab.next \in DOMAIN t.panes
  <2> DEFINE tab == s.tab
  <2>1. TabSound(tab) /\ profile \in Profiles \cup {AdHoc} /\ "V" \in {"V", "H"} /\ t = AddPane(tab, profile, "V")
    BY <1>1, <1>7
  <2> HIDE DEF tab
  <2>2. /\ TabSound(AddPane(tab, profile, "V")) /\ AddPane(tab, profile, "V").id = tab.id
        /\ AddPane(tab, profile, "V").broadcast = tab.broadcast
        /\ DOMAIN tab.panes \subseteq DOMAIN AddPane(tab, profile, "V").panes
        /\ \/ AddPane(tab, profile, "V").next = tab.next
           \/ AddPane(tab, profile, "V").next = tab.next + 1 /\ tab.next \in DOMAIN AddPane(tab, profile, "V").panes
    BY <2>1, AddPaneIs
  <2> QED
    BY <2>1, <2>2 DEF tab
<1>3. t \in TabRecs /\ s.tab.next \in Nat /\ DOMAIN s.tab.panes \subseteq 0 .. s.tab.next - 1
  BY <1>1, <1>2 DEF TabSound, TabRecs
<1>4. CASE t.next = s.tab.next
  <2> DEFINE u == [s EXCEPT !.tab = t, !.full = TRUE]
  <2>1. u \in ReopenRecs /\ u.tab = t /\ u.order = s.order
    BY <1>1, <1>3 DEF ReopenRecs
  <2> HIDE DEF u
  <2>2. ReopenSound(u, id)
    BY <1>2, <2>1 DEF ReopenSound
  <2> QED
    BY <1>4, <2>2 DEF r, u
<1>5. CASE t.next # s.tab.next
  <2> DEFINE o == Append(s.order, s.tab.next)  u == [s EXCEPT !.tab = t, !.order = Append(@, s.tab.next)]
             n == Len(s.order)
  <2>1. s.order \in Seq(Nat)
    BY <1>1 DEF ReopenRecs
  <2>2. /\ o \in Seq(Nat) /\ Len(o) = n + 1 /\ n \in Nat /\ o[n + 1] = s.tab.next
        /\ \A i \in 1 .. n : o[i] = s.order[i]
    BY <1>3, <2>1, AppendProperties, LenProperties
  <2> HIDE DEF o
  <2>3. u \in ReopenRecs /\ u.tab = t /\ u.order = o
    BY <1>1, <1>3, <2>2 DEF ReopenRecs, o
  <2> HIDE DEF u
  <2>4. n >= 1 /\ \A i \in 1 .. n : s.order[i] \in DOMAIN s.tab.panes
    BY DEF ReopenSound
  <2>5. \A i \in 1 .. n : o[i] \in DOMAIN t.panes /\ o[i] < o[n + 1]
    <3> SUFFICES ASSUME NEW i \in 1 .. n PROVE o[i] \in DOMAIN t.panes /\ o[i] < o[n + 1]
      OBVIOUS
    <3> DEFINE p == o[i]
    <3>1. p \in DOMAIN s.tab.panes
      BY <2>2, <2>4
    <3>2. p \in 0 .. s.tab.next - 1
      BY <1>3, <3>1
    <3> HIDE DEF p
    <3>3. p \in DOMAIN t.panes /\ p < s.tab.next
      BY <1>2, <1>3, <3>1, <3>2
    <3> QED
      BY <2>2, <3>3 DEF p
  <2>6. \A i, j \in 1 .. n : i < j => o[i] < o[j]
    BY <2>2 DEF ReopenSound
  <2>7. \A i \in 1 .. n + 1 : i \in 1 .. n \/ i = n + 1
    BY <2>2
  <2>8. \A i \in 1 .. n + 1 : o[i] \in DOMAIN t.panes
    BY <1>2, <1>5, <2>2, <2>5, <2>7
  <2>9. \A i, j \in 1 .. n + 1 : i < j => o[i] < o[j]
    <3> SUFFICES ASSUME NEW i \in 1 .. n + 1, NEW j \in 1 .. n + 1, i < j PROVE o[i] < o[j]
      OBVIOUS
    <3>1. i \in 1 .. n
      BY <2>2
    <3> QED
      BY <2>5, <2>6, <2>7, <3>1
  <2>10. t.id = id /\ t.broadcast = {}
    BY <1>2 DEF ReopenSound
  <2>11. ReopenSound(u, id)
    BY <1>2, <2>2, <2>3, <2>4, <2>8, <2>9, <2>10 DEF ReopenSound
  <2> QED
    BY <1>5, <2>11 DEF r, u
<1> QED
  BY <1>4, <1>5

\* A workspace reopened pane by pane.
LEMMA ReopenedIs ==
  ASSUME NEW w, Len(w.others) \in Nat, w.profile \in Profiles, NEW id \in Nat, window \in Windows
  PROVE  ReopenSound(Reopened(w, id), id)
<1> DEFINE N == Len(w.others)
           Zero == [tab |-> NewTab(id, w.profile), order |-> <<0>>, full |-> FALSE]
           Def(fn, k) == IF k = 0 THEN Zero ELSE AddSaved(fn[k - 1], w.others[k])
           Has(k) == \E fn : fn = [j \in 0 .. k |-> Def(fn, j)]
           f == CHOOSE fn : fn = [k \in 0 .. N |-> Def(fn, k)]
<1>1. Reopened(w, id) = f[N]
  BY DEF Reopened
<1>3. ReopenSound(Zero, id)
  <2> DEFINE tab == NewTab(id, w.profile)  o == <<0>>
  <2>1. TabSound(tab) /\ tab.id = id /\ tab.broadcast = {}
    BY NewTabIs
  <2>2. tab \in TabRecs /\ 0 \in DOMAIN tab.panes
    BY <2>1 DEF TabSound
  <2>3. o \in Seq(Nat) /\ Len(o) = 1 /\ o[1] = 0
    OBVIOUS
  <2>6. Zero = [tab |-> tab, order |-> o, full |-> FALSE]
    OBVIOUS
  <2> HIDE DEF tab, o, Zero
  <2>4. Zero \in ReopenRecs /\ Zero.tab = tab /\ Zero.order = o
    BY <2>2, <2>3, <2>6 DEF ReopenRecs
  <2> HIDE DEF Zero
  <2>5. \A i \in 1 .. Len(o) : i = 1
    BY <2>3
  <2>7. \A i \in 1 .. Len(o) : o[i] \in DOMAIN tab.panes
    BY <2>2, <2>3, <2>5, Zenon
  <2>8. \A i, j \in 1 .. Len(o) : i < j => o[i] < o[j]
    <3>1. ~(1 < 1)
      OBVIOUS
    <3> QED
      BY <2>5, <3>1, Zenon
  <2>9. Len(o) >= 1
    BY <2>3
  <2> QED
    BY <2>1, <2>4, <2>7, <2>8, <2>9, Zenon DEF ReopenSound
<1> HIDE DEF Zero
<1>4. Has(0)
  <2> DEFINE fn == [j \in 0 .. 0 |-> Zero]
  <2>1. fn = [j \in 0 .. 0 |-> Def(fn, j)]
    OBVIOUS
  <2> QED
    BY <2>1
<1>5. ASSUME NEW k \in Nat, Has(k) PROVE Has(k + 1)
  <2>1. PICK fn : fn = [j \in 0 .. k |-> Def(fn, j)]
    BY <1>5
  <2> DEFINE h == [j \in 0 .. k + 1 |-> Def(fn, j)]
  <2>2. \A j \in 0 .. k : h[j] = fn[j]
    BY <2>1
  <2>3. \A j \in 0 .. k + 1 : Def(h, j) = Def(fn, j)
    BY <2>2
  <2> HIDE DEF Def
  <2>4. h = [j \in 0 .. k + 1 |-> Def(h, j)]
    BY <2>3
  <2> QED
    BY <2>4
<1> HIDE DEF Has
<1>6. Has(N)
  <2> DEFINE S == {k \in Nat : ~Has(k)}
  <2> SUFFICES ASSUME S # {} PROVE FALSE
    OBVIOUS
  <2>1. PICK k \in S : \A j \in S : k <= j
    BY Least
  <2>2. k \in Nat /\ k # 0 /\ ~Has(k)
    BY <1>4, <2>1
  <2>3. k - 1 \in Nat /\ k - 1 + 1 = k /\ k - 1 \notin S
    BY <2>1, <2>2
  <2>4. Has(k - 1)
    BY <2>3
  <2> QED
    BY <1>5, <2>2, <2>3, <2>4
<1> HIDE DEF Def
<1>7. f = [k \in 0 .. N |-> Def(f, k)]
  BY <1>6 DEF Has
<1> HIDE DEF f
<1>8. \A k \in 0 .. N : f[k] = Def(f, k)
  BY <1>7
<1>9. \A k \in 0 .. N : ReopenSound(f[k], id)
  <2> DEFINE S == {k \in 0 .. N : ~ReopenSound(f[k], id)}
  <2> SUFFICES ASSUME S # {} PROVE FALSE
    OBVIOUS
  <2>0. S \subseteq Nat
    OBVIOUS
  <2>1. PICK k \in S : \A j \in S : k <= j
    BY <2>0, Least
  <2>2. k \in 0 .. N /\ ~ReopenSound(f[k], id) /\ f[k] = Def(f, k)
    BY <1>8, <2>1
  <2>3. k # 0
    BY <1>3, <2>2 DEF Def
  <2>4. k - 1 \in 0 .. N /\ k - 1 \notin S
    BY <2>1, <2>2, <2>3
  <2>5. ReopenSound(f[k - 1], id)
    BY <2>4
  <2>6. f[k] = AddSaved(f[k - 1], w.others[k])
    BY <2>2, <2>3 DEF Def
  <2> QED
    BY <2>2, <2>5, <2>6, ReopenStep
<1>10. N \in 0 .. N
  OBVIOUS
<1> QED
  BY <1>1, <1>9, <1>10

\* A workspace's tab is sound, and broadcasts nothing.
LEMMA OpenWorkspaceTabIs ==
  ASSUME NEW w \in Workspaces, w.profile \in Profiles, NEW id \in Nat, window \in Windows
  PROVE  /\ TabSound(OpenWorkspaceTab(w, id)) /\ OpenWorkspaceTab(w, id).id = id
         /\ OpenWorkspaceTab(w, id).broadcast = {}
<1> DEFINE s == Reopened(w, id)  t == s.tab  o == s.order
           Locked(p) == \E k \in w.locked : k < Len(o) /\ o[k + 1] = p
           tree == IF w.layout # Empty /\ Len(o) > 1 /\ Readable(w.layout, o) THEN Deserialize(w.layout, o) ELSE t.tree
           f == [p \in DOMAIN t.panes |-> [t.panes[p] EXCEPT !.readOnly = @ \/ Locked(p)]]
           focus == IF w.focus < Len(o) THEN o[w.focus + 1] ELSE t.focus
           r == [t EXCEPT !.tree = tree, !.panes = f, !.focus = focus, !.broadcast = {}, !.zoom = NoPane]
<1>1. OpenWorkspaceTab(w, id) = r
  BY DEF OpenWorkspaceTab
<1>2. w.focus \in Nat /\ Len(w.others) \in Nat /\ (w.layout = Empty \/ IsTree(w.layout))
  <2>1. w \in [profile : STRING, others : Seq(STRING), layout : {w.layout}, focus : Nat, locked : SUBSET Nat]
    BY DeskAssumption
  <2>2. w.layout = Empty \/ IsTree(w.layout)
    BY DeskAssumption
  <2> QED
    BY <2>1, <2>2, LenProperties
<1>3. ReopenSound(s, id)
  BY <1>2, ReopenedIs
<1> HIDE DEF s
<1>4. /\ o \in Seq(Nat) /\ Len(o) \in Nat /\ Len(o) >= 1 /\ TabSound(t) /\ t \in TabRecs /\ t.id = id
      /\ \A i \in 1 .. Len(o) : o[i] \in DOMAIN t.panes /\ o[i] \in Nat
  BY <1>3, LenProperties DEF ReopenSound, ReopenRecs, TabSound
<1>5. \A i, j \in 1 .. Len(o) : o[i] = o[j] => i = j
  <2> SUFFICES ASSUME NEW i \in 1 .. Len(o), NEW j \in 1 .. Len(o), o[i] = o[j] PROVE i = j
    OBVIOUS
  <2>1. \A a, b \in 1 .. Len(o) : a < b => o[a] < o[b]
    BY <1>3 DEF ReopenSound
  <2>2. o[i] \in Nat /\ o[j] \in Nat
    BY <1>4
  <2>3. ~(i < j) /\ ~(j < i)
    BY <2>1, <2>2
  <2> QED
    BY <1>4, <2>3
<1>6. Layout(tree) /\ tree \in Trees /\ PanesOf(tree) \subseteq DOMAIN t.panes
  <2>1. CASE w.layout # Empty /\ Len(o) > 1 /\ Readable(w.layout, o)
    <3> DEFINE l == w.layout
    <3>1. IsTree(l) /\ Readable(l, o)
      BY <1>2, <2>1
    <3> HIDE DEF l, o
    <3>2. Proper(Deserialize(l, o)) /\ \A p \in PanesOf(Deserialize(l, o)) : \E i \in 1 .. Len(o) : p = o[i]
      BY <1>4, <1>5, <3>1, DeserializeIs
    <3>3. tree = Deserialize(l, o)
      BY <2>1 DEF l, o
    <3> HIDE DEF tree
    <3>4. Layout(tree)
      BY <3>2, <3>3 DEF Layout
    <3> QED
      BY <1>4, <3>2, <3>3, <3>4, LayoutsAre
  <2>2. CASE ~(w.layout # Empty /\ Len(o) > 1 /\ Readable(w.layout, o))
    <3>1. tree = t.tree
      BY <2>2
    <3> HIDE DEF tree
    <3> QED
      BY <1>4, <3>1, LayoutsAre DEF TabSound
  <2> QED
    BY <2>1, <2>2
<1>7. DOMAIN t.panes \in SUBSET Nat /\ t.panes \in [DOMAIN t.panes -> Sessions]
  BY <1>4, PaneMapsAre DEF TabRecs
<1>8. f \in PaneMaps /\ DOMAIN f = DOMAIN t.panes
  <2> HIDE DEF Locked
  <2>1. \A p \in DOMAIN t.panes : [t.panes[p] EXCEPT !.readOnly = @ \/ Locked(p)] \in Sessions
    <3> SUFFICES ASSUME NEW p \in DOMAIN t.panes PROVE [t.panes[p] EXCEPT !.readOnly = @ \/ Locked(p)] \in Sessions
      OBVIOUS
    <3> DEFINE q == t.panes[p]  b == q.readOnly \/ Locked(p)
    <3>1. q \in Sessions /\ b \in BOOLEAN
      BY <1>7 DEF Sessions
    <3> HIDE DEF q, b
    <3>2. [q EXCEPT !.readOnly = b] \in Sessions
      BY <3>1 DEF Sessions
    <3> QED
      BY <3>2 DEF q, b
  <2>2. f \in [DOMAIN t.panes -> Sessions]
    BY <2>1
  <2> HIDE DEF f
  <2> QED
    BY <1>7, <2>2, PaneMapsAre
<1>9. focus \in DOMAIN t.panes /\ focus \in Nat
  <2>1. CASE w.focus < Len(o)
    <3>1. w.focus + 1 \in 1 .. Len(o)
      BY <1>2, <1>4, <2>1
    <3> QED
      BY <1>4, <2>1, <3>1
  <2>2. CASE ~(w.focus < Len(o))
    <3>1. t.focus \in DOMAIN t.panes /\ t.focus \in Nat
      BY <1>4 DEF TabSound, TabRecs
    <3> QED
      BY <2>2, <3>1
  <2> QED
    BY <2>1, <2>2
<1> HIDE DEF tree, f, focus, t
<1>10. /\ r \in TabRecs /\ r.id = id /\ r.tree = tree /\ r.panes = f /\ r.focus = focus
       /\ r.broadcast = {} /\ r.zoom = NoPane /\ r.next = t.next
  <2>1. DOMAIN t = {"id", "panes", "tree", "zoom", "focus", "broadcast", "next", "exited"}
    BY <1>4 DEF TabRecs
  <2>2. /\ r.id = id /\ r.tree = tree /\ r.panes = f /\ r.focus = focus
        /\ r.broadcast = {} /\ r.zoom = NoPane /\ r.next = t.next
    BY <1>4, <2>1
  <2> DEFINE r1 == [t EXCEPT !.tree = tree, !.panes = f, !.focus = focus]
             r2 == [r1 EXCEPT !.broadcast = {}, !.zoom = NoPane]
  <2>3. r = r2
    OBVIOUS
  <2>4. r1 \in TabRecs
    BY <1>4, <1>6, <1>8, <1>9 DEF TabRecs
  <2> HIDE DEF r1
  <2>5. r2 \in TabRecs
    BY <2>4 DEF TabRecs
  <2> HIDE DEF r, r2
  <2> QED
    BY <2>2, <2>3, <2>5
<1> HIDE DEF r
<1>11. TabSound(r)
  BY <1>4, <1>6, <1>8, <1>9, <1>10 DEF TabSound
<1> QED
  BY <1>1, <1>10, <1>11

----------------------------------------------------------------------------
(* All the tabs.                                                           *)

\* A tab with its panes sized anew differs in nothing that a step looks at.
Alike(t, s) ==
  s.id = t.id /\ s.exited = t.exited /\ s.next = t.next /\ s.tree = t.tree /\ s.broadcast = t.broadcast
  /\ DOMAIN s.panes = DOMAIN t.panes

\* A tab follows itself.
LEMMA FollowsSelf == ASSUME NEW t, TabSound(t) PROVE Follows(t, t)
<1>1. t.next \in Nat /\ t.broadcast \subseteq DOMAIN t.panes
  BY DEF TabSound, TabRecs
<1> QED
  BY <1>1 DEF Follows, Keeps, Roomy

\* What is like a tab follows what the tab does.
LEMMA FollowsAlike == ASSUME NEW t, NEW s, NEW r, Follows(t, s), Alike(s, r) PROVE Follows(t, r)
  BY DEF Follows, Keeps, Roomy, Alike

\* A sequence without one of its elements.
LEMMA RemoveAtIs ==
  ASSUME NEW S, NEW s \in Seq(S), NEW i \in 1 .. Len(s)
  PROVE  /\ RemoveAt(s, i) \in Seq(S) /\ Len(RemoveAt(s, i)) = Len(s) - 1
         /\ \A j \in 1 .. Len(s) - 1 : RemoveAt(s, i)[j] = s[IF j < i THEN j ELSE j + 1]
<1> DEFINE n == Len(s)  a == SubSeq(s, 1, i - 1)  b == SubSeq(s, i + 1, n)
<1>1. n \in Nat /\ i \in 1 .. n /\ \A k \in 1 .. n : s[k] \in S
  BY LenProperties, ElementOfSeq
<1>2. a \in Seq(S) /\ Len(a) = i - 1 /\ \A k \in 1 .. i - 1 : a[k] = s[k]
  <2>1. 1 \in Int /\ i - 1 \in Int /\ \A k \in 1 .. i - 1 : s[k] \in S
    BY <1>1
  <2> DEFINE m == i - 1
  <2> HIDE DEF m
  <2>2. 1 \in Int /\ m \in Int /\ \A k \in 1 .. m : s[k] \in S
    BY <2>1 DEF m
  <2>3. /\ SubSeq(s, 1, m) \in Seq(S) /\ Len(SubSeq(s, 1, m)) = IF 1 <= m THEN m - 1 + 1 ELSE 0
        /\ \A k \in 1 .. m - 1 + 1 : SubSeq(s, 1, m)[k] = s[1 + k - 1]
    BY <2>2, SubSeqProperties
  <2>4. m - 1 + 1 = m /\ m = i - 1 /\ m \in Nat /\ (\A k \in 1 .. m : 1 + k - 1 = k)
    BY <1>1 DEF m
  <2>5. \A k \in 1 .. m : SubSeq(s, 1, m)[k] = s[k]
    BY <2>3, <2>4
  <2>6. Len(SubSeq(s, 1, m)) = m
    BY <2>3, <2>4
  <2> QED
    BY <2>3, <2>4, <2>5, <2>6
<1>3. b \in Seq(S) /\ Len(b) = n - i /\ \A k \in 1 .. n - i : b[k] = s[i + k]
  <2>1. i + 1 \in Int /\ n \in Int /\ \A k \in i + 1 .. n : s[k] \in S
    BY <1>1
  <2> DEFINE m == i + 1
  <2> HIDE DEF m, n
  <2>2. m \in Int /\ n \in Int /\ \A k \in m .. n : s[k] \in S
    BY <2>1 DEF m
  <2>3. /\ SubSeq(s, m, n) \in Seq(S) /\ Len(SubSeq(s, m, n)) = IF m <= n THEN n - m + 1 ELSE 0
        /\ \A k \in 1 .. n - m + 1 : SubSeq(s, m, n)[k] = s[m + k - 1]
    BY <2>2, SubSeqProperties
  <2>4. n - m + 1 = n - i /\ m = i + 1 /\ n - i \in Nat /\ (\A k \in 1 .. n - i : m + k - 1 = i + k)
    BY <1>1 DEF m
  <2>5. \A k \in 1 .. n - i : SubSeq(s, m, n)[k] = s[i + k]
    BY <2>3, <2>4
  <2>6. Len(SubSeq(s, m, n)) = n - i
    BY <1>1, <2>3, <2>4
  <2> QED
    BY <2>3, <2>4, <2>5, <2>6
<1>4. RemoveAt(s, i) = a \o b
  BY DEF RemoveAt
<1> HIDE DEF a, b
<1>5. /\ a \o b \in Seq(S) /\ Len(a \o b) = Len(a) + Len(b)
      /\ \A k \in 1 .. Len(a) + Len(b) : (a \o b)[k] = IF k <= Len(a) THEN a[k] ELSE b[k - Len(a)]
  BY <1>2, <1>3, ConcatProperties
<1> HIDE DEF n
<1>6. Len(a) + Len(b) = n - 1
  BY <1>1, <1>2, <1>3
<1>7. \A j \in 1 .. n - 1 : (a \o b)[j] = s[IF j < i THEN j ELSE j + 1]
  <2> SUFFICES ASSUME NEW j \in 1 .. n - 1 PROVE (a \o b)[j] = s[IF j < i THEN j ELSE j + 1]
    OBVIOUS
  <2>1. (a \o b)[j] = IF j <= i - 1 THEN a[j] ELSE b[j - (i - 1)]
    BY <1>2, <1>5, <1>6
  <2>2. CASE j < i
    <3>1. j <= i - 1 /\ j \in 1 .. i - 1
      BY <1>1, <2>2
    <3> QED
      BY <1>2, <2>1, <2>2, <3>1
  <2>3. CASE ~(j < i)
    <3>1. ~(j <= i - 1) /\ j - (i - 1) \in 1 .. n - i /\ i + (j - (i - 1)) = j + 1
      BY <1>1, <2>3
    <3> QED
      BY <1>3, <2>1, <2>3, <3>1
  <2> QED
    BY <2>2, <2>3
<1> QED
  BY <1>4, <1>5, <1>6, <1>7 DEF n

\* Proper tabs have a length.
LEMMA TabsAre ==
  ASSUME NEW ts, TabsSound(ts)
  PROVE  Len(ts) \in Nat /\ DOMAIN ts = 1 .. Len(ts) /\ ts \in [1 .. Len(ts) -> TabRecs]
  BY LenProperties DEF TabsSound

\* One tab replaced.
LEMMA PutTab ==
  ASSUME NEW ts, TabsSound(ts), NEW i \in 1 .. Len(ts), NEW t, TabSound(t)
  PROVE  /\ TabsSound([ts EXCEPT ![i] = t]) /\ Len([ts EXCEPT ![i] = t]) = Len(ts)
         /\ \A j \in 1 .. Len(ts) : [ts EXCEPT ![i] = t][j] = IF j = i THEN t ELSE ts[j]
<1>1. ts \in Seq(TabRecs) /\ t \in TabRecs
  BY DEF TabsSound, TabSound
<1> DEFINE u == [ts EXCEPT ![i] = t]
<1>2. u \in Seq(TabRecs) /\ Len(u) = Len(ts) /\ \A j \in 1 .. Len(ts) : u[j] = IF j = i THEN t ELSE ts[j]
  BY <1>1, ExceptSeq
<1> HIDE DEF u
<1>3. \A j \in 1 .. Len(u) : TabSound(u[j])
  BY <1>2 DEF TabsSound
<1> QED
  BY <1>2, <1>3 DEF TabsSound, u

\* Every tab laid out again.
LEMMA GridDimsIs ==
  ASSUME NEW ts, TabsSound(ts), NEW w \in Grids
  PROVE  /\ TabsSound(UpdateGridDims(ts, w)) /\ Len(UpdateGridDims(ts, w)) = Len(ts)
         /\ \A i \in 1 .. Len(ts) : Alike(ts[i], UpdateGridDims(ts, w)[i])
<1> DEFINE n == Len(ts)  u == UpdateGridDims(ts, w)
<1>1. n \in Nat /\ DOMAIN ts = 1 .. n /\ \A i \in 1 .. n : TabSound(ts[i])
  BY TabsAre DEF TabsSound
<1>2. u = [i \in 1 .. n |-> SizeTab(ts[i], w)]
  BY <1>1 DEF UpdateGridDims
<1> HIDE DEF u, n
<1>3. \A i \in 1 .. n : TabSound(SizeTab(ts[i], w)) /\ Alike(ts[i], SizeTab(ts[i], w)) /\ SizeTab(ts[i], w) \in TabRecs
  <2> SUFFICES ASSUME NEW i \in 1 .. n
               PROVE  TabSound(SizeTab(ts[i], w)) /\ Alike(ts[i], SizeTab(ts[i], w)) /\ SizeTab(ts[i], w) \in TabRecs
    OBVIOUS
  <2> DEFINE t == ts[i]
  <2>1. TabSound(t)
    BY <1>1
  <2> HIDE DEF t
  <2>2. TabSound(SizeTab(t, w)) /\ Alike(t, SizeTab(t, w))
    BY <2>1, SizeTabIs DEF Alike
  <2>3. SizeTab(t, w) \in TabRecs
    BY <2>2 DEF TabSound
  <2> QED
    BY <2>2, <2>3 DEF t
<1>4. u \in [1 .. n -> TabRecs] /\ \A i \in 1 .. n : u[i] = SizeTab(ts[i], w)
  BY <1>2, <1>3
<1>5. u \in Seq(TabRecs) /\ Len(u) = n
  BY <1>1, <1>4
<1> QED
  BY <1>1, <1>3, <1>4, <1>5 DEF TabsSound, u, n

\* The tab that is selected.
LEMMA SelectedIs ==
  ASSUME NEW ts, TabsSound(ts), NEW i \in 1 .. Len(ts), window \in Windows
  PROVE  /\ TabsSound(Selected(ts, i)) /\ Len(Selected(ts, i)) = Len(ts)
         /\ \A j \in 1 .. Len(ts) : Alike(ts[j], Selected(ts, i)[j])
<1> DEFINE t == ts[i]  f == [t.panes EXCEPT ![0].size = window]  s == [t EXCEPT !.panes = f]  u == [ts EXCEPT ![i] = s]
<1>1. TabSound(t) /\ \A j \in 1 .. Len(ts) : TabSound(ts[j])
  BY DEF TabsSound
<1>2. t \in TabRecs /\ 0 \in DOMAIN t.panes /\ DOMAIN t.panes \in SUBSET Nat /\ t.panes \in [DOMAIN t.panes -> Sessions]
  BY <1>1, PaneMapsAre DEF TabSound, TabRecs
<1>3. Selected(ts, i) = u
  <2>1. i \in DOMAIN ts /\ t = ts[i]
    BY TabsAre
  <2> QED
    BY <1>2, <2>1 DEF Selected
<1> HIDE DEF t
<1>4. /\ f \in [DOMAIN t.panes -> Sessions] /\ DOMAIN f = DOMAIN t.panes
      /\ \A p \in DOMAIN t.panes : f[p].readOnly = t.panes[p].readOnly
  BY <1>2, WindowsAre DEF Sessions
<1> HIDE DEF f
<1>5. f \in PaneMaps
  BY <1>2, <1>4, PaneMapsAre
<1>6. /\ s \in TabRecs /\ s.id = t.id /\ s.exited = t.exited /\ s.next = t.next /\ s.tree = t.tree
      /\ s.zoom = t.zoom /\ s.focus = t.focus /\ s.broadcast = t.broadcast /\ s.panes = f
  BY <1>2, <1>5 DEF TabRecs
<1> HIDE DEF s
<1>7. TabSound(s) /\ Alike(t, s)
  BY <1>1, <1>4, <1>6 DEF TabSound, Alike
<1>8. \A j \in 1 .. Len(ts) : Alike(ts[j], ts[j])
  BY DEF Alike
<1>9. TabsSound(u) /\ Len(u) = Len(ts) /\ \A j \in 1 .. Len(ts) : u[j] = IF j = i THEN s ELSE ts[j]
  BY <1>7, PutTab
<1> HIDE DEF u
<1> QED
  BY <1>3, <1>7, <1>8, <1>9 DEF t

----------------------------------------------------------------------------
(* Every step.                                                             *)

\* A step that closes and opens no tab.
LEMMA StaysPut ==
  ASSUME DeskInv, TabsSound(tabs'), Len(tabs') = Len(tabs),
         \A i \in 1 .. Len(tabs) : /\ Follows(tabs[i], tabs'[i])
                                   /\ tabs[i].exited => tabs'[i].exited \/ closing'.id = tabs'[i].id,
         window' \in Windows, budget' \in BudgetRecs, budget'.tabs <= budget.tabs,
         active' \in 0 .. Len(tabs), active' = 0 <=> Len(tabs) = 0, closing' \in [at : Nat, id : Nat],
         closing'.at # 0 => closing'.at \in 1 .. Len(tabs) /\ tabs[closing'.at].id = closing'.id
  PROVE  DeskInv' /\ Steady
<1>1. /\ DOMAIN tabs = 1 .. Len(tabs) /\ DOMAIN tabs' = 1 .. Len(tabs) /\ Len(tabs) \in Nat
      /\ \A i \in 1 .. Len(tabs) : tabs[i].id \in Nat
  <2>1. TabsSound(tabs)
    BY DEF DeskInv
  <2>2. \A i \in 1 .. Len(tabs) : TabSound(tabs[i])
    BY <2>1 DEF TabsSound
  <2> QED
    BY <2>1, <2>2, TabsAre DEF TabSound, TabRecs
<1>2. Steady
  BY <1>1 DEF Steady
<1>3. \A i \in 1 .. Len(tabs) : tabs'[i].id = tabs[i].id
  BY DEF Follows
<1>4. IdsApart'
  <2>1. budget.tabs \in Nat /\ budget'.tabs \in Nat
    BY DEF DeskInv, BudgetRecs
  <2>2. /\ \A i \in 1 .. Len(tabs) : tabs[i].id = 0 \/ tabs[i].id > budget.tabs
        /\ \A i, j \in 1 .. Len(tabs) : tabs[i].id = tabs[j].id => i = j
    BY <1>1 DEF IdsApart, DeskInv
  <2>3. \A i \in 1 .. Len(tabs) : tabs'[i].id = 0 \/ tabs'[i].id > budget'.tabs
    <3> SUFFICES ASSUME NEW i \in 1 .. Len(tabs) PROVE tabs'[i].id = 0 \/ tabs'[i].id > budget'.tabs
      OBVIOUS
    <3> DEFINE x == tabs[i].id
    <3>1. tabs'[i].id = x /\ x \in Nat /\ (x = 0 \/ x > budget.tabs)
      BY <1>1, <1>3, <2>2
    <3> HIDE DEF x
    <3>2. x = 0 \/ x > budget'.tabs
      BY <2>1, <3>1
    <3> QED
      BY <3>1, <3>2
  <2>4. \A i, j \in 1 .. Len(tabs) : tabs'[i].id = tabs'[j].id => i = j
    BY <1>3, <2>2
  <2> QED
    BY <1>1, <2>3, <2>4 DEF IdsApart
<1>5. ClosesTheRightTab'
  BY <1>1, <1>3 DEF ClosesTheRightTab
<1> QED
  BY <1>1, <1>2, <1>4, <1>5 DEF DeskInv

\* A step that replaces the tab in front.
LEMMA PaneStep ==
  ASSUME DeskInv, active # 0, NEW t, TabSound(t), Follows(Cur, t), t.exited = Cur.exited,
         SetCur(t) \/ LayOut(t), Others, budget' \in BudgetRecs, budget'.tabs <= budget.tabs
  PROVE  DeskInv' /\ Steady
<1>1. TabsSound(tabs) /\ active \in 1 .. Len(tabs) /\ window \in Windows /\ Len(tabs) \in Nat
  BY TabsAre DEF DeskInv
<1> DEFINE ts == [tabs EXCEPT ![active] = t]
<1>2. TabsSound(ts) /\ Len(ts) = Len(tabs) /\ \A j \in 1 .. Len(tabs) : ts[j] = IF j = active THEN t ELSE tabs[j]
  BY <1>1, PutTab
<1>3. tabs' = ts \/ tabs' = UpdateGridDims(ts, window)
  BY DEF SetCur, LayOut
<1> HIDE DEF ts
<1>4. \A j \in 1 .. Len(tabs) : Follows(tabs[j], ts[j]) /\ ts[j].exited = tabs[j].exited
  <2> SUFFICES ASSUME NEW j \in 1 .. Len(tabs) PROVE Follows(tabs[j], ts[j]) /\ ts[j].exited = tabs[j].exited
    OBVIOUS
  <2>1. TabSound(tabs[j])
    BY <1>1 DEF TabsSound
  <2>2. CASE j = active
    BY <1>2, <2>2 DEF Cur
  <2>3. CASE j # active
    BY <1>2, <2>1, <2>3, FollowsSelf
  <2> QED
    BY <2>2, <2>3
<1>5. /\ TabsSound(tabs') /\ Len(tabs') = Len(tabs)
      /\ \A j \in 1 .. Len(tabs) : Alike(ts[j], tabs'[j])
  <2>1. CASE tabs' = ts
    BY <1>2, <2>1 DEF Alike
  <2>2. CASE tabs' = UpdateGridDims(ts, window)
    BY <1>1, <1>2, <2>2, GridDimsIs, WindowsAre
  <2> QED
    BY <1>3, <2>1, <2>2
<1>6. \A j \in 1 .. Len(tabs) : /\ Follows(tabs[j], tabs'[j])
                                /\ tabs[j].exited => tabs'[j].exited \/ closing'.id = tabs'[j].id
  <2> SUFFICES ASSUME NEW j \in 1 .. Len(tabs)
               PROVE  Follows(tabs[j], tabs'[j]) /\ tabs'[j].exited = tabs[j].exited
    OBVIOUS
  <2>1. Follows(tabs[j], ts[j]) /\ Alike(ts[j], tabs'[j])
    BY <1>4, <1>5
  <2>2. Follows(tabs[j], tabs'[j])
    BY <2>1, FollowsAlike
  <2> QED
    BY <1>4, <2>1, <2>2 DEF Alike
<1>7. /\ window' = window /\ active' = active /\ closing' = closing
      /\ closing \in [at : Nat, id : Nat] /\ active \in 0 .. Len(tabs) /\ (active = 0 <=> Len(tabs) = 0)
      /\ closing.at # 0 => closing.at \in 1 .. Len(tabs) /\ tabs[closing.at].id = closing.id
  BY <1>1, TabsAre DEF Others, DeskInv, ClosesTheRightTab
<1> QED
  BY <1>1, <1>5, <1>6, <1>7, StaysPut

\* A step that closes a tab: those behind it move up.
LEMMA RemovalStep ==
  ASSUME DeskInv, NEW ts, TabsSound(ts), Len(ts) = Len(tabs), NEW i \in 1 .. Len(ts),
         \A k \in 1 .. Len(ts) : Follows(tabs[k], ts[k]) /\ (k # i => ts[k].exited = tabs[k].exited),
         CloseSessionNow(ts, i), window' = window, budget' \in BudgetRecs, budget'.tabs <= budget.tabs,
         closing' \in [at : Nat, id : Nat], closing'.at = 0
  PROVE  DeskInv' /\ Steady
<1> DEFINE n == Len(tabs)  left == RemoveAt(ts, i)  next == IF i > Len(left) THEN Len(left) ELSE i
           Was(j) == IF j < i THEN j ELSE j + 1
<1>1. /\ TabsSound(tabs) /\ n \in Nat /\ DOMAIN tabs = 1 .. n /\ ts \in Seq(TabRecs) /\ i \in 1 .. n
      /\ window \in Windows /\ \A k \in 1 .. n : TabSound(ts[k]) /\ TabSound(tabs[k])
  <2>1. TabsSound(tabs) /\ window \in Windows
    BY DEF DeskInv
  <2> QED
    BY <2>1, TabsAre DEF TabsSound
<1>2. left \in Seq(TabRecs) /\ Len(left) = n - 1 /\ \A j \in 1 .. n - 1 : left[j] = ts[Was(j)]
  BY <1>1, RemoveAtIs
<1>3. active' = next /\ tabs' = IF left = <<>> THEN left ELSE Selected(left, next)
  BY DEF CloseSessionNow
<1>4. \A j \in 1 .. n - 1 : Was(j) \in 1 .. n /\ Was(j) # i
  BY <1>1
<1>5. \A j, k \in 1 .. n - 1 : Was(j) = Was(k) => j = k
  BY <1>1
<1> HIDE DEF left, n, Was
<1>6. TabsSound(left)
  <2>1. \A j \in 1 .. Len(left) : TabSound(left[j])
    BY <1>1, <1>2, <1>4
  <2> QED
    BY <1>2, <2>1 DEF TabsSound
<1>7. left = <<>> <=> n = 1
  BY <1>1, <1>2
<1>8. next \in 0 .. n - 1 /\ (n # 1 => next \in 1 .. n - 1)
  BY <1>1, <1>2
<1> HIDE DEF next
<1>9. TabsSound(tabs') /\ Len(tabs') = n - 1 /\ \A j \in 1 .. n - 1 : Alike(left[j], tabs'[j])
  <2>1. CASE n = 1
    <3>1. tabs' = left
      BY <1>3, <1>7, <2>1
    <3> QED
      BY <1>2, <1>6, <3>1 DEF Alike
  <2>2. CASE n # 1
    <3>1. tabs' = Selected(left, next) /\ next \in 1 .. Len(left)
      BY <1>2, <1>3, <1>7, <1>8, <2>2
    <3> QED
      BY <1>1, <1>2, <1>6, <3>1, SelectedIs
  <2> QED
    BY <2>1, <2>2
<1>10. \A j \in 1 .. n - 1 : Follows(tabs[Was(j)], tabs'[j]) /\ tabs'[j].exited = tabs[Was(j)].exited
  <2> SUFFICES ASSUME NEW j \in 1 .. n - 1
               PROVE  Follows(tabs[Was(j)], tabs'[j]) /\ tabs'[j].exited = tabs[Was(j)].exited
    OBVIOUS
  <2> DEFINE k == Was(j)
  <2>1. k \in 1 .. n /\ k # i /\ left[j] = ts[k] /\ Alike(left[j], tabs'[j])
    BY <1>2, <1>4, <1>9
  <2>2. Follows(tabs[k], ts[k]) /\ ts[k].exited = tabs[k].exited
    BY <2>1 DEF n
  <2> HIDE DEF k
  <2>3. Follows(tabs[k], tabs'[j])
    BY <2>1, <2>2, FollowsAlike
  <2>4. tabs'[j].exited = tabs[k].exited
    BY <2>1, <2>2 DEF Alike
  <2> QED
    BY <2>3, <2>4 DEF k
<1>11. DOMAIN tabs' = 1 .. n - 1
  BY <1>9, TabsAre
<1>12. Steady
  BY <1>1, <1>4, <1>10, <1>11 DEF Steady
<1>13. IdsApart'
  <2>1. budget.tabs \in Nat /\ budget'.tabs \in Nat
    BY DEF DeskInv, BudgetRecs
  <2>2. /\ \A k \in 1 .. n : tabs[k].id = 0 \/ tabs[k].id > budget.tabs
        /\ \A j, k \in 1 .. n : tabs[j].id = tabs[k].id => j = k
        /\ \A k \in 1 .. n : tabs[k].id \in Nat
    BY <1>1 DEF IdsApart, DeskInv, TabSound, TabRecs
  <2>3. \A j \in 1 .. n - 1 : tabs'[j].id = tabs[Was(j)].id
    BY <1>10 DEF Follows
  <2>4. \A j \in 1 .. n - 1 : tabs'[j].id = 0 \/ tabs'[j].id > budget'.tabs
    <3> SUFFICES ASSUME NEW j \in 1 .. n - 1 PROVE tabs'[j].id = 0 \/ tabs'[j].id > budget'.tabs
      OBVIOUS
    <3> DEFINE x == tabs[Was(j)].id
    <3>1. tabs'[j].id = x /\ x \in Nat /\ (x = 0 \/ x > budget.tabs)
      BY <1>4, <2>2, <2>3
    <3> HIDE DEF x
    <3>2. x = 0 \/ x > budget'.tabs
      BY <2>1, <3>1
    <3> QED
      BY <3>1, <3>2
  <2>5. \A j, k \in 1 .. n - 1 : tabs'[j].id = tabs'[k].id => j = k
    BY <1>4, <1>5, <2>2, <2>3
  <2> QED
    BY <1>11, <2>4, <2>5 DEF IdsApart
<1>14. active' \in 0 .. Len(tabs') /\ (active' = 0 <=> Len(tabs') = 0)
  BY <1>1, <1>3, <1>8, <1>9
<1> QED
  BY <1>1, <1>9, <1>12, <1>13, <1>14 DEF DeskInv, ClosesTheRightTab

\* A step that opens a tab.
LEMMA OpeningStep ==
  ASSUME DeskInv, NEW t, TabSound(t), t.broadcast = {}, t.id = budget.tabs, budget.tabs > 0,
         budget' \in BudgetRecs, budget'.tabs = budget.tabs - 1, window' = window, closing' = closing,
         tabs' = Append(tabs, t) \/ tabs' = UpdateGridDims(Append(tabs, t), window), active' = Len(tabs')
  PROVE  DeskInv' /\ Steady
<1> DEFINE n == Len(tabs)  ts == Append(tabs, t)
<1>1. /\ TabsSound(tabs) /\ n \in Nat /\ DOMAIN tabs = 1 .. n /\ tabs \in Seq(TabRecs) /\ t \in TabRecs
      /\ window \in Windows /\ (\A k \in 1 .. n : TabSound(tabs[k]) /\ tabs[k].id \in Nat) /\ budget.tabs \in Nat
  <2>1. TabsSound(tabs) /\ window \in Windows /\ t \in TabRecs /\ budget.tabs \in Nat
    BY DEF DeskInv, TabSound, BudgetRecs
  <2>2. n \in Nat /\ DOMAIN tabs = 1 .. n /\ \A k \in 1 .. n : TabSound(tabs[k])
    BY <2>1, TabsAre DEF TabsSound
  <2> QED
    BY <2>1, <2>2 DEF TabsSound, TabSound, TabRecs
<1>2. ts \in Seq(TabRecs) /\ Len(ts) = n + 1 /\ ts[n + 1] = t /\ \A k \in 1 .. n : ts[k] = tabs[k]
  BY <1>1, AppendProperties
<1>3. tabs' = ts \/ tabs' = UpdateGridDims(ts, window)
  OBVIOUS
<1> HIDE DEF ts, n
<1>4. \A k \in 1 .. n + 1 : k \in 1 .. n \/ k = n + 1
  BY <1>1
<1>5. TabsSound(ts)
  BY <1>1, <1>2, <1>4 DEF TabsSound
<1>6. TabsSound(tabs') /\ Len(tabs') = n + 1 /\ \A k \in 1 .. n + 1 : Alike(ts[k], tabs'[k])
  <2>1. CASE tabs' = ts
    BY <1>2, <1>5, <2>1 DEF Alike
  <2>2. CASE tabs' = UpdateGridDims(ts, window)
    BY <1>1, <1>2, <1>5, <2>2, GridDimsIs, WindowsAre
  <2> QED
    BY <1>3, <2>1, <2>2
<1>7. DOMAIN tabs' = 1 .. n + 1 /\ n + 1 \in 1 .. n + 1 /\ \A k \in 1 .. n : k \in 1 .. n + 1
  BY <1>1, <1>6, TabsAre
<1>8. \A k \in 1 .. n : Follows(tabs[k], tabs'[k]) /\ tabs'[k].exited = tabs[k].exited /\ tabs'[k].id = tabs[k].id
  <2> SUFFICES ASSUME NEW k \in 1 .. n
               PROVE  Follows(tabs[k], tabs'[k]) /\ tabs'[k].exited = tabs[k].exited /\ tabs'[k].id = tabs[k].id
    OBVIOUS
  <2>1. TabSound(tabs[k]) /\ Alike(tabs[k], tabs'[k])
    BY <1>1, <1>2, <1>6, <1>7
  <2>2. Follows(tabs[k], tabs'[k])
    BY <2>1, FollowsSelf, FollowsAlike
  <2> QED
    BY <2>1, <2>2 DEF Alike
<1>9. /\ \A k \in 1 .. n : tabs[k].id = 0 \/ tabs[k].id > budget.tabs
      /\ \A j, k \in 1 .. n : tabs[j].id = tabs[k].id => j = k
  BY <1>1 DEF IdsApart, DeskInv
<1>10. tabs'[n + 1].id = budget.tabs /\ tabs'[n + 1].broadcast = {}
  BY <1>2, <1>6, <1>7 DEF Alike
<1>11. \A k \in 1 .. n : tabs[k].id # budget.tabs
  BY <1>1, <1>9
<1>12. Fresh(tabs'[n + 1])
  BY <1>1, <1>10, <1>11 DEF Fresh
<1>13. Steady
  BY <1>1, <1>4, <1>7, <1>8, <1>12 DEF Steady
<1>14. IdsApart'
  <2>1. \A k \in 1 .. n + 1 : tabs'[k].id = 0 \/ tabs'[k].id > budget'.tabs
    <3> SUFFICES ASSUME NEW k \in 1 .. n + 1 PROVE tabs'[k].id = 0 \/ tabs'[k].id > budget'.tabs
      OBVIOUS
    <3> DEFINE x == tabs'[k].id
    <3>1. x \in Nat /\ (x = 0 \/ x >= budget.tabs)
      BY <1>1, <1>4, <1>8, <1>9, <1>10
    <3> HIDE DEF x
    <3>2. x = 0 \/ x > budget'.tabs
      BY <1>1, <3>1
    <3> QED
      BY <3>2 DEF x
  <2>2. \A j, k \in 1 .. n + 1 : tabs'[j].id = tabs'[k].id => j = k
    BY <1>4, <1>8, <1>9, <1>10, <1>11
  <2> QED
    BY <1>7, <2>1, <2>2 DEF IdsApart
<1>15. ClosesTheRightTab'
  BY <1>1, <1>7, <1>8 DEF DeskInv, ClosesTheRightTab
<1>16. active' \in 0 .. Len(tabs') /\ (active' = 0 <=> Len(tabs') = 0)
  BY <1>1, <1>6
<1> QED
  BY <1>1, <1>6, <1>13, <1>14, <1>15, <1>16 DEF DeskInv

\* What a bound spends, and what is left of the others.
LEMMA SpendIs ==
  ASSUME budget \in BudgetRecs, NEW what \in {"tabs", "panes", "edits", "marks", "ends"}, Spend(what)
  PROVE  /\ budget' \in BudgetRecs /\ budget'.tabs <= budget.tabs
         /\ what = "tabs" => budget.tabs > 0 /\ budget'.tabs = budget.tabs - 1
<1>1. budget[what] \in Nat /\ budget[what] - 1 \in Nat /\ budget.tabs \in Nat
  BY DEF Spend, BudgetRecs
<1>2. budget' = [budget EXCEPT ![what] = budget[what] - 1] /\ budget[what] > 0
  BY DEF Spend
<1>3. budget' \in BudgetRecs
  BY <1>1, <1>2 DEF BudgetRecs
<1>4. budget'.tabs = IF what = "tabs" THEN budget.tabs - 1 ELSE budget.tabs
  BY <1>2 DEF BudgetRecs
<1> QED
  BY <1>1, <1>2, <1>3, <1>4

\* The tab in front.
LEMMA CurIs ==
  ASSUME DeskInv, active # 0
  PROVE  TabSound(Cur) /\ active \in 1 .. Len(tabs) /\ window \in Windows /\ window \in Grids /\ budget \in BudgetRecs
<1>1. TabsSound(tabs) /\ active \in 1 .. Len(tabs) /\ window \in Windows /\ budget \in BudgetRecs
  BY TabsAre DEF DeskInv
<1> QED
  BY <1>1, WindowsAre DEF TabsSound, Cur

\* A split of the tab in front.
LEMMA SplitPaneStep == ASSUME DeskInv, SplitPane PROVE DeskInv' /\ Steady
<1>1. active # 0 /\ Spend("panes") /\ Others
  BY DEF SplitPane
<1>2. TabSound(Cur) /\ window \in Windows /\ budget \in BudgetRecs
  BY <1>1, CurIs
<1>3. PICK dir \in {"V", "H"} : SplitFor(Cur.panes[Cur.focus].profile, dir)
  BY DEF SplitPane
<1> DEFINE t == Cur  profile == t.panes[t.focus].profile  a == AddPane(t, profile, dir)
<1>4. profile \in Profiles \cup {AdHoc}
  BY <1>2, PaneMapsAre DEF TabSound, TabRecs, Sessions
<1>5. SetCur(a) \/ LayOut(a)
  BY <1>3 DEF SplitFor
<1>6. t.broadcast \subseteq DOMAIN t.panes /\ TabSound(t)
  BY <1>2 DEF TabSound
<1> HIDE DEF t, profile
<1>7. TabSound(a) /\ a.id = t.id /\ a.exited = t.exited /\ a.broadcast = t.broadcast /\ PanesOf(t.tree) \subseteq PanesOf(a.tree)
  BY <1>2, <1>4, <1>6, AddPaneIs
<1>8. Roomy(t, a)
  BY <1>2, <1>4, <1>6, AddPaneIsRoomy
<1> HIDE DEF a
<1>9. Follows(t, a)
  BY <1>6, <1>7, <1>8 DEF Follows, Keeps
<1>10. budget' \in BudgetRecs /\ budget'.tabs <= budget.tabs
  BY <1>1, <1>2, SpendIs
<1> QED
  BY <1>1, <1>5, <1>7, <1>9, <1>10, PaneStep DEF t

\* A tab with another layout of its panes, and the zoom it had or another.
LEMMA WithTree ==
  ASSUME NEW t, TabSound(t), NEW u, Proper(u), PanesOf(u) \subseteq PanesOf(t.tree),
         \/ PanesOf(u) = PanesOf(t.tree)
         \/ \A q \in PanesOf(u), e \in {"V", "H"} : ~CanSplit(u, NoPane, q, e, window)
  PROVE  LET s == [t EXCEPT !.tree = u] IN TabSound(s) /\ Follows(t, s) /\ s.exited = t.exited
<1> DEFINE s == [t EXCEPT !.tree = u]
<1>1. t \in TabRecs /\ u \in Trees /\ Layout(u)
  BY LayoutsAre DEF TabSound, Layout
<1>2. /\ s \in TabRecs /\ s.id = t.id /\ s.panes = t.panes /\ s.tree = u /\ s.zoom = t.zoom /\ s.focus = t.focus
      /\ s.broadcast = t.broadcast /\ s.next = t.next /\ s.exited = t.exited /\ t.next \in Nat
  BY <1>1 DEF TabRecs
<1> HIDE DEF s
<1>3. TabSound(s)
  BY <1>1, <1>2 DEF TabSound
<1>4. Keeps(t, s)
  BY <1>2 DEF Keeps
<1>5. Roomy(t, s)
  BY <1>2 DEF Roomy
<1>6. Follows(t, s)
  BY <1>2, <1>4, <1>5 DEF Follows, TabSound
<1> QED
  BY <1>2, <1>3, <1>6 DEF s

\* A command that rearranges the layout of the tab in front.
LEMMA RearrangeStep ==
  ASSUME DeskInv, active # 0, NEW u, Proper(u), PanesOf(u) \subseteq PanesOf(Cur.tree),
         \/ PanesOf(u) = PanesOf(Cur.tree)
         \/ \A q \in PanesOf(u), e \in {"V", "H"} : ~CanSplit(u, NoPane, q, e, window),
         LayOut([Cur EXCEPT !.tree = u]), Rearranges
  PROVE  DeskInv' /\ Steady
<1> DEFINE t == Cur  s == [t EXCEPT !.tree = u]
<1>1. TabSound(t) /\ budget \in BudgetRecs
  BY CurIs
<1>2. Spend("edits") /\ Others
  BY DEF Rearranges
<1>3. budget' \in BudgetRecs /\ budget'.tabs <= budget.tabs
  BY <1>1, <1>2, SpendIs
<1>4. TabSound(s) /\ Follows(t, s) /\ s.exited = t.exited
  BY <1>1, WithTree
<1>5. LayOut(s)
  OBVIOUS
<1> HIDE DEF s
<1> QED
  BY <1>2, <1>3, <1>4, <1>5, PaneStep DEF t

\* A layout of more than one pane has been started.
LEMMA StartedTree == ASSUME NEW t, TabSound(t), Count(t.tree) > 1 PROVE Proper(t.tree)
<1>1. t.tree # Empty
  BY NoPanes
<1> QED
  BY <1>1 DEF TabSound, Layout

LEMMA MovePaneStep == ASSUME DeskInv, MovePane PROVE DeskInv' /\ Steady
<1>1. active # 0 /\ Rearranges
  BY DEF MovePane
<1>2. PICK d \in Dirs : LET to == Neighbour(Cur.tree, Cur.zoom, Cur.focus, d, window) IN
        /\ to # NoPane
        /\ LayOut([Cur EXCEPT !.tree = Move(@, Cur.focus, to, IF d \in {"Left", "Right"} THEN "V" ELSE "H", window)])
  BY DEF MovePane
<1> DEFINE t == Cur.tree  to == Neighbour(t, Cur.zoom, Cur.focus, d, window)  e == IF d \in {"Left", "Right"} THEN "V" ELSE "H"
           u == Move(t, Cur.focus, to, e, window)
<1>3. TabSound(Cur) /\ window \in Grids /\ Layout(t) /\ to # NoPane /\ e \in {"V", "H"}
  BY <1>1, <1>2, CurIs DEF TabSound
<1>4. LayOut([Cur EXCEPT !.tree = u])
  BY <1>2
<1> HIDE DEF t, e
<1>5. Proper(t) /\ Cur.focus \in PanesOf(t) /\ to \in PanesOf(t) \ {Cur.focus}
  BY <1>3, NeighbourIs
<1> HIDE DEF to
<1>6. /\ Proper(u) /\ PanesOf(u) \subseteq PanesOf(t)
      /\ \/ PanesOf(u) = PanesOf(t)
         \/ \A q \in PanesOf(u), c \in {"V", "H"} : ~CanSplit(u, NoPane, q, c, window)
  BY <1>3, <1>5, MoveIs
<1> HIDE DEF u
<1> QED
  BY <1>1, <1>4, <1>6, RearrangeStep DEF t

LEMMA SwapPaneStep == ASSUME DeskInv, SwapPaneWith PROVE DeskInv' /\ Steady
<1>1. active # 0 /\ Rearranges
  BY DEF SwapPaneWith
<1>2. PICK d \in Dirs : LET to == Neighbour(Cur.tree, Cur.zoom, Cur.focus, d, window) IN
        to # NoPane /\ LayOut([Cur EXCEPT !.tree = Swap(@, Cur.focus, to)])
  BY DEF SwapPaneWith
<1> DEFINE t == Cur.tree  to == Neighbour(t, Cur.zoom, Cur.focus, d, window)  u == Swap(t, Cur.focus, to)
<1>3. TabSound(Cur) /\ window \in Grids /\ Layout(t) /\ to # NoPane
  BY <1>1, <1>2, CurIs DEF TabSound
<1>4. LayOut([Cur EXCEPT !.tree = u])
  BY <1>2
<1> HIDE DEF t
<1>5. Proper(t) /\ Cur.focus \in PanesOf(t) /\ to \in PanesOf(t)
  BY <1>3, NeighbourIs
<1> HIDE DEF to
<1>6. Proper(u) /\ PanesOf(u) = PanesOf(t)
  BY <1>5, SwapIs
<1> HIDE DEF u
<1> QED
  BY <1>1, <1>4, <1>6, RearrangeStep DEF t

LEMMA ResizePaneStep == ASSUME DeskInv, ResizePane PROVE DeskInv' /\ Steady
<1>1. active # 0 /\ Rearranges /\ Count(Cur.tree) > 1 /\ Cur.focus \in PanesOf(Cur.tree)
  BY DEF ResizePane, HasSibling
<1>2. PICK delta \in {Step, -Step} : LayOut([Cur EXCEPT !.tree = Resize(@, Cur.focus, delta)])
  BY DEF ResizePane
<1> DEFINE t == Cur.tree  u == Resize(t, Cur.focus, delta)
<1>3. Proper(t) /\ delta \in Int
  BY <1>1, CurIs, StartedTree, LayoutAssumption
<1>4. LayOut([Cur EXCEPT !.tree = u])
  BY <1>2
<1>5. Proper(u) /\ PanesOf(u) = PanesOf(t)
  <2> HIDE DEF t
  <2>1. Cur.focus \in PanesOf(t) /\ Count(t) > 1
    BY <1>1 DEF t
  <2> QED
    BY <1>3, <2>1, ResizeIs
<1> HIDE DEF u
<1> QED
  BY <1>1, <1>4, <1>5, RearrangeStep

LEMMA RotatePaneStep == ASSUME DeskInv, RotatePane PROVE DeskInv' /\ Steady
<1>1. /\ active # 0 /\ Rearranges /\ Count(Cur.tree) > 1 /\ Cur.focus \in PanesOf(Cur.tree)
      /\ LayOut([Cur EXCEPT !.tree = Rotate(@, Cur.focus)])
  BY DEF RotatePane, HasSibling
<1> DEFINE t == Cur.tree  u == Rotate(t, Cur.focus)
<1>2. Proper(t)
  BY <1>1, CurIs, StartedTree
<1>3. LayOut([Cur EXCEPT !.tree = u])
  BY <1>1
<1>4. Proper(u) /\ PanesOf(u) = PanesOf(t)
  <2> HIDE DEF t
  <2>1. Cur.focus \in PanesOf(t) /\ Count(t) > 1
    BY <1>1 DEF t
  <2> QED
    BY <1>2, <2>1, RotateIs
<1> HIDE DEF u
<1> QED
  BY <1>1, <1>3, <1>4, RearrangeStep

\* A tab whose layout and panes stay, and whose names are of its panes.
LEMMA SameTree ==
  ASSUME NEW t, TabSound(t), NEW s \in TabRecs, s.id = t.id, s.tree = t.tree, s.next = t.next,
         DOMAIN s.panes = DOMAIN t.panes, s.focus \in DOMAIN t.panes, s.zoom \in DOMAIN t.panes \cup {NoPane},
         \A p \in s.broadcast : p \in DOMAIN t.panes /\ ~s.panes[p].readOnly
  PROVE  TabSound(s) /\ Follows(t, s)
<1>1. TabSound(s)
  BY DEF TabSound
<1>2. t.next \in Nat
  BY DEF TabSound, TabRecs
<1>3. Follows(t, s)
  BY <1>2 DEF Follows, Keeps, Roomy
<1> QED
  BY <1>1, <1>3

LEMMA FocusPaneStep == ASSUME DeskInv, FocusPane PROVE DeskInv' /\ Steady
<1>1. active # 0 /\ Others /\ budget' = budget
  BY DEF FocusPane, Rest
<1> DEFINE t == Cur
<1>2. TabSound(t) /\ window \in Grids /\ budget \in BudgetRecs
  BY <1>1, CurIs
<1>3. \E to \in PanesOf(t.tree) : SetCur([t EXCEPT !.focus = to])
  <2> HIDE DEF t
  <2>0. Layout(t.tree) /\ Cur = t
    BY <1>2 DEF TabSound, t
  <2>1. CASE \E d \in Dirs : LET to == Neighbour(t.tree, t.zoom, t.focus, d, window) IN
               to # NoPane /\ SetCur([t EXCEPT !.focus = to])
    <3>1. PICK d \in Dirs : LET to == Neighbour(t.tree, t.zoom, t.focus, d, window) IN
               to # NoPane /\ SetCur([t EXCEPT !.focus = to])
      BY <2>1
    <3> DEFINE to == Neighbour(t.tree, t.zoom, t.focus, d, window)
    <3>2. to \in PanesOf(t.tree)
      BY <1>2, <2>0, <3>1, NeighbourIs
    <3> QED
      BY <3>1, <3>2
  <2>2. CASE \E delta \in {1, -1} : LET to == Cycle(t.tree, t.focus, delta) IN
               to \notin {NoPane, t.focus} /\ SetCur([t EXCEPT !.focus = to])
    <3>1. PICK delta \in {1, -1} : LET to == Cycle(t.tree, t.focus, delta) IN
               to \notin {NoPane, t.focus} /\ SetCur([t EXCEPT !.focus = to])
      BY <2>2
    <3> DEFINE to == Cycle(t.tree, t.focus, delta)
    <3>2. to \in PanesOf(t.tree) \cup {NoPane}
      BY <2>0, CycleIs DEF Layout, Proper
    <3> QED
      BY <3>1, <3>2
  <2>3. CASE \E p \in Clickable(Rects(t.tree, t.zoom, window)) : SetCur([t EXCEPT !.focus = p])
    <3>1. DOMAIN Rects(t.tree, t.zoom, window) = PanesOf(t.tree)
      BY DEF Rects
    <3> QED
      BY <2>3, <3>1 DEF Clickable
  <2> QED
    BY <2>0, <2>1, <2>2, <2>3 DEF FocusPane
<1>4. PICK to \in PanesOf(t.tree) : SetCur([t EXCEPT !.focus = to])
  BY <1>3
<1> DEFINE s == [t EXCEPT !.focus = to]
<1>5. SetCur(s)
  BY <1>4
<1> HIDE DEF t
<1>6. /\ s \in TabRecs /\ s.id = t.id /\ s.tree = t.tree /\ s.next = t.next /\ s.panes = t.panes /\ s.focus = to
      /\ s.zoom = t.zoom /\ s.broadcast = t.broadcast /\ s.exited = t.exited /\ to \in DOMAIN t.panes
  <2>1. t \in TabRecs /\ to \in DOMAIN t.panes /\ to \in Nat
    BY <1>2, <1>4, PaneMapsAre DEF TabSound, TabRecs
  <2> QED
    BY <2>1 DEF TabRecs
<1> HIDE DEF s
<1>7. TabSound(s) /\ Follows(t, s)
  BY <1>2, <1>6, SameTree DEF TabSound
<1>8. budget'.tabs <= budget.tabs
  BY <1>1, <1>2 DEF BudgetRecs
<1> QED
  BY <1>1, <1>2, <1>5, <1>6, <1>7, <1>8, PaneStep DEF t

LEMMA ToggleZoomPaneStep == ASSUME DeskInv, ToggleZoomPane PROVE DeskInv' /\ Steady
<1>1. active # 0 /\ Others /\ budget' = budget
  BY DEF ToggleZoomPane, Rest
<1> DEFINE t == Cur  z == IF Zoomed(t.tree, t.zoom) THEN NoPane ELSE t.focus  s == [t EXCEPT !.zoom = z]
<1>2. TabSound(t) /\ budget \in BudgetRecs
  BY <1>1, CurIs
<1>3. LayOut(s)
  BY DEF ToggleZoomPane
<1> HIDE DEF t
<1>4. /\ s \in TabRecs /\ s.id = t.id /\ s.tree = t.tree /\ s.next = t.next /\ s.panes = t.panes /\ s.focus = t.focus
      /\ s.zoom = z /\ s.broadcast = t.broadcast /\ s.exited = t.exited /\ z \in DOMAIN t.panes \cup {NoPane}
  <2>1. t \in TabRecs /\ t.focus \in DOMAIN t.panes /\ t.focus \in Nat
    BY <1>2 DEF TabSound, TabRecs
  <2>2. z \in Nat \cup {NoPane} /\ z \in DOMAIN t.panes \cup {NoPane}
    BY <2>1
  <2> HIDE DEF z
  <2> QED
    BY <2>1, <2>2 DEF TabRecs
<1> HIDE DEF s
<1>5. TabSound(s) /\ Follows(t, s)
  BY <1>2, <1>4, SameTree DEF TabSound
<1>6. budget'.tabs <= budget.tabs
  BY <1>1, <1>2 DEF BudgetRecs
<1> QED
  BY <1>1, <1>2, <1>3, <1>4, <1>5, <1>6, PaneStep DEF t

\* A command that changes only the targets of the tab in front.
LEMMA TargetsStep ==
  ASSUME DeskInv, active # 0, NEW b, SetCur([Cur EXCEPT !.broadcast = b]), Marks,
         \A p \in b : p \in DOMAIN Cur.panes /\ ~Cur.panes[p].readOnly
  PROVE  DeskInv' /\ Steady
<1> DEFINE t == Cur  s == [t EXCEPT !.broadcast = b]
<1>1. TabSound(t) /\ budget \in BudgetRecs /\ Others /\ Spend("marks")
  BY CurIs DEF Marks
<1>2. budget' \in BudgetRecs /\ budget'.tabs <= budget.tabs
  BY <1>1, SpendIs
<1>3. SetCur(s)
  OBVIOUS
<1>4. \A p \in b : p \in DOMAIN t.panes /\ ~t.panes[p].readOnly
  OBVIOUS
<1> HIDE DEF t
<1>5. /\ s \in TabRecs /\ s.id = t.id /\ s.tree = t.tree /\ s.next = t.next /\ s.panes = t.panes /\ s.focus = t.focus
      /\ s.zoom = t.zoom /\ s.broadcast = b /\ s.exited = t.exited
  <2>1. t \in TabRecs /\ DOMAIN t.panes \subseteq Nat
    BY <1>1, PaneMapsAre DEF TabSound, TabRecs
  <2>2. b \in SUBSET Nat
    BY <1>4, <2>1
  <2> QED
    BY <2>1, <2>2 DEF TabRecs
<1> HIDE DEF s
<1>6. TabSound(s) /\ Follows(t, s)
  BY <1>1, <1>4, <1>5, SameTree DEF TabSound
<1> QED
  BY <1>1, <1>2, <1>3, <1>5, <1>6, PaneStep DEF t

\* What is not locked.
LEMMA UnlockedAre == ASSUME NEW t PROVE \A p \in Unlocked(t) : p \in DOMAIN t.panes /\ ~t.panes[p].readOnly
  BY DEF Unlocked

LEMMA PickBroadcastTargetsStep == ASSUME DeskInv, PickBroadcastTargets PROVE DeskInv' /\ Steady
<1>1. active # 0 /\ Marks
  BY DEF PickBroadcastTargets
<1>2. PICK p \in Unlocked(Cur) : SetCur([Cur EXCEPT !.broadcast = SymDiff(@, {p})])
  BY DEF PickBroadcastTargets
<1> DEFINE b == SymDiff(Cur.broadcast, {p})
<1>3. SetCur([Cur EXCEPT !.broadcast = b])
  BY <1>2
<1>4. \A q \in b : q \in Cur.broadcast \/ q = p
  BY DEF SymDiff
<1> HIDE DEF b
<1>5. \A q \in b : q \in DOMAIN Cur.panes /\ ~Cur.panes[q].readOnly
  <2>1. TabSound(Cur)
    BY <1>1, CurIs
  <2> QED
    BY <1>2, <1>4, <2>1, UnlockedAre DEF TabSound
<1> QED
  BY <1>1, <1>3, <1>5, TargetsStep

LEMMA BroadcastAllStep == ASSUME DeskInv, BroadcastAll PROVE DeskInv' /\ Steady
<1> DEFINE b == Unlocked(Cur)
<1>1. active # 0 /\ Marks /\ SetCur([Cur EXCEPT !.broadcast = b])
  BY DEF BroadcastAll
<1>2. \A q \in b : q \in DOMAIN Cur.panes /\ ~Cur.panes[q].readOnly
  BY UnlockedAre
<1> HIDE DEF b
<1> QED
  BY <1>1, <1>2, TargetsStep

LEMMA StopBroadcastStep == ASSUME DeskInv, StopBroadcast PROVE DeskInv' /\ Steady
<1> DEFINE b == {}
<1>1. active # 0 /\ Marks /\ SetCur([Cur EXCEPT !.broadcast = b])
  BY DEF StopBroadcast
<1>2. \A q \in b : q \in DOMAIN Cur.panes /\ ~Cur.panes[q].readOnly
  OBVIOUS
<1> HIDE DEF b
<1> QED
  BY <1>1, <1>2, TargetsStep

\* A pane locked or unlocked: it is a target no more when it is locked.
LEMMA ToggleReadOnlyPaneStep == ASSUME DeskInv, ToggleReadOnlyPane PROVE DeskInv' /\ Steady
<1>1. active # 0 /\ Others /\ Spend("marks")
  BY DEF ToggleReadOnlyPane, Marks
<1> DEFINE t == Cur  lock == ~t.panes[t.focus].readOnly  f == [t.panes EXCEPT ![t.focus].readOnly = lock]
           b == IF lock THEN WithoutFocus(t) ELSE t.broadcast
           s == [t EXCEPT !.panes = f, !.broadcast = b]
<1>2. TabSound(t) /\ budget \in BudgetRecs
  BY <1>1, CurIs
<1>3. budget' \in BudgetRecs /\ budget'.tabs <= budget.tabs
  BY <1>1, <1>2, SpendIs
<1>4. SetCur(s)
  BY DEF ToggleReadOnlyPane
<1> HIDE DEF t
<1>5. /\ t \in TabRecs /\ t.panes \in [DOMAIN t.panes -> Sessions] /\ DOMAIN t.panes \in SUBSET Nat /\ t.focus \in DOMAIN t.panes
      /\ t.broadcast \in SUBSET Nat /\ \A p \in t.broadcast : p \in DOMAIN t.panes /\ ~t.panes[p].readOnly
  BY <1>2, PaneMapsAre DEF TabSound, TabRecs
<1>6. lock \in BOOLEAN
  OBVIOUS
<1>7. /\ f \in [DOMAIN t.panes -> Sessions] /\ DOMAIN f = DOMAIN t.panes /\ f[t.focus].readOnly = lock
      /\ \A p \in DOMAIN t.panes : p # t.focus => f[p].readOnly = t.panes[p].readOnly
  <2> HIDE DEF lock
  <2> QED
    BY <1>5, <1>6 DEF Sessions
<1>8. b \in SUBSET Nat /\ \A p \in b : p \in t.broadcast /\ (lock => p # t.focus)
  BY <1>5 DEF WithoutFocus
<1> HIDE DEF f, b, lock
<1>9. f \in PaneMaps
  BY <1>5, <1>7, PaneMapsAre
<1>10. /\ s \in TabRecs /\ s.id = t.id /\ s.tree = t.tree /\ s.next = t.next /\ s.panes = f /\ s.focus = t.focus
       /\ s.zoom = t.zoom /\ s.broadcast = b /\ s.exited = t.exited
  BY <1>5, <1>8, <1>9 DEF TabRecs
<1>11. \A p \in b : p \in DOMAIN t.panes /\ ~f[p].readOnly
  <2> SUFFICES ASSUME NEW p \in b PROVE p \in DOMAIN t.panes /\ ~f[p].readOnly
    OBVIOUS
  <2>1. p \in DOMAIN t.panes /\ ~t.panes[p].readOnly
    BY <1>5, <1>8
  <2>2. CASE p = t.focus
    <3>1. lock = FALSE
      BY <1>6, <1>8, <2>2
    <3> QED
      BY <1>7, <2>1, <2>2, <3>1
  <2>3. CASE p # t.focus
    BY <1>7, <2>1, <2>3
  <2> QED
    BY <2>2, <2>3
<1> HIDE DEF s
<1>12. TabSound(s) /\ Follows(t, s)
  BY <1>2, <1>7, <1>10, <1>11, SameTree DEF TabSound
<1> QED
  BY <1>1, <1>3, <1>4, <1>10, <1>12, PaneStep DEF t

\* A split closed: its pane is gone, with whatever named it.
LEMMA CloseSplitStep == ASSUME DeskInv, CloseSplit PROVE DeskInv' /\ Steady
<1>1. active # 0 /\ Others /\ budget' = budget /\ Count(Cur.tree) > 1 /\ Cur.focus # 0 /\ Cur.focus \in PanesOf(Cur.tree)
  BY DEF CloseSplit, Rest
<1> DEFINE t == Cur  gone == t.focus  left == Close(t.tree, gone)
           f == [p \in DOMAIN t.panes \ {gone} |-> t.panes[p]]
           z == IF t.zoom = gone THEN NoPane ELSE t.zoom
           to == First(left, PanesOf(left))
           b == WithoutFocus(t)
           s == [t EXCEPT !.tree = left, !.zoom = z, !.focus = to, !.broadcast = b, !.panes = f]
<1>2. TabSound(t) /\ budget \in BudgetRecs /\ Count(t.tree) > 1 /\ gone # 0 /\ gone \in PanesOf(t.tree)
  BY <1>1, CurIs
<1>3. LayOut(s)
  BY DEF CloseSplit
<1> HIDE DEF t
<1>4. Proper(t.tree)
  BY <1>2, StartedTree
<1>5. /\ t \in TabRecs /\ t.panes \in [DOMAIN t.panes -> Sessions] /\ DOMAIN t.panes \in SUBSET Nat /\ 0 \in DOMAIN t.panes
      /\ PanesOf(t.tree) \subseteq DOMAIN t.panes /\ t.zoom \in DOMAIN t.panes \cup {NoPane} /\ t.next \in Nat
      /\ t.broadcast \in SUBSET Nat /\ t.zoom \in Nat \cup {NoPane} /\ DOMAIN t.panes \subseteq 0 .. t.next - 1
      /\ \A p \in t.broadcast : p \in DOMAIN t.panes /\ ~t.panes[p].readOnly
  BY <1>2, PaneMapsAre DEF TabSound, TabRecs
<1>6. Proper(left) /\ PanesOf(left) = PanesOf(t.tree) \ {gone} /\ left \in Trees /\ Layout(left)
  <2> DEFINE u == t.tree
  <2>1. gone \in PanesOf(u) /\ Proper(u) /\ Count(u) > 1
    BY <1>2, <1>4
  <2> HIDE DEF u, gone
  <2>2. LeafOf(u, gone) # <<>>
    BY <2>1, NotRoot
  <2>3. Proper(Close(u, gone)) /\ PanesOf(Close(u, gone)) = PanesOf(u) \ {gone}
    BY <2>1, <2>2, CloseIs
  <2>4. left = Close(u, gone)
    BY DEF u
  <2> HIDE DEF left
  <2> QED
    BY <2>3, <2>4, LayoutsAre DEF Layout, u
<1> HIDE DEF left
<1>7. to \in PanesOf(left)
  <2>1. IsTree(left) /\ PanesOf(left) # {}
    BY <1>6, HasLeaf DEF Proper, PanesOf
  <2> DEFINE ps == PanesOf(left)
  <2>2. ps \cap PanesOf(left) # {}
    BY <2>1
  <2> HIDE DEF ps
  <2>3. First(left, ps) \in PanesOf(left)
    BY <2>1, <2>2, FirstIs
  <2> QED
    BY <2>3 DEF ps
<1> HIDE DEF to
<1>8. DOMAIN f = DOMAIN t.panes \ {gone} /\ \A p \in DOMAIN f : f[p] = t.panes[p]
  OBVIOUS
<1>9. f \in [DOMAIN t.panes \ {gone} -> Sessions] /\ DOMAIN t.panes \ {gone} \in SUBSET Nat
  BY <1>5
<1>10. z \in Nat \cup {NoPane} /\ z \in (DOMAIN t.panes \ {gone}) \cup {NoPane}
  BY <1>5
<1>11. b \in SUBSET Nat /\ \A p \in b : p \in t.broadcast /\ p # gone
  BY <1>5 DEF WithoutFocus
<1> HIDE DEF f, z, b
<1>12. f \in PaneMaps /\ to \in DOMAIN f /\ to \in Nat
  BY <1>5, <1>6, <1>7, <1>8, <1>9, PaneMapsAre
<1>13. /\ s \in TabRecs /\ s.id = t.id /\ s.tree = left /\ s.zoom = z /\ s.focus = to /\ s.broadcast = b
       /\ s.panes = f /\ s.next = t.next /\ s.exited = t.exited
  <2>1. DOMAIN t = {"id", "panes", "tree", "zoom", "focus", "broadcast", "next", "exited"}
    BY <1>5 DEF TabRecs
  <2>2. /\ s.id = t.id /\ s.tree = left /\ s.zoom = z /\ s.focus = to /\ s.broadcast = b
        /\ s.panes = f /\ s.next = t.next /\ s.exited = t.exited
    BY <2>1
  <2> DEFINE s1 == [t EXCEPT !.tree = left, !.zoom = z, !.focus = to]
             s2 == [s1 EXCEPT !.broadcast = b, !.panes = f]
  <2>3. s = s2
    OBVIOUS
  <2>4. s1 \in TabRecs
    BY <1>5, <1>6, <1>10, <1>12 DEF TabRecs
  <2> HIDE DEF s1
  <2>5. s2 \in TabRecs
    BY <1>11, <1>12, <2>4 DEF TabRecs
  <2> HIDE DEF s, s2
  <2> QED
    BY <2>2, <2>3, <2>5
<1> HIDE DEF s
<1>14. TabSound(s)
  <2>1. PanesOf(s.tree) \subseteq DOMAIN s.panes
    BY <1>5, <1>6, <1>8, <1>13
  <2>2. DOMAIN s.panes \subseteq 0 .. s.next - 1 /\ 0 \in DOMAIN s.panes
    BY <1>2, <1>5, <1>8, <1>13
  <2>3. \A p \in s.broadcast : p \in DOMAIN s.panes /\ ~s.panes[p].readOnly
    BY <1>5, <1>8, <1>11, <1>13
  <2> QED
    BY <1>6, <1>8, <1>10, <1>12, <1>13, <2>1, <2>2, <2>3 DEF TabSound
<1>15. Follows(t, s)
  <2>1. Keeps(t, s)
    BY <1>6, <1>8, <1>13 DEF Keeps
  <2>2. Roomy(t, s)
    BY <1>5, <1>13 DEF Roomy
  <2> QED
    BY <1>5, <1>11, <1>13, <2>1, <2>2 DEF Follows
<1>16. budget'.tabs <= budget.tabs
  BY <1>1, <1>2 DEF BudgetRecs
<1> QED
  BY <1>1, <1>2, <1>3, <1>13, <1>14, <1>15, <1>16, PaneStep DEF t

\* The row of tabs, and what else the invariant says.
LEMMA DeskIs ==
  ASSUME DeskInv
  PROVE  /\ TabsSound(tabs) /\ Len(tabs) \in Nat /\ DOMAIN tabs = 1 .. Len(tabs) /\ window \in Windows /\ window \in Grids
         /\ budget \in BudgetRecs /\ budget.tabs \in Nat /\ budget.tabs <= budget.tabs
         /\ active \in 0 .. Len(tabs) /\ (active = 0 <=> Len(tabs) = 0) /\ closing \in [at : Nat, id : Nat]
         /\ closing.at # 0 => closing.at \in 1 .. Len(tabs) /\ tabs[closing.at].id = closing.id
         /\ \A i \in 1 .. Len(tabs) : TabSound(tabs[i]) /\ Follows(tabs[i], tabs[i])
<1>1. TabsSound(tabs) /\ window \in Windows /\ budget \in BudgetRecs
  BY DEF DeskInv
<1>2. Len(tabs) \in Nat /\ DOMAIN tabs = 1 .. Len(tabs) /\ window \in Grids /\ budget.tabs \in Nat
  BY <1>1, TabsAre, WindowsAre DEF BudgetRecs
<1>3. \A i \in 1 .. Len(tabs) : TabSound(tabs[i]) /\ Follows(tabs[i], tabs[i])
  BY <1>1, FollowsSelf DEF TabsSound
<1> QED
  BY <1>1, <1>2, <1>3 DEF DeskInv, ClosesTheRightTab

\* Every tab is what it was but for the sizes of its panes.
LEMMA SizesStep ==
  ASSUME DeskInv, TabsSound(tabs'), Len(tabs') = Len(tabs), \A i \in 1 .. Len(tabs) : Alike(tabs[i], tabs'[i]),
         window' \in Windows, budget' = budget, closing' = closing,
         active' \in 0 .. Len(tabs), active' = 0 <=> Len(tabs) = 0
  PROVE  DeskInv' /\ Steady
<1>1. \A i \in 1 .. Len(tabs) : /\ Follows(tabs[i], tabs'[i])
                                /\ tabs[i].exited => tabs'[i].exited \/ closing'.id = tabs'[i].id
  <2> SUFFICES ASSUME NEW i \in 1 .. Len(tabs) PROVE Follows(tabs[i], tabs'[i]) /\ tabs'[i].exited = tabs[i].exited
    OBVIOUS
  <2>1. Follows(tabs[i], tabs[i]) /\ Alike(tabs[i], tabs'[i])
    BY DeskIs
  <2>2. Follows(tabs[i], tabs'[i])
    BY <2>1, FollowsAlike
  <2> QED
    BY <2>1, <2>2 DEF Alike
<1> QED
  BY <1>1, DeskIs, StaysPut

LEMMA ResizeWindowStep == ASSUME DeskInv, ResizeWindow PROVE DeskInv' /\ Steady
<1>1. /\ window' \in Windows /\ window' \in Grids /\ tabs' = UpdateGridDims(tabs, window')
      /\ active' = active /\ closing' = closing /\ budget' = budget
  BY WindowsAre DEF ResizeWindow
<1>2. TabsSound(tabs') /\ Len(tabs') = Len(tabs) /\ \A i \in 1 .. Len(tabs) : Alike(tabs[i], tabs'[i])
  BY <1>1, DeskIs, GridDimsIs
<1> QED
  BY <1>1, <1>2, DeskIs, SizesStep

LEMMA SelectTabStep == ASSUME DeskInv, SelectTab PROVE DeskInv' /\ Steady
<1>1. PICK i \in 1 .. Len(tabs) : active' = i /\ tabs' = Selected(tabs, i)
  BY DeskIs DEF SelectTab
<1>2. window' = window /\ closing' = closing /\ budget' = budget
  BY DEF SelectTab
<1>3. TabsSound(tabs') /\ Len(tabs') = Len(tabs) /\ \A j \in 1 .. Len(tabs) : Alike(tabs[j], tabs'[j])
  BY <1>1, DeskIs, SelectedIs
<1>4. active' \in 0 .. Len(tabs) /\ (active' = 0 <=> Len(tabs) = 0)
  BY <1>1, DeskIs
<1> QED
  BY <1>2, <1>3, <1>4, DeskIs, SizesStep

LEMMA ConnectProfileStep == ASSUME DeskInv, ConnectProfile PROVE DeskInv' /\ Steady
<1>1. Spend("tabs") /\ window' = window /\ closing' = closing
  BY DEF ConnectProfile
<1>2. PICK p \in Profiles \cup {AdHoc} : Opens(NewTab(budget.tabs, p))
  BY DEF ConnectProfile
<1>3. budget' \in BudgetRecs /\ budget.tabs > 0 /\ budget'.tabs = budget.tabs - 1
  BY <1>1, DeskIs, SpendIs
<1> DEFINE t == NewTab(budget.tabs, p)
<1>4. TabSound(t) /\ t.id = budget.tabs /\ t.broadcast = {}
  BY DeskIs, NewTabIs
<1> HIDE DEF t
<1>5. (tabs' = Append(tabs, t) \/ tabs' = UpdateGridDims(Append(tabs, t), window)) /\ active' = Len(tabs')
  BY <1>2 DEF Opens, t
<1> QED
  BY <1>1, <1>3, <1>4, <1>5, OpeningStep

LEMMA OpenWorkspaceStep == ASSUME DeskInv, OpenWorkspace PROVE DeskInv' /\ Steady
<1>1. window' = window /\ closing' = closing
  BY DEF OpenWorkspace
<1>2. PICK w \in Workspaces :
        /\ budget.tabs > 0 /\ budget.panes >= Len(w.others)
        /\ budget' = [budget EXCEPT !.tabs = @ - 1, !.panes = @ - Len(w.others)]
        /\ w.profile \in Profiles
        /\ tabs' = UpdateGridDims(Append(tabs, OpenWorkspaceTab(w, budget.tabs)), window) /\ active' = Len(tabs')
  BY DEF OpenWorkspace
<1> DEFINE k == Len(w.others)
<1>3. k \in Nat
  <2>1. w.others \in Seq(STRING)
    BY DeskAssumption
  <2> QED
    BY <2>1, LenProperties
<1>4. budget' = [budget EXCEPT !.tabs = @ - 1, !.panes = @ - k] /\ budget.panes >= k
  BY <1>2
<1> HIDE DEF k
<1>5. budget' \in BudgetRecs /\ budget.tabs > 0 /\ budget'.tabs = budget.tabs - 1
  <2>1. budget \in BudgetRecs /\ budget.tabs > 0
    BY <1>2, DeskIs
  <2>2. budget.tabs - 1 \in Nat /\ budget.panes - k \in Nat
    BY <1>3, <1>4, <2>1 DEF BudgetRecs
  <2> QED
    BY <1>4, <2>1, <2>2 DEF BudgetRecs
<1> DEFINE t == OpenWorkspaceTab(w, budget.tabs)
<1>6. TabSound(t) /\ t.id = budget.tabs /\ t.broadcast = {}
  BY <1>2, DeskIs, OpenWorkspaceTabIs
<1>7. tabs' = UpdateGridDims(Append(tabs, t), window) /\ active' = Len(tabs')
  BY <1>2
<1> HIDE DEF t
<1> QED
  BY <1>1, <1>5, <1>6, <1>7, OpeningStep

\* A tab whose shell has ended, or whose end has been seen to.
LEMMA WithExit ==
  ASSUME NEW t, TabSound(t), NEW e \in BOOLEAN
  PROVE  TabSound([t EXCEPT !.exited = e]) /\ Follows(t, [t EXCEPT !.exited = e]) /\ [t EXCEPT !.exited = e].exited = e
<1> DEFINE s == [t EXCEPT !.exited = e]
<1>1. t \in TabRecs
  BY DEF TabSound
<1>2. /\ s \in TabRecs /\ s.id = t.id /\ s.tree = t.tree /\ s.next = t.next /\ s.panes = t.panes /\ s.focus = t.focus
      /\ s.zoom = t.zoom /\ s.broadcast = t.broadcast /\ s.exited = e
  BY <1>1 DEF TabRecs
<1> HIDE DEF s
<1>3. TabSound(s) /\ Follows(t, s)
  BY <1>2, SameTree DEF TabSound
<1> QED
  BY <1>2, <1>3 DEF s

\* The tabs with one's end noted, or seen to.
Noted(i, e) == [tabs EXCEPT ![i].exited = e]
LEMMA NotedIs ==
  ASSUME DeskInv, NEW i \in 1 .. Len(tabs), NEW e \in BOOLEAN
  PROVE  /\ TabsSound(Noted(i, e)) /\ Len(Noted(i, e)) = Len(tabs) /\ Noted(i, e)[i].exited = e
         /\ \A j \in 1 .. Len(tabs) : Follows(tabs[j], Noted(i, e)[j]) /\ (j # i => Noted(i, e)[j].exited = tabs[j].exited)
<1> DEFINE t == tabs[i]  s == [t EXCEPT !.exited = e]  u == [tabs EXCEPT ![i] = s]
<1>1. Noted(i, e) = u
  BY DEF Noted
<1>2. TabSound(s) /\ Follows(t, s) /\ s.exited = e
  BY DeskIs, WithExit
<1> HIDE DEF s
<1>3. TabsSound(u) /\ Len(u) = Len(tabs) /\ \A j \in 1 .. Len(tabs) : u[j] = IF j = i THEN s ELSE tabs[j]
  BY <1>2, DeskIs, PutTab
<1> HIDE DEF u
<1>4. \A j \in 1 .. Len(tabs) : Follows(tabs[j], u[j]) /\ (j # i => u[j].exited = tabs[j].exited)
  BY <1>2, <1>3, DeskIs
<1> QED
  BY <1>1, <1>2, <1>3, <1>4

LEMMA ShellExitsStep == ASSUME DeskInv, ShellExits PROVE DeskInv' /\ Steady
<1>1. Spend("ends") /\ active' = active /\ window' = window /\ closing' = closing
  BY DEF ShellExits
<1>2. PICK i \in 1 .. Len(tabs) : tabs' = [tabs EXCEPT ![i].exited = TRUE]
  BY DeskIs DEF ShellExits
<1>3. budget' \in BudgetRecs /\ budget'.tabs <= budget.tabs
  BY <1>1, DeskIs, SpendIs
<1>4. /\ TabsSound(tabs') /\ Len(tabs') = Len(tabs) /\ tabs'[i].exited = TRUE
      /\ \A j \in 1 .. Len(tabs) : Follows(tabs[j], tabs'[j]) /\ (j # i => tabs'[j].exited = tabs[j].exited)
  <2> DEFINE e == TRUE
  <2>1. e \in BOOLEAN /\ tabs' = Noted(i, e)
    BY <1>2 DEF Noted
  <2> HIDE DEF e
  <2>2. /\ TabsSound(tabs') /\ Len(tabs') = Len(tabs) /\ tabs'[i].exited = e
        /\ \A j \in 1 .. Len(tabs) : Follows(tabs[j], tabs'[j]) /\ (j # i => tabs'[j].exited = tabs[j].exited)
    BY <2>1, NotedIs
  <2> QED
    BY <2>2 DEF e
<1>5. \A j \in 1 .. Len(tabs) : tabs[j].exited => tabs'[j].exited
  BY <1>4
<1> QED
  BY <1>1, <1>3, <1>4, <1>5, DeskIs, StaysPut

\* A tab closed: it collapses first, or goes at once.
LEMMA ClosingStep ==
  ASSUME DeskInv, NEW ts, TabsSound(ts), Len(ts) = Len(tabs), NEW i \in 1 .. Len(ts), NEW hidden \in BOOLEAN,
         \A k \in 1 .. Len(ts) : Follows(tabs[k], ts[k]) /\ (k # i => ts[k].exited = tabs[k].exited),
         CloseSession(ts, i, hidden), budget' \in BudgetRecs, budget'.tabs <= budget.tabs
  PROVE  DeskInv' /\ Steady
<1>1. closing.at = 0 /\ window' = window
  BY DEF CloseSession, MayClose
<1>2. CASE i # active \/ hidden
  <2>1. CloseSessionNow(ts, i) /\ closing' = closing
    BY <1>2 DEF CloseSession
  <2> QED
    BY <1>1, <2>1, DeskIs, RemovalStep
<1>3. CASE ~(i # active \/ hidden)
  <2>1. closing' = [at |-> i, id |-> ts[i].id] /\ tabs' = ts /\ active' = active
    BY <1>3 DEF CloseSession
  <2>2. \A k \in 1 .. Len(ts) : ts[k].id = tabs[k].id /\ ts[k].id \in Nat
    BY DEF Follows, TabsSound, TabSound, TabRecs
  <2>3. closing' \in [at : Nat, id : Nat] /\ closing'.at = i /\ closing'.id = tabs[i].id /\ i \in 1 .. Len(tabs)
    BY <2>1, <2>2, DeskIs
  <2>4. \A k \in 1 .. Len(tabs) : Follows(tabs[k], tabs'[k]) /\ (tabs[k].exited => tabs'[k].exited \/ closing'.id = tabs'[k].id)
    BY <2>1, <2>2, <2>3
  <2> QED
    BY <1>1, <2>1, <2>3, <2>4, DeskIs, StaysPut
<1> QED
  BY <1>2, <1>3

LEMMA CloseTabStep == ASSUME DeskInv, CloseTab PROVE DeskInv' /\ Steady
<1>1. budget' \in BudgetRecs /\ budget'.tabs <= budget.tabs
  BY DeskIs, SpendIs DEF CloseTab
<1>2. PICK i \in 1 .. Len(tabs) : CloseSession(tabs, i, FALSE)
  BY DeskIs DEF CloseTab
<1>3. \A k \in 1 .. Len(tabs) : Follows(tabs[k], tabs[k])
  BY DeskIs
<1>4. TabsSound(tabs) /\ FALSE \in BOOLEAN
  BY DeskIs
<1> QED
  BY <1>1, <1>2, <1>3, <1>4, ClosingStep

LEMMA CloseExitedStep == ASSUME DeskInv, CloseExited PROVE DeskInv' /\ Steady
<1>1. closing.at = 0 /\ budget' = budget
  BY DEF CloseExited, Ticks
<1>2. PICK i \in 1 .. Len(tabs), hidden \in BOOLEAN : CloseSession([tabs EXCEPT ![i].exited = FALSE], i, hidden)
  BY <1>1, DeskIs DEF CloseExited
<1> DEFINE e == FALSE  ts == Noted(i, e)
<1>4. CloseSession(ts, i, hidden) /\ e \in BOOLEAN
  BY <1>2 DEF Noted
<1> HIDE DEF e
<1>3. /\ TabsSound(ts) /\ Len(ts) = Len(tabs)
      /\ \A k \in 1 .. Len(tabs) : Follows(tabs[k], ts[k]) /\ (k # i => ts[k].exited = tabs[k].exited)
  BY <1>4, NotedIs
<1> HIDE DEF ts
<1> QED
  BY <1>1, <1>3, <1>4, DeskIs, ClosingStep

LEMMA FinishClosingStep == ASSUME DeskInv, FinishClosing PROVE DeskInv' /\ Steady
<1>1. /\ closing.at # 0 /\ closing' = NotClosing /\ CloseSessionNow(tabs, closing.at)
      /\ window' = window /\ budget' = budget
  BY DEF FinishClosing
<1>2. closing' \in [at : Nat, id : Nat] /\ closing'.at = 0
  BY <1>1 DEF NotClosing
<1> DEFINE i == closing.at
<1>3. i \in 1 .. Len(tabs) /\ CloseSessionNow(tabs, i)
  BY <1>1, DeskIs
<1> HIDE DEF i
<1> QED
  BY <1>1, <1>2, <1>3, DeskIs, RemovalStep

\* Nothing happens.
LEMMA StillStep == ASSUME DeskInv, UNCHANGED deskVars PROVE DeskInv' /\ Steady
<1>1. tabs' = tabs /\ active' = active /\ window' = window /\ closing' = closing /\ budget' = budget
  BY DEF deskVars
<1>2. \A i \in 1 .. Len(tabs) : Alike(tabs[i], tabs'[i])
  BY <1>1 DEF Alike
<1>3. /\ TabsSound(tabs') /\ Len(tabs') = Len(tabs) /\ window' \in Windows
      /\ active' \in 0 .. Len(tabs) /\ (active' = 0 <=> Len(tabs) = 0)
  BY <1>1, DeskIs
<1> QED
  BY <1>1, <1>2, <1>3, SizesStep

\* Whatever is done, the invariant stays and every tab is followed.
LEMMA DeskStep == ASSUME DeskInv, [DeskNext]_deskVars PROVE DeskInv' /\ Steady
<1>1. CASE ResizeWindow
  BY <1>1, ResizeWindowStep
<1>2. CASE ConnectProfile
  BY <1>2, ConnectProfileStep
<1>3. CASE SelectTab
  BY <1>3, SelectTabStep
<1>4. CASE CloseTab
  BY <1>4, CloseTabStep
<1>5. CASE ShellExits
  BY <1>5, ShellExitsStep
<1>6. CASE CloseExited
  BY <1>6, CloseExitedStep
<1>7. CASE FinishClosing
  BY <1>7, FinishClosingStep
<1>8. CASE SplitPane
  BY <1>8, SplitPaneStep
<1>9. CASE CloseSplit
  BY <1>9, CloseSplitStep
<1>10. CASE FocusPane
  BY <1>10, FocusPaneStep
<1>11. CASE MovePane
  BY <1>11, MovePaneStep
<1>12. CASE SwapPaneWith
  BY <1>12, SwapPaneStep
<1>13. CASE ResizePane
  BY <1>13, ResizePaneStep
<1>14. CASE RotatePane
  BY <1>14, RotatePaneStep
<1>15. CASE ToggleZoomPane
  BY <1>15, ToggleZoomPaneStep
<1>16. CASE ToggleReadOnlyPane
  BY <1>16, ToggleReadOnlyPaneStep
<1>17. CASE PickBroadcastTargets
  BY <1>17, PickBroadcastTargetsStep
<1>18. CASE BroadcastAll
  BY <1>18, BroadcastAllStep
<1>19. CASE StopBroadcast
  BY <1>19, StopBroadcastStep
<1>20. CASE OpenWorkspace
  BY <1>20, OpenWorkspaceStep
<1>21. CASE UNCHANGED deskVars
  BY <1>21, StillStep
<1> QED
  BY <1>1, <1>2, <1>3, <1>4, <1>5, <1>6, <1>7, <1>8, <1>9, <1>10, <1>11, <1>12, <1>13, <1>14, <1>15,
     <1>16, <1>17, <1>18, <1>19, <1>20, <1>21 DEF DeskNext

\* One tab of one pane.
LEMMA DeskStart == DeskInit => DeskInv
<1> SUFFICES ASSUME DeskInit PROVE DeskInv
  OBVIOUS
<1>1. window \in Windows /\ active = 1 /\ closing = NotClosing /\ budget \in BudgetRecs
  BY DeskAssumption DEF DeskInit, BudgetRecs
<1>2. PICK p \in Profiles \cup {AdHoc} : tabs = <<NewTab(0, p)>>
  BY DEF DeskInit
<1> DEFINE t == NewTab(0, p)
<1>3. TabSound(t) /\ t.id = 0
  BY <1>1, NewTabIs
<1>4. tabs = <<t>>
  BY <1>2
<1> HIDE DEF t
<1>5. t \in TabRecs
  BY <1>3 DEF TabSound
<1>6. tabs \in Seq(TabRecs) /\ Len(tabs) = 1 /\ tabs[1] = t /\ DOMAIN tabs = 1 .. 1
  BY <1>4, <1>5
<1>7. \A i \in 1 .. 1 : i = 1
  OBVIOUS
<1>8. TabsSound(tabs)
  BY <1>3, <1>6, <1>7 DEF TabsSound
<1>9. IdsApart
  BY <1>3, <1>6, <1>7 DEF IdsApart
<1>10. closing \in [at : Nat, id : Nat] /\ closing.at = 0
  BY <1>1 DEF NotClosing
<1> QED
  BY <1>1, <1>6, <1>8, <1>9, <1>10 DEF DeskInv, ClosesTheRightTab

\* What the invariant is for.
LEMMA DeskRefers == DeskInv => ReferencesHold
<1> SUFFICES ASSUME DeskInv PROVE ReferencesHold
  OBVIOUS
<1>1. \A i \in DOMAIN tabs : TabSound(tabs[i])
  BY DeskIs
<1>2. RefersToTheLiving
  <2> SUFFICES ASSUME NEW i \in DOMAIN tabs
               PROVE  /\ PanesOf(tabs[i].tree) \cup ({tabs[i].focus, tabs[i].zoom, 0} \ {NoPane}) \subseteq DOMAIN tabs[i].panes
                      /\ tabs[i].broadcast \subseteq {p \in DOMAIN tabs[i].panes : ~tabs[i].panes[p].readOnly}
    BY DEF RefersToTheLiving
  <2> DEFINE t == tabs[i]
  <2>1. TabSound(t)
    BY <1>1
  <2> HIDE DEF t
  <2>2. /\ PanesOf(t.tree) \cup ({t.focus, t.zoom, 0} \ {NoPane}) \subseteq DOMAIN t.panes
        /\ t.broadcast \subseteq {p \in DOMAIN t.panes : ~t.panes[p].readOnly}
    BY <2>1 DEF TabSound
  <2> QED
    BY <2>2 DEF t
<1>3. DeskTypeOK
  <2>1. window \in Windows /\ budget \in [tabs : Nat, panes : Nat, edits : Nat, marks : Nat, ends : Nat]
        /\ closing \in [at : Nat, id : Nat]
    BY DeskIs DEF BudgetRecs
  <2>2. active \in DOMAIN tabs \cup {0} /\ (active = 0 <=> tabs = <<>>)
    <3>1. tabs \in Seq(TabRecs) /\ (Len(tabs) = 0 <=> tabs = <<>>)
      <4>1. tabs \in Seq(TabRecs)
        BY DeskIs DEF TabsSound
      <4> QED
        BY <4>1, EmptySeq
    <3> QED
      BY <3>1, DeskIs
  <2>3. ASSUME NEW i \in DOMAIN tabs, NEW t, t = tabs[i]
        PROVE  /\ t.id \in Nat /\ t.exited \in BOOLEAN /\ t.next \in Nat
               /\ \A p \in DOMAIN t.panes :
                    p \in 0 .. t.next - 1 /\ t.panes[p] \in [profile : Profiles \cup {AdHoc}, readOnly : BOOLEAN, size : Sizes]
               /\ \A n \in DOMAIN t.tree : t.tree[n] \in [pane : Nat \cup {NoPane}, dir : {"V", "H"}, ratio : 10 .. 90]
    <3>1. TabSound(t) /\ t \in TabRecs
      BY <1>1, <2>3 DEF TabSound
    <3>2. t.id \in Nat /\ t.exited \in BOOLEAN /\ t.next \in Nat /\ t.panes \in PaneMaps /\ t.tree \in Trees
          /\ DOMAIN t.panes \subseteq 0 .. t.next - 1
      BY <3>1 DEF TabSound, TabRecs
    <3>3. \A p \in DOMAIN t.panes : t.panes[p] \in Sessions
      BY <3>2, PaneMapsAre
    <3>4. \A n \in DOMAIN t.tree : t.tree[n] \in NodeInfo
      BY <3>2 DEF Trees
    <3> QED
      BY <3>2, <3>3, <3>4 DEF Sessions, Sizes, Grids, NodeInfo
  <2> QED
    BY <2>1, <2>2, <2>3 DEF DeskTypeOK
<1>4. ClosesTheRightTab
  BY DEF DeskInv
<1> QED
  BY <1>2, <1>3, <1>4 DEF ReferencesHold

\* The tab with the same id is the one that a step makes of it.
LEMMA SameTabFollows ==
  ASSUME DeskInv, Steady, NEW i \in DOMAIN tabs, NEW j \in DOMAIN tabs', SameTab(i, j)
  PROVE  Follows(tabs[i], tabs'[j]) /\ (tabs[i].exited => tabs'[j].exited \/ closing'.id = tabs'[j].id)
<1>1. tabs[i].id = tabs'[j].id
  BY DEF SameTab
<1>2. ~Fresh(tabs'[j])
  BY <1>1 DEF Fresh
<1>3. PICK k \in DOMAIN tabs : Follows(tabs[k], tabs'[j]) /\ (tabs[k].exited => tabs'[j].exited \/ closing'.id = tabs'[j].id)
  BY <1>2 DEF Steady
<1>4. k = i
  BY <1>1, <1>3 DEF Follows, DeskInv, IdsApart
<1> QED
  BY <1>3, <1>4

\* Nobody is forgotten by a step.
LEMMA DeskForgetsNobody ==
  ASSUME DeskInv, Steady
  PROVE  /\ \A i \in DOMAIN tabs, j \in DOMAIN tabs' : SameTab(i, j) =>
              LET now == PanesOf(tabs'[j].tree) IN
              \A p \in (PanesOf(tabs[i].tree) \cap DOMAIN (tabs'[j].panes)) \ now :
                \A q \in now, dir \in {"V", "H"} : ~CanSplit(tabs'[j].tree, NoPane, q, dir, window)
         /\ \A i \in DOMAIN tabs, j \in DOMAIN tabs' :
              SameTab(i, j) /\ tabs'[j].next > tabs[i].next /\ tabs[i].zoom = NoPane =>
                (Usable(Rects(Started(tabs[i]).tree, NoPane, window)[tabs[i].focus]) =>
                  \A p \in {tabs[i].next, tabs[i].focus} : Usable(Rects(tabs'[j].tree, NoPane, window)[p]))
         /\ \A j \in DOMAIN tabs' : \A p \in tabs'[j].broadcast :
              \E i \in DOMAIN tabs : SameTab(i, j) /\ p \in DOMAIN tabs[i].panes
         /\ \A i \in DOMAIN tabs, j \in DOMAIN tabs' : SameTab(i, j) /\ tabs[i].exited =>
              tabs'[j].exited \/ closing'.id = tabs'[j].id
<1>1. ASSUME NEW i \in DOMAIN tabs, NEW j \in DOMAIN tabs', SameTab(i, j), NEW p \in PanesOf(tabs[i].tree),
             p \in DOMAIN (tabs'[j].panes), p \notin PanesOf(tabs'[j].tree), NEW q \in PanesOf(tabs'[j].tree), NEW dir \in {"V", "H"}
      PROVE  ~CanSplit(tabs'[j].tree, NoPane, q, dir, window)
  <2>1. Keeps(tabs[i], tabs'[j])
    BY <1>1, SameTabFollows DEF Follows
  <2> QED
    BY <1>1, <2>1 DEF Keeps
<1>2. ASSUME NEW i \in DOMAIN tabs, NEW j \in DOMAIN tabs', SameTab(i, j), tabs'[j].next > tabs[i].next, tabs[i].zoom = NoPane,
             Usable(Rects(Started(tabs[i]).tree, NoPane, window)[tabs[i].focus])
      PROVE  \A p \in {tabs[i].next, tabs[i].focus} : Usable(Rects(tabs'[j].tree, NoPane, window)[p])
  <2>1. Roomy(tabs[i], tabs'[j])
    BY <1>2, SameTabFollows DEF Follows
  <2> QED
    BY <1>2, <2>1 DEF Roomy
<1>3. ASSUME NEW j \in DOMAIN tabs', NEW p \in tabs'[j].broadcast
      PROVE  \E i \in DOMAIN tabs : SameTab(i, j) /\ p \in DOMAIN tabs[i].panes
  <2>1. ~Fresh(tabs'[j])
    BY <1>3 DEF Fresh
  <2>2. PICK i \in DOMAIN tabs : Follows(tabs[i], tabs'[j])
    BY <2>1 DEF Steady
  <2> QED
    BY <1>3, <2>2 DEF Follows, SameTab
<1>4. ASSUME NEW i \in DOMAIN tabs, NEW j \in DOMAIN tabs', SameTab(i, j), tabs[i].exited
      PROVE  tabs'[j].exited \/ closing'.id = tabs'[j].id
  BY <1>4, SameTabFollows
<1> QED
  BY <1>1, <1>2, <1>3, <1>4

\* The invariant holds.
LEMMA DeskInvHolds == DeskSpec => []DeskInv
<1>1. DeskInv /\ [DeskNext]_deskVars => DeskInv'
  BY DeskStep
<1> QED
  BY <1>1, DeskStart, PTL DEF DeskSpec

\* What outlives a command names what it was given for: every pane that a layout
\* shows, a focus, a zoom or a broadcast names is its tab's own, and the tab that
\* is torn down when its animation ends is the one that was closed.
THEOREM DeskReferencesHold == DeskSpec => []ReferencesHold
<1>1. DeskInv => ReferencesHold
  BY DeskRefers
<1> QED
  BY <1>1, DeskInvHolds, PTL

\* No command loses a pane, starves one of two halves, types into a session that
\* has just been started, or forgets that a shell has exited.
THEOREM DeskForgets == DeskSpec => NobodyForgotten
<1> DEFINE Vanishes == \A i \in DOMAIN tabs, j \in DOMAIN tabs' : SameTab(i, j) =>
                         LET now == PanesOf(tabs'[j].tree) IN
                         \A p \in (PanesOf(tabs[i].tree) \cap DOMAIN (tabs'[j].panes)) \ now :
                           \A q \in now, dir \in {"V", "H"} : ~CanSplit(tabs'[j].tree, NoPane, q, dir, window)
           Room == \A i \in DOMAIN tabs, j \in DOMAIN tabs' :
                     SameTab(i, j) /\ tabs'[j].next > tabs[i].next /\ tabs[i].zoom = NoPane =>
                       (Usable(Rects(Started(tabs[i]).tree, NoPane, window)[tabs[i].focus]) =>
                         \A p \in {tabs[i].next, tabs[i].focus} : Usable(Rects(tabs'[j].tree, NoPane, window)[p]))
           Swept == \A j \in DOMAIN tabs' : \A p \in tabs'[j].broadcast :
                      \E i \in DOMAIN tabs : SameTab(i, j) /\ p \in DOMAIN tabs[i].panes
           Exits == \A i \in DOMAIN tabs, j \in DOMAIN tabs' : SameTab(i, j) /\ tabs[i].exited =>
                      tabs'[j].exited \/ closing'.id = tabs'[j].id
<1>1. DeskInv /\ [DeskNext]_deskVars => Vanishes /\ Room /\ Swept /\ Exits
  <2> HAVE DeskInv /\ [DeskNext]_deskVars
  <2>1. Steady
    BY DeskStep
  <2> QED
    BY <2>1, DeskForgetsNobody
<1>2. NoPaneVanishes <=> [][Vanishes]_deskVars
  BY PTL DEF NoPaneVanishes
<1>3. SplitsHaveRoom <=> [][Room]_deskVars
  BY PTL DEF SplitsHaveRoom, Usable
<1>4. NeverSweptIn <=> [][Swept]_deskVars
  BY PTL DEF NeverSweptIn
<1>5. NoExitForgotten <=> [][Exits]_deskVars
  BY PTL DEF NoExitForgotten
<1> HIDE DEF Vanishes, Room, Swept, Exits
<1>6. DeskSpec => [][Vanishes]_deskVars /\ [][Room]_deskVars /\ [][Swept]_deskVars /\ [][Exits]_deskVars
  BY <1>1, DeskInvHolds, PTL DEF DeskSpec
<1> QED
  BY <1>2, <1>3, <1>4, <1>5, <1>6, PTL DEF NobodyForgotten

----------------------------------------------------------------------------
(* Cells.                                                                  *)

\* The cells of a rectangle, by their column and row.
LEMMA CellsAre ==
  ASSUME NEW r \in Rectangles, NEW e
  PROVE  e \in CellsOf(r) <=> /\ e \in Nat \X Nat
                              /\ r.col <= e[1] /\ e[1] < r.col + r.cols /\ r.row <= e[2] /\ e[2] < r.row + r.rows
<1>1. r.col \in Nat /\ r.row \in Nat /\ r.cols \in Nat /\ r.rows \in Nat
  BY DEF Rectangles
<1>2. ASSUME e \in CellsOf(r)
      PROVE  e \in Nat \X Nat /\ r.col <= e[1] /\ e[1] < r.col + r.cols /\ r.row <= e[2] /\ e[2] < r.row + r.rows
  <2>1. PICK c \in r.col .. r.col + r.cols - 1, y \in r.row .. r.row + r.rows - 1 : e = <<c, y>>
    BY <1>2 DEF CellsOf
  <2>2. e[1] = c /\ e[2] = y /\ c \in Nat /\ y \in Nat
    BY <1>1, <2>1
  <2> QED
    BY <1>1, <2>1, <2>2
<1>3. ASSUME e \in Nat \X Nat, r.col <= e[1], e[1] < r.col + r.cols, r.row <= e[2], e[2] < r.row + r.rows
      PROVE  e \in CellsOf(r)
  <2>1. e[1] \in r.col .. r.col + r.cols - 1 /\ e[2] \in r.row .. r.row + r.rows - 1 /\ e = <<e[1], e[2]>>
    BY <1>1, <1>3
  <2> QED
    BY <2>1 DEF CellsOf
<1> QED
  BY <1>2, <1>3

\* Where the halves of a rectangle are, and the line between them.
LEMMA SharesAre ==
  ASSUME NEW r \in Rectangles, NEW node \in NodeInfo
  PROVE  LET p == SplitRect(r, node, 1)  q == SplitRect(r, node, 2)  d == Divider(r, node) IN
         /\ p \in Rectangles /\ q \in Rectangles /\ d \in Rectangles
         /\ \E a, b \in Nat :
              \/ /\ a + b = Avail(r.cols) /\ p.col = r.col /\ p.cols = a /\ d.col = r.col + a /\ d.cols = 1
                 /\ q.col = r.col + a + 1 /\ q.cols = b
                 /\ p.row = r.row /\ p.rows = r.rows /\ d.row = r.row /\ d.rows = r.rows /\ q.row = r.row /\ q.rows = r.rows
              \/ /\ a + b = Avail(r.rows) /\ p.row = r.row /\ p.rows = a /\ d.row = r.row + a /\ d.rows = 1
                 /\ q.row = r.row + a + 1 /\ q.rows = b
                 /\ p.col = r.col /\ p.cols = r.cols /\ d.col = r.col /\ d.cols = r.cols /\ q.col = r.col /\ q.cols = r.cols
<1> DEFINE p == SplitRect(r, node, 1)  q == SplitRect(r, node, 2)  d == Divider(r, node)
           n == IF node.dir = "V" THEN Avail(r.cols) ELSE Avail(r.rows)
           a == FirstShare(n, node.ratio)  b == SecondShare(n, node.ratio)
<1>1. /\ n \in Nat /\ node.ratio \in 10 .. 90 /\ node.dir \in {"V", "H"}
      /\ r.col \in Nat /\ r.row \in Nat /\ r.cols \in Nat /\ r.rows \in Nat
  BY DEF Rectangles, NodeInfo, Avail
<1>2. p \in Rectangles /\ q \in Rectangles
  BY SplitRectIs
<1>3. /\ p = IF node.dir = "V" THEN [r EXCEPT !.cols = a] ELSE [r EXCEPT !.rows = a]
      /\ q = IF node.dir = "V" THEN [r EXCEPT !.col = @ + a + 1, !.cols = b] ELSE [r EXCEPT !.row = @ + a + 1, !.rows = b]
  <2>1. \A c : SplitRect(r, node, c) =
                CASE node.dir = "V" /\ c = 1 -> [r EXCEPT !.cols = a]
                  [] node.dir = "V" /\ c = 2 -> [r EXCEPT !.col = @ + a + 1, !.cols = b]
                  [] node.dir = "H" /\ c = 1 -> [r EXCEPT !.rows = a]
                  [] node.dir = "H" /\ c = 2 -> [r EXCEPT !.row = @ + a + 1, !.rows = b]
    BY DEF SplitRect
  <2> HIDE DEF a, b
  <2> QED
    BY <1>1, <2>1
<1>4. d = IF node.dir = "V" THEN Rect(p.col + p.cols, r.row, 1, r.rows) ELSE Rect(r.col, p.row + p.rows, r.cols, 1)
  BY DEF Divider
<1>5. a \in Nat /\ b \in Nat /\ a + b = n
  <2> HIDE DEF n
  <2>1. a \in 0 .. n /\ b \in 0 .. n /\ a + b = n
    BY <1>1, ShareIs, Zenon
  <2> HIDE DEF a, b
  <2> QED
    BY <1>1, <2>1
<1> HIDE DEF p, q, d, a, b
<1>6. CASE node.dir = "V"
  <2>1. p = [r EXCEPT !.cols = a] /\ q = [r EXCEPT !.col = r.col + a + 1, !.cols = b] /\ d = Rect(p.col + p.cols, r.row, 1, r.rows)
    BY <1>3, <1>4, <1>6
  <2>2. /\ p.col = r.col /\ p.cols = a /\ p.row = r.row /\ p.rows = r.rows
        /\ q.col = r.col + a + 1 /\ q.cols = b /\ q.row = r.row /\ q.rows = r.rows
    BY <2>1 DEF Rectangles
  <2>3. d.col = r.col + a /\ d.cols = 1 /\ d.row = r.row /\ d.rows = r.rows /\ d \in Rectangles
    BY <1>1, <1>5, <2>1, <2>2 DEF Rect, Rectangles
  <2>4. a + b = Avail(r.cols)
    BY <1>5, <1>6
  <2> QED
    BY <1>2, <1>5, <2>2, <2>3, <2>4 DEF p, q, d
<1>7. CASE node.dir = "H"
  <2>1. p = [r EXCEPT !.rows = a] /\ q = [r EXCEPT !.row = r.row + a + 1, !.rows = b] /\ d = Rect(r.col, p.row + p.rows, r.cols, 1)
    BY <1>3, <1>4, <1>7
  <2>2. /\ p.col = r.col /\ p.cols = r.cols /\ p.row = r.row /\ p.rows = a
        /\ q.col = r.col /\ q.cols = r.cols /\ q.row = r.row + a + 1 /\ q.rows = b
    BY <2>1 DEF Rectangles
  <2>3. d.col = r.col /\ d.cols = r.cols /\ d.row = r.row + a /\ d.rows = 1 /\ d \in Rectangles
    BY <1>1, <1>5, <2>1, <2>2 DEF Rect, Rectangles
  <2>4. a + b = Avail(r.rows)
    BY <1>5, <1>7
  <2> QED
    BY <1>2, <1>5, <2>2, <2>3, <2>4 DEF p, q, d
<1> QED
  BY <1>1, <1>6, <1>7

\* The halves of a rectangle are apart and lie in it, and the line between them
\* is what neither has.
LEMMA HalvesShare ==
  ASSUME NEW r \in Rectangles, NEW node \in NodeInfo
  PROVE  LET p == CellsOf(SplitRect(r, node, 1))  q == CellsOf(SplitRect(r, node, 2))  d == CellsOf(Divider(r, node)) IN
         /\ p \cup q \subseteq CellsOf(r) /\ p \cap q = {}
         /\ Visible(r) => d \subseteq CellsOf(r) /\ d \cap (p \cup q) = {} /\ CellsOf(r) \subseteq p \cup q \cup d
<1> DEFINE p == SplitRect(r, node, 1)  q == SplitRect(r, node, 2)  d == Divider(r, node)
<1>1. r.col \in Nat /\ r.row \in Nat /\ r.cols \in Nat /\ r.rows \in Nat
  BY DEF Rectangles
<1>2. /\ p \in Rectangles /\ q \in Rectangles /\ d \in Rectangles
      /\ \E a, b \in Nat :
           \/ /\ a + b = Avail(r.cols) /\ p.col = r.col /\ p.cols = a /\ d.col = r.col + a /\ d.cols = 1
              /\ q.col = r.col + a + 1 /\ q.cols = b
              /\ p.row = r.row /\ p.rows = r.rows /\ d.row = r.row /\ d.rows = r.rows /\ q.row = r.row /\ q.rows = r.rows
           \/ /\ a + b = Avail(r.rows) /\ p.row = r.row /\ p.rows = a /\ d.row = r.row + a /\ d.rows = 1
              /\ q.row = r.row + a + 1 /\ q.rows = b
              /\ p.col = r.col /\ p.cols = r.cols /\ d.col = r.col /\ d.cols = r.cols /\ q.col = r.col /\ q.cols = r.cols
  BY SharesAre
<1> HIDE DEF p, q, d
<1>3. ASSUME NEW e
      PROVE  /\ e \in CellsOf(p) \/ e \in CellsOf(q) => e \in CellsOf(r)
             /\ ~(e \in CellsOf(p) /\ e \in CellsOf(q))
             /\ Visible(r) => /\ e \in CellsOf(d) => e \in CellsOf(r) /\ e \notin CellsOf(p) /\ e \notin CellsOf(q)
                              /\ e \in CellsOf(r) => e \in CellsOf(p) \/ e \in CellsOf(q) \/ e \in CellsOf(d)
  <2> DEFINE In(s) == /\ e \in Nat \X Nat
                      /\ s.col <= e[1] /\ e[1] < s.col + s.cols /\ s.row <= e[2] /\ e[2] < s.row + s.rows
  <2>1. (e \in CellsOf(p) <=> In(p)) /\ (e \in CellsOf(q) <=> In(q)) /\ (e \in CellsOf(d) <=> In(d)) /\ (e \in CellsOf(r) <=> In(r))
    BY <1>2, CellsAre
  <2>2. CASE e \notin Nat \X Nat
    BY <2>1, <2>2
  <2>3. CASE e \in Nat \X Nat
    <3> DEFINE x == e[1]  y == e[2]
    <3>1. x \in Nat /\ y \in Nat
      BY <2>3
    <3> HIDE DEF x, y
    <3>2. \A s : In(s) <=> s.col <= x /\ x < s.col + s.cols /\ s.row <= y /\ y < s.row + s.rows
      BY <2>3 DEF x, y
    <3> HIDE DEF In
    <3>3. PICK a \in Nat, b \in Nat :
           \/ /\ a + b = Avail(r.cols) /\ p.col = r.col /\ p.cols = a /\ d.col = r.col + a /\ d.cols = 1
              /\ q.col = r.col + a + 1 /\ q.cols = b
              /\ p.row = r.row /\ p.rows = r.rows /\ d.row = r.row /\ d.rows = r.rows /\ q.row = r.row /\ q.rows = r.rows
           \/ /\ a + b = Avail(r.rows) /\ p.row = r.row /\ p.rows = a /\ d.row = r.row + a /\ d.rows = 1
              /\ q.row = r.row + a + 1 /\ q.rows = b
              /\ p.col = r.col /\ p.cols = r.cols /\ d.col = r.col /\ d.cols = r.cols /\ q.col = r.col /\ q.cols = r.cols
      BY <1>2
    <3>4. /\ In(p) <=> p.col <= x /\ x < p.col + p.cols /\ p.row <= y /\ y < p.row + p.rows
          /\ In(q) <=> q.col <= x /\ x < q.col + q.cols /\ q.row <= y /\ y < q.row + q.rows
          /\ In(d) <=> d.col <= x /\ x < d.col + d.cols /\ d.row <= y /\ y < d.row + d.rows
          /\ In(r) <=> r.col <= x /\ x < r.col + r.cols /\ r.row <= y /\ y < r.row + r.rows
      BY <3>2
    <3>5. /\ In(p) \/ In(q) => In(r)
          /\ ~(In(p) /\ In(q))
          /\ r.cols > 0 /\ r.rows > 0 => (In(d) => In(r) /\ ~In(p) /\ ~In(q)) /\ (In(r) => In(p) \/ In(q) \/ In(d))
      BY <1>1, <3>1, <3>3, <3>4 DEF Avail
    <3> QED
      BY <2>1, <3>5 DEF Visible
  <2> QED
    BY <2>2, <2>3
<1> QED
  BY <1>3 DEF p, q, d

\* A path that begins another and is not all of it goes one step further on it.
LEMMA GoesOn ==
  ASSUME NEW m \in Nodes, NEW n \in Nodes, IsPrefix(m, n), m # n
  PROVE  \E c \in {1, 2} : IsPrefix(Append(m, c), n)
<1>1. /\ Len(m) \in Nat /\ Len(n) \in Nat /\ \A i \in 1 .. Len(n) : n[i] \in {1, 2}
      /\ Len(m) <= Len(n) /\ \A i \in 1 .. Len(m) : m[i] = n[i]
  BY PrefixIs, Steps
<1>2. Len(m) < Len(n)
  BY <1>1, SamePath
<1> DEFINE c == n[Len(m) + 1]
<1>3. c \in {1, 2}
  BY <1>1, <1>2
<1>4. /\ Append(m, c) \in Nodes /\ Len(Append(m, c)) = Len(m) + 1 /\ Append(m, c)[Len(m) + 1] = n[Len(m) + 1]
      /\ \A i \in 1 .. Len(m) : Append(m, c)[i] = m[i]
  BY <1>3, Further
<1> DEFINE a == Append(m, c)
<1> HIDE DEF a
<1>5. Len(a) <= Len(n) /\ \A i \in 1 .. Len(a) : a[i] = n[i]
  BY <1>1, <1>2, <1>4 DEF a
<1>6. IsPrefix(a, n)
  BY <1>4, <1>5, PrefixIs DEF a
<1> QED
  BY <1>3, <1>6 DEF a

\* Two paths neither of which begins the other part at some node.
LEMMA Parts ==
  ASSUME NEW m \in Nodes, NEW n \in Nodes, ~IsPrefix(m, n), ~IsPrefix(n, m)
  PROVE  \E b \in Nodes : \E c, d \in {1, 2} : c # d /\ IsPrefix(Append(b, c), m) /\ IsPrefix(Append(b, d), n)
<1>1. Earlier(m, n) \/ Earlier(n, m)
  BY OneIsEarlier
<1>2. ASSUME NEW p \in Nodes, NEW q \in Nodes, Earlier(p, q)
      PROVE  \E b \in Nodes : \E c, d \in {1, 2} : c # d /\ IsPrefix(Append(b, c), p) /\ IsPrefix(Append(b, d), q)
  <2>1. /\ Len(p) \in Nat /\ DOMAIN p = 1 .. Len(p) /\ \A i \in 1 .. Len(p) : p[i] \in {1, 2}
        /\ Len(q) \in Nat /\ DOMAIN q = 1 .. Len(q) /\ \A i \in 1 .. Len(q) : q[i] \in {1, 2}
    BY Steps
  <2>2. PICK i \in DOMAIN p \cap DOMAIN q : p[i] < q[i] /\ \A j \in 1 .. i - 1 : p[j] = q[j]
    BY <1>2 DEF Earlier
  <2> DEFINE b == SubSeq(p, 1, i - 1)
  <2>3. i - 1 \in 0 .. Len(p)
    BY <2>1
  <2>4. b \in Nodes /\ Len(b) = i - 1 /\ \A j \in 1 .. i - 1 : b[j] = p[j]
    BY <2>3, Begins
  <2> HIDE DEF b
  <2>5. p[i] \in {1, 2} /\ q[i] \in {1, 2} /\ p[i] # q[i]
    BY <2>1, <2>2
  <2>6. ASSUME NEW s \in Nodes, i \in 1 .. Len(s), s[i] \in {1, 2}, Len(s) \in Nat, \A j \in 1 .. i - 1 : b[j] = s[j]
        PROVE  IsPrefix(Append(b, s[i]), s)
    <3> DEFINE a == Append(b, s[i])
    <3>1. a \in Nodes /\ Len(a) = Len(b) + 1 /\ a[Len(b) + 1] = s[i] /\ \A j \in 1 .. Len(b) : a[j] = b[j]
      BY <2>4, <2>6, Further
    <3> HIDE DEF a
    <3>2. Len(a) <= Len(s) /\ \A j \in 1 .. Len(a) : a[j] = s[j]
      BY <2>4, <2>6, <3>1
    <3> QED
      BY <3>1, <3>2, PrefixIs DEF a
  <2>7. IsPrefix(Append(b, p[i]), p)
    BY <2>1, <2>4, <2>5, <2>6
  <2>8. IsPrefix(Append(b, q[i]), q)
    BY <2>1, <2>2, <2>4, <2>5, <2>6
  <2> QED
    BY <2>4, <2>5, <2>7, <2>8
<1>3. CASE Earlier(m, n)
  BY <1>2, <1>3
<1>4. CASE Earlier(n, m)
  BY <1>2, <1>4
<1> QED
  BY <1>1, <1>3, <1>4

\* Every node on the way to a node of a tree is in it, and those before the last
\* are splits.
LEMMA OnTheWay ==
  ASSUME NEW t, IsTree(t), NEW n \in DOMAIN t, NEW m \in Nodes, NEW c \in {1, 2}
  PROVE  /\ IsPrefix(m, n) => m \in DOMAIN t
         /\ IsPrefix(Append(m, c), n) => m \in DOMAIN t \ Leaves(t) /\ Append(m, c) \in DOMAIN t
<1>1. n \in Nodes
  BY TreeNodes
<1>2. ASSUME NEW k \in Nodes, IsPrefix(k, n) PROVE k \in DOMAIN t
  <2>1. Len(k) \in 0 .. Len(n) /\ \A i \in 1 .. Len(k) : k[i] = n[i]
    BY <1>1, <1>2, PrefixIs, Steps
  <2>2. SubSeq(n, 1, Len(k)) \in Nodes /\ Len(SubSeq(n, 1, Len(k))) = Len(k)
        /\ \A i \in 1 .. Len(k) : SubSeq(n, 1, Len(k))[i] = n[i]
    BY <1>1, <2>1, Begins
  <2> DEFINE s == SubSeq(n, 1, Len(k))
  <2>3. s \in DOMAIN t
    BY <2>1 DEF IsTree
  <2> HIDE DEF s
  <2>4. s = k
    BY <2>1, <2>2, SamePath DEF s
  <2> QED
    BY <2>3, <2>4
<1>3. ASSUME IsPrefix(Append(m, c), n) PROVE m \in DOMAIN t \ Leaves(t) /\ Append(m, c) \in DOMAIN t
  <2>1. /\ Append(m, c) \in Nodes /\ Len(Append(m, c)) = Len(m) + 1
        /\ \A i \in 1 .. Len(m) : Append(m, c)[i] = m[i]
    BY Further
  <2> DEFINE a == Append(m, c)
  <2>2. a \in DOMAIN t
    BY <1>2, <1>3, <2>1
  <2>3. Len(m) <= Len(n) /\ \A i \in 1 .. Len(m) : m[i] = n[i]
    <3> HIDE DEF a
    <3>1. Len(a) <= Len(n) /\ \A i \in 1 .. Len(a) : a[i] = n[i]
      BY <1>1, <1>3, <2>1, PrefixIs DEF a
    <3> QED
      BY <1>1, <2>1, <3>1, Steps DEF a
  <2>4. m \in DOMAIN t
    BY <1>1, <1>2, <2>3, PrefixIs
  <2>5. m \notin Leaves(t)
    <3>1. Append(m, 1) \in DOMAIN t <=> Append(m, 2) \in DOMAIN t
      BY <2>4 DEF IsTree
    <3> QED
      BY <2>2, <3>1 DEF Leaves, IsLeaf
  <2> QED
    BY <2>2, <2>4, <2>5
<1> QED
  BY <1>2, <1>3

\* A split has two children, which have its halves.
LEMMA ChildrenAre ==
  ASSUME NEW t, IsTree(t), NEW w \in Grids, NEW m \in DOMAIN t \ Leaves(t), NEW c \in {1, 2}
  PROVE  Append(m, c) \in DOMAIN t /\ Walk(t, w)[Append(m, c)] = SplitRect(Walk(t, w)[m], t[m], c)
<1>1. m \in Nodes
  BY TreeNodes
<1>2. Append(m, 1) \in DOMAIN t /\ Append(m, 2) \in DOMAIN t
  BY DEF IsTree, Leaves, IsLeaf
<1> DEFINE a == Append(m, c)
<1>3. a \in DOMAIN t
  BY <1>2
<1>4. a \in Nodes /\ Len(a) = Len(m) + 1 /\ a[Len(m) + 1] = c /\ \A i \in 1 .. Len(m) : a[i] = m[i]
  BY <1>1, Further
<1> HIDE DEF a
<1>5. Len(m) \in Nat /\ a # <<>>
  BY <1>1, <1>4, Steps
<1>6. Last(a) = c
  BY <1>4 DEF Last
<1>7. Front(a) = m
  <2>1. Front(a) = SubSeq(a, 1, Len(m)) /\ Len(m) \in 0 .. Len(a)
    BY <1>4, <1>5, LastStep
  <2>2. Front(a) \in Nodes /\ Len(Front(a)) = Len(m) /\ \A i \in 1 .. Len(m) : Front(a)[i] = a[i]
    BY <1>4, <2>1, Begins
  <2> QED
    BY <1>1, <1>4, <2>2, SamePath
<1>8. Walk(t, w)[a] = SplitRect(Walk(t, w)[Front(a)], t[Front(a)], Last(a))
  BY <1>3, <1>5, WalkIs
<1> QED
  BY <1>3, <1>6, <1>7, <1>8 DEF a

\* A node and its rectangle are ones.
LEMMA NodeIs ==
  ASSUME NEW t, IsTree(t), NEW w \in Grids, NEW n \in DOMAIN t
  PROVE  Walk(t, w)[n] \in Rectangles /\ t[n] \in NodeInfo
<1>1. Walk(t, w) \in [DOMAIN t -> Rectangles]
  BY WalkIs
<1>2. t \in [DOMAIN t -> NodeInfo]
  BY DEF IsTree, NodeInfo
<1> QED
  BY <1>1, <1>2

\* The cells of a node are among those of every node it is under.
LEMMA Within ==
  ASSUME NEW t, IsTree(t), NEW w \in Grids, NEW n \in DOMAIN t, NEW m \in Nodes, IsPrefix(m, n)
  PROVE  CellsOf(Walk(t, w)[n]) \subseteq CellsOf(Walk(t, w)[m])
<1> DEFINE r == Walk(t, w)  In(k) == CellsOf(r[k])
           Left == {j \in Nat : \E k \in DOMAIN t : IsPrefix(k, n) /\ j = Len(n) - Len(k) /\ ~(In(n) \subseteq In(k))}
<1>1. n \in Nodes /\ m \in DOMAIN t /\ DOMAIN t \subseteq Nodes /\ Len(n) \in Nat
  BY OnTheWay, TreeNodes, Steps
<1> SUFFICES ASSUME ~(In(n) \subseteq In(m)) PROVE FALSE
  OBVIOUS
<1>2. Left # {} /\ Left \subseteq Nat
  <2>1. Len(n) - Len(m) \in Nat
    BY <1>1, PrefixIs, Steps
  <2> HIDE DEF In
  <2> QED
    BY <1>1, <2>1
<1>3. PICK j \in Left : \A i \in Left : j <= i
  BY <1>2, Least
<1>4. PICK k \in DOMAIN t : IsPrefix(k, n) /\ j = Len(n) - Len(k) /\ ~(In(n) \subseteq In(k))
  BY <1>3
<1>5. k \in Nodes /\ k # n /\ Len(k) \in Nat
  BY <1>1, <1>4, Steps
<1>6. PICK c \in {1, 2} : IsPrefix(Append(k, c), n)
  BY <1>1, <1>4, <1>5, GoesOn
<1>7. k \in DOMAIN t \ Leaves(t) /\ Append(k, c) \in DOMAIN t
  BY <1>5, <1>6, OnTheWay
<1>8. Append(k, c) \in Nodes /\ Len(Append(k, c)) = Len(k) + 1 /\ Len(Append(k, c)) <= Len(n)
  BY <1>1, <1>5, <1>6, Further, PrefixIs
<1>9. In(Append(k, c)) \subseteq In(k)
  <2>1. r[k] \in Rectangles /\ t[k] \in NodeInfo
    BY <1>4, NodeIs
  <2>2. r[Append(k, c)] = SplitRect(r[k], t[k], c)
    BY <1>7, ChildrenAre
  <2>3. CellsOf(SplitRect(r[k], t[k], c)) \subseteq CellsOf(r[k])
    BY <2>1, HalvesShare
  <2> QED
    BY <2>2, <2>3
<1>10. ~(In(n) \subseteq In(Append(k, c)))
  BY <1>4, <1>9
<1>11. Len(n) - Len(Append(k, c)) \in Left
  <2> HIDE DEF In
  <2>1. Len(n) - Len(Append(k, c)) \in Nat
    BY <1>1, <1>5, <1>8
  <2> QED
    BY <1>6, <1>7, <1>10, <2>1
<1> HIDE DEF Left
<1> QED
  BY <1>1, <1>3, <1>4, <1>5, <1>8, <1>11

\* What a leaf owns is what it has, and what a split with cells to share owns is
\* its divider, among its own cells.
LEMMA OwnedIs ==
  ASSUME NEW t, IsTree(t), NEW w \in Grids, NEW n \in DOMAIN t
  PROVE  /\ DOMAIN Owned(t, w) = DOMAIN t
         /\ n \in Leaves(t) => Owned(t, w)[n] = CellsOf(Walk(t, w)[n])
         /\ n \notin Leaves(t) => Owned(t, w)[n] = CellsOf(Divider(Walk(t, w)[n], t[n]))
         /\ n \in Leaves(t) \/ Visible(Walk(t, w)[n]) => Owned(t, w)[n] \subseteq CellsOf(Walk(t, w)[n])
<1> DEFINE r == Walk(t, w)
<1>1. DOMAIN Owned(t, w) = DOMAIN t /\ Owned(t, w)[n] = CellsOf(IF IsLeaf(t, n) THEN r[n] ELSE Divider(r[n], t[n]))
  BY DEF Owned
<1>2. n \in Leaves(t) <=> IsLeaf(t, n)
  BY DEF Leaves
<1>3. r[n] \in Rectangles /\ t[n] \in NodeInfo
  BY NodeIs
<1>4. Visible(r[n]) => CellsOf(Divider(r[n], t[n])) \subseteq CellsOf(r[n])
  BY <1>3, HalvesShare
<1> QED
  BY <1>1, <1>2, <1>4

\* No cell has two owners.
LEMMA OwnedApart ==
  ASSUME NEW t, IsTree(t), NEW w \in Grids, NEW m \in DOMAIN t, NEW n \in DOMAIN t, m # n,
         m \in Leaves(t) \/ Visible(Walk(t, w)[m]), n \in Leaves(t) \/ Visible(Walk(t, w)[n])
  PROVE  Owned(t, w)[m] \cap Owned(t, w)[n] = {}
<1> DEFINE r == Walk(t, w)  Sharing(k) == k \in Leaves(t) \/ Visible(r[k])
<1>1. m \in Nodes /\ n \in Nodes
  BY TreeNodes
<1>2. \A k \in DOMAIN t : r[k] \in Rectangles /\ t[k] \in NodeInfo
  BY NodeIs
<1>3. ASSUME NEW k \in DOMAIN t, NEW l \in DOMAIN t, Sharing(k), Sharing(l), IsPrefix(k, l), k # l
      PROVE  Owned(t, w)[k] \cap Owned(t, w)[l] = {}
  <2>1. k \in Nodes /\ l \in Nodes /\ k \notin Leaves(t)
    BY <1>3, LeavesApart, TreeNodes
  <2>2. PICK c \in {1, 2} : IsPrefix(Append(k, c), l)
    BY <1>3, <2>1, GoesOn
  <2>3. Append(k, c) \in Nodes
    BY <2>1, Further
  <2>4. Owned(t, w)[l] \subseteq CellsOf(r[Append(k, c)])
    <3>1. Owned(t, w)[l] \subseteq CellsOf(r[l])
      BY <1>3, OwnedIs
    <3>2. CellsOf(r[l]) \subseteq CellsOf(r[Append(k, c)])
      BY <2>2, <2>3, Within
    <3> QED
      BY <3>1, <3>2
  <2>5. r[Append(k, c)] = SplitRect(r[k], t[k], c)
    BY <2>1, ChildrenAre
  <2>6. CellsOf(Divider(r[k], t[k])) \cap CellsOf(SplitRect(r[k], t[k], c)) = {}
    <3>1. Visible(r[k])
      BY <1>3, <2>1
    <3>2. CellsOf(Divider(r[k], t[k])) \cap (CellsOf(SplitRect(r[k], t[k], 1)) \cup CellsOf(SplitRect(r[k], t[k], 2))) = {}
      BY <1>2, <3>1, HalvesShare
    <3>3. c = 1 \/ c = 2
      OBVIOUS
    <3> QED
      BY <3>2, <3>3
  <2>7. Owned(t, w)[k] = CellsOf(Divider(r[k], t[k]))
    BY <2>1, OwnedIs
  <2> QED
    BY <2>4, <2>5, <2>6, <2>7
<1>4. CASE IsPrefix(m, n)
  BY <1>3, <1>4
<1>5. CASE IsPrefix(n, m)
  <2>1. Owned(t, w)[n] \cap Owned(t, w)[m] = {}
    BY <1>3, <1>5
  <2> QED
    BY <2>1
<1>6. CASE ~IsPrefix(m, n) /\ ~IsPrefix(n, m)
  <2>1. PICK b \in Nodes : \E c, d \in {1, 2} : c # d /\ IsPrefix(Append(b, c), m) /\ IsPrefix(Append(b, d), n)
    BY <1>1, <1>6, Parts
  <2>2. PICK c \in {1, 2}, d \in {1, 2} : c # d /\ IsPrefix(Append(b, c), m) /\ IsPrefix(Append(b, d), n)
    BY <2>1
  <2>3. b \in DOMAIN t \ Leaves(t) /\ Append(b, c) \in Nodes /\ Append(b, d) \in Nodes
    BY <2>2, OnTheWay, Further
  <2>4. CellsOf(r[m]) \subseteq CellsOf(r[Append(b, c)]) /\ CellsOf(r[n]) \subseteq CellsOf(r[Append(b, d)])
    BY <2>2, <2>3, Within
  <2>5. r[Append(b, c)] = SplitRect(r[b], t[b], c) /\ r[Append(b, d)] = SplitRect(r[b], t[b], d)
    BY <2>3, ChildrenAre
  <2>6. CellsOf(SplitRect(r[b], t[b], c)) \cap CellsOf(SplitRect(r[b], t[b], d)) = {}
    <3>1. CellsOf(SplitRect(r[b], t[b], 1)) \cap CellsOf(SplitRect(r[b], t[b], 2)) = {}
      BY <1>2, <2>3, HalvesShare
    <3>2. (c = 1 /\ d = 2) \/ (c = 2 /\ d = 1)
      BY <2>2
    <3> QED
      BY <3>1, <3>2
  <2>7. Owned(t, w)[m] \subseteq CellsOf(r[m]) /\ Owned(t, w)[n] \subseteq CellsOf(r[n])
    BY OwnedIs
  <2> QED
    BY <2>4, <2>5, <2>6, <2>7
<1> QED
  BY <1>4, <1>5, <1>6

\* The empty path begins every other.
LEMMA RootBegins == ASSUME NEW n \in Nodes PROVE <<>> \in Nodes /\ IsPrefix(<<>>, n)
<1>1. <<>> \in Nodes /\ Len(<<>>) = 0 /\ Len(n) \in Nat
  BY DEF Nodes
<1> QED
  BY <1>1, PrefixIs

\* Each cell of the grid has an owner, while every split has cells to share.
LEMMA AllOwned ==
  ASSUME NEW t, IsTree(t), NEW w \in Grids, \A n \in DOMAIN t \ Leaves(t) : Visible(Walk(t, w)[n]),
         NEW e \in CellsOf(Full(w))
  PROVE  \E n \in DOMAIN t : e \in Owned(t, w)[n]
<1> DEFINE r == Walk(t, w)  C == Cardinality(DOMAIN t)
           Left == {j \in Nat : \E k \in DOMAIN t : e \in CellsOf(r[k]) /\ j = C - Len(k)}
<1>1. \A k \in DOMAIN t : k \in Nodes /\ Len(k) \in Nat /\ C \in Nat /\ Len(k) < C /\ r[k] \in Rectangles /\ t[k] \in NodeInfo
  <2> SUFFICES ASSUME NEW k \in DOMAIN t
               PROVE  k \in Nodes /\ Len(k) \in Nat /\ C \in Nat /\ Len(k) < C /\ r[k] \in Rectangles /\ t[k] \in NodeInfo
    OBVIOUS
  <2>1. k \in Nodes /\ r[k] \in Rectangles /\ t[k] \in NodeInfo
    BY TreeNodes, NodeIs
  <2> QED
    BY <2>1, Steps, PathsBounded
<1>2. <<>> \in DOMAIN t /\ r[<<>>] = Full(w)
  <2>1. <<>> \in DOMAIN t
    BY DEF IsTree
  <2> QED
    BY <2>1, WalkIs
<1>3. Left # {} /\ Left \subseteq Nat
  <2>1. C - Len(<<>>) \in Nat
    BY <1>1, <1>2
  <2> HIDE DEF C
  <2> QED
    BY <1>2, <2>1
<1>4. PICK j \in Left : \A i \in Left : j <= i
  BY <1>3, Least
<1>5. PICK k \in DOMAIN t : e \in CellsOf(r[k]) /\ j = C - Len(k)
  BY <1>4
<1>6. CASE k \in Leaves(t)
  BY <1>5, <1>6, OwnedIs
<1>7. CASE k \notin Leaves(t)
  <2>1. CellsOf(r[k]) \subseteq CellsOf(SplitRect(r[k], t[k], 1)) \cup CellsOf(SplitRect(r[k], t[k], 2))
                                \cup CellsOf(Divider(r[k], t[k]))
    BY <1>1, <1>7, HalvesShare
  <2>2. ASSUME NEW c \in {1, 2}, e \in CellsOf(SplitRect(r[k], t[k], c)) PROVE FALSE
    <3>1. Append(k, c) \in DOMAIN t /\ r[Append(k, c)] = SplitRect(r[k], t[k], c)
      BY <1>7, ChildrenAre
    <3>2. Len(Append(k, c)) = Len(k) + 1
      BY <1>1, Further
    <3> DEFINE a == Append(k, c)
    <3>3. a \in DOMAIN t /\ e \in CellsOf(r[a]) /\ Len(a) = Len(k) + 1
      BY <2>2, <3>1, <3>2
    <3> HIDE DEF a, C, r
    <3>4. C - Len(a) \in Nat /\ C - Len(a) < j
      BY <1>1, <1>5, <3>3
    <3>5. C - Len(a) \in Left
      BY <3>3, <3>4
    <3> HIDE DEF Left
    <3> QED
      BY <1>3, <1>4, <3>4, <3>5
  <2>3. e \in CellsOf(Divider(r[k], t[k]))
    BY <1>5, <2>1, <2>2
  <2> QED
    BY <1>7, <2>3, OwnedIs
<1> QED
  BY <1>6, <1>7

\* The cells of the grid are shared out once, whatever the layout.
LEMMA SharedOnce == DeskInv => CellsOwnedOnce
<1> SUFFICES ASSUME DeskInv, NEW i \in DOMAIN tabs, tabs[i].tree # Empty
             PROVE  LET t == tabs[i].tree  own == Owned(t, window)  grid == CellsOf(Full(window))
                        Apart(ns) == \A m, n \in ns : m # n => own[m] \cap own[n] = {}
                    IN /\ Apart(Leaves(t)) /\ \A n \in Leaves(t) : own[n] \subseteq grid
                       /\ (\A n \in DOMAIN t \ Leaves(t) : Visible(Walk(t, window)[n])) =>
                            Apart(DOMAIN t) /\ UNION Range(own) = grid
  BY DEF CellsOwnedOnce
<1> DEFINE t == tabs[i].tree  own == Owned(t, window)  grid == CellsOf(Full(window))
           Apart(ns) == \A m, n \in ns : m # n => own[m] \cap own[n] = {}
<1>1. window \in Grids /\ IsTree(t)
  BY WindowsAre, DeskIs DEF DeskInv, TabsSound, TabSound, Layout, Proper
<1> HIDE DEF t
<1>2. Leaves(t) \subseteq DOMAIN t
  BY <1>1, TreeNodes
<1>3. Apart(Leaves(t))
  BY <1>1, <1>2, OwnedApart
<1>4. ASSUME NEW n \in DOMAIN t, n \in Leaves(t) \/ Visible(Walk(t, window)[n])
      PROVE  own[n] \subseteq grid
  <2>1. own[n] \subseteq CellsOf(Walk(t, window)[n])
    BY <1>1, <1>4, OwnedIs
  <2>2. n \in Nodes
    BY <1>1, TreeNodes
  <2>3. CellsOf(Walk(t, window)[n]) \subseteq CellsOf(Walk(t, window)[<<>>])
    BY <1>1, <2>2, RootBegins, Within
  <2>4. Walk(t, window)[<<>>] = Full(window)
    BY <1>1, WalkIs
  <2> QED
    BY <2>1, <2>3, <2>4
<1>5. ASSUME \A n \in DOMAIN t \ Leaves(t) : Visible(Walk(t, window)[n])
      PROVE  Apart(DOMAIN t) /\ UNION Range(own) = grid
  <2>1. Apart(DOMAIN t)
    BY <1>1, <1>5, OwnedApart
  <2>2. DOMAIN own = DOMAIN t
    <3>1. <<>> \in DOMAIN t
      BY <1>1 DEF IsTree
    <3> QED
      BY <1>1, <3>1, OwnedIs
  <2>3. \A e \in grid : \E n \in DOMAIN t : e \in own[n]
    BY <1>1, <1>5, AllOwned
  <2>4. \A n \in DOMAIN t : own[n] \subseteq grid
    BY <1>4, <1>5
  <2> HIDE DEF own, grid
  <2>5. UNION Range(own) = grid
    BY <2>2, <2>3, <2>4 DEF Range
  <2> QED
    BY <2>1, <2>5
<1> QED
  BY <1>2, <1>3, <1>4, <1>5 DEF t

----------------------------------------------------------------------------
(* The sizes that servers were told.                                       *)

\* Every pane of a tab with a cell to click has the size its server was told, or
\* is the tab's own with the whole grid; before the first split it has that.
Told(t, w) ==
  /\ t.tree = Empty => t.panes[0].size = w
  /\ LET rects == Rects(t.tree, t.zoom, w) IN
     0 \in DOMAIN rects => \A p \in Clickable(rects) :
       \/ t.panes[p].size = [cols |-> rects[p].cols, rows |-> rects[p].rows]
       \/ (p = 0 /\ t.panes[p].size = w)
AllTold == \A i \in 1 .. Len(tabs) : Told(tabs[i], window)

\* A tab laid out as another, of which at most the own pane was told anything, and
\* that the whole grid.
SameSizes(t, s, w) ==
  /\ s.tree = t.tree /\ s.zoom = t.zoom
  /\ \A p \in DOMAIN t.panes : s.panes[p].size = t.panes[p].size \/ (p = 0 /\ s.panes[p].size = w)

LEMMA SameTold ==
  ASSUME NEW t, TabSound(t), NEW w \in Grids, Told(t, w), NEW s, SameSizes(t, s, w)
  PROVE  Told(s, w)
<1> DEFINE rects == Rects(t.tree, t.zoom, w)
<1>1. DOMAIN rects = PanesOf(t.tree) /\ PanesOf(t.tree) \subseteq DOMAIN t.panes /\ 0 \in DOMAIN t.panes
  BY RectsAre DEF TabSound, Layout
<1>2. rects = Rects(s.tree, s.zoom, w) /\ s.tree = t.tree
  BY DEF SameSizes
<1> HIDE DEF rects
<1>3. t.tree = Empty => s.panes[0].size = w
  BY <1>1 DEF Told, SameSizes
<1>4. ASSUME 0 \in DOMAIN rects, NEW p \in Clickable(rects)
      PROVE  s.panes[p].size = [cols |-> rects[p].cols, rows |-> rects[p].rows] \/ (p = 0 /\ s.panes[p].size = w)
  <2>1. t.panes[p].size = [cols |-> rects[p].cols, rows |-> rects[p].rows] \/ (p = 0 /\ t.panes[p].size = w)
    BY <1>4 DEF Told, rects
  <2>2. p \in DOMAIN t.panes
    BY <1>1, <1>4 DEF Clickable
  <2> QED
    BY <2>1, <2>2 DEF SameSizes
<1> QED
  BY <1>2, <1>3, <1>4 DEF Told

\* A layout of one pane has no other.
LEMMA Alone ==
  ASSUME NEW t, Proper(t), Count(t) <= 1, NEW p \in PanesOf(t), NEW q \in PanesOf(t)
  PROVE  p = q
<1>1. LeafOf(t, p) \in Leaves(t) /\ LeafOf(t, q) \in Leaves(t) /\ t[LeafOf(t, p)].pane = p /\ t[LeafOf(t, q)].pane = q
  BY LeafOfIs
<1>2. IsFiniteSet(Leaves(t)) /\ Count(t) \in Nat /\ Count(t) = Cardinality(Leaves(t))
  BY TreeNodes DEF Proper, Count
<1>3. Count(t) # 0
  BY <1>1, <1>2, FS_EmptySet
<1>4. Cardinality(Leaves(t)) = 1
  BY <1>2, <1>3
<1>5. \E n : Leaves(t) = {n}
  BY <1>2, <1>4, FS_Singleton
<1> QED
  BY <1>1, <1>5

\* A tab that has been laid out.
LEMMA SizedTold ==
  ASSUME NEW t, NEW w \in Grids, TabSound(SizeTab(t, w))
  PROVE  Told(SizeTab(t, w), w)
<1> DEFINE rects == Rects(t.tree, t.zoom, w)
           NewSize(p) == IF Count(t.tree) <= 1 THEN IF p = 0 THEN w ELSE Unfollowed
                         ELSE IF p \in DOMAIN rects /\ Visible(rects[p])
                              THEN [cols |-> rects[p].cols, rows |-> rects[p].rows]
                              ELSE Unfollowed
           f == [p \in DOMAIN t.panes |-> [t.panes[p] EXCEPT !.size = NewSize(p)]]
           s == SizeTab(t, w)
<1>1. s = [t EXCEPT !.panes = f]
  BY DEF SizeTab
<1>2. s \in TabRecs /\ Layout(s.tree) /\ PanesOf(s.tree) \subseteq DOMAIN s.panes /\ 0 \in DOMAIN s.panes
  BY DEF TabSound
<1> HIDE DEF s, f
<1>3. s.tree = t.tree /\ s.zoom = t.zoom /\ s.panes = f
  <2>1. DOMAIN s = DOMAIN t /\ {"tree", "zoom", "panes"} \subseteq DOMAIN s
    BY <1>1, <1>2 DEF TabRecs
  <2> QED
    BY <1>1, <2>1
<1>4. ASSUME NEW p \in DOMAIN s.panes PROVE s.panes[p].size = NewSize(p)
  <2>1. s.panes[p] \in Sessions
    BY <1>2, <1>4, PaneMapsAre DEF TabRecs
  <2>2. p \in DOMAIN t.panes /\ f[p] = [t.panes[p] EXCEPT !.size = NewSize(p)]
    BY <1>3, <1>4 DEF f
  <2> DEFINE x == t.panes[p]  y == f[p]
  <2>3. y = [x EXCEPT !.size = NewSize(p)] /\ y \in Sessions
    BY <1>3, <2>1, <2>2
  <2> HIDE DEF x, y, NewSize
  <2>4. DOMAIN y = DOMAIN x /\ "size" \in DOMAIN y
    BY <2>3 DEF Sessions
  <2>5. y.size = NewSize(p)
    BY <2>3, <2>4
  <2> QED
    BY <1>3, <2>5 DEF y
<1>5. s.tree = Empty => s.panes[0].size = w
  BY <1>2, <1>3, <1>4, NoPanes
<1>6. DOMAIN rects = PanesOf(s.tree)
  BY <1>2, <1>3, RectsAre DEF Layout
<1>7. ASSUME 0 \in DOMAIN rects, NEW p \in Clickable(rects)
      PROVE  s.panes[p].size = [cols |-> rects[p].cols, rows |-> rects[p].rows] \/ (p = 0 /\ s.panes[p].size = w)
  <2>1. p \in DOMAIN rects /\ Visible(rects[p])
    BY <1>7 DEF Clickable
  <2>2. p \in PanesOf(s.tree) /\ 0 \in PanesOf(s.tree) /\ s.panes[p].size = NewSize(p)
    BY <1>2, <1>4, <1>6, <1>7, <2>1
  <2>3. CASE Count(t.tree) <= 1
    <3>1. Proper(s.tree)
      BY <1>2, <2>2, NoPanes DEF Layout
    <3>2. p = 0
      BY <1>3, <2>2, <2>3, <3>1, Alone
    <3> QED
      BY <2>2, <2>3, <3>2
  <2>4. CASE ~(Count(t.tree) <= 1)
    BY <2>1, <2>2, <2>4
  <2> QED
    BY <2>3, <2>4
<1> HIDE DEF NewSize
<1>8. rects = Rects(s.tree, s.zoom, w)
  BY <1>3
<1> HIDE DEF rects
<1> QED
  BY <1>5, <1>7, <1>8 DEF Told, s

\* A tab with one pane of its own, before the first split and after it was tried.
LEMMA NewTold ==
  ASSUME NEW id, NEW profile
  PROVE  Told(NewTab(id, profile), window)
<1> DEFINE t == NewTab(id, profile)
<1>1. t.tree = Empty /\ t.panes[0].size = window /\ t.zoom = NoPane
  BY DEF NewTab, Session
<1> HIDE DEF t
<1>2. DOMAIN Rects(t.tree, t.zoom, window) = {}
  BY <1>1, NoPanes DEF Rects
<1> QED
  BY <1>1, <1>2 DEF Told, t

LEMMA StartedTold ==
  ASSUME NEW t, TabSound(t), NEW w \in Grids, Told(t, w)
  PROVE  Told(Started(t), w)
<1>1. CASE t.tree # Empty
  BY <1>1 DEF Started
<1>2. CASE t.tree = Empty
  <2> DEFINE s == Started(t)
  <2>1. s.tree = Single(0) /\ s.panes = t.panes
    BY <1>2 DEF Started, TabSound, TabRecs
  <2> HIDE DEF s
  <2>2. s.panes[0].size = w
    BY <1>2, <2>1 DEF Told
  <2>3. \A p \in Clickable(Rects(s.tree, s.zoom, w)) : p = 0
    <3>1. DOMAIN Rects(s.tree, s.zoom, w) = {0}
      BY <2>1, SingleIs DEF Rects
    <3> QED
      BY <3>1 DEF Clickable
  <2> QED
    BY <2>2, <2>3 DEF Told, s
<1> QED
  BY <1>1, <1>2

\* Everything laid out again.
LEMMA LaidOut ==
  ASSUME DeskInv', NEW ts, tabs' = UpdateGridDims(ts, window')
  PROVE  AllTold'
<1>1. TabsSound(tabs') /\ window' \in Grids
  BY DeskAssumption DEF DeskInv, Grids
<1>2. DOMAIN tabs' = 1 .. Len(tabs') /\ \A i \in 1 .. Len(tabs') : TabSound(tabs'[i])
  BY <1>1, TabsAre DEF TabsSound
<1>3. DOMAIN tabs' = DOMAIN ts /\ \A i \in DOMAIN ts : tabs'[i] = SizeTab(ts[i], window')
  BY DEF UpdateGridDims
<1>4. ASSUME NEW i \in 1 .. Len(tabs') PROVE Told(tabs'[i], window')
  BY <1>1, <1>2, <1>3, SizedTold
<1> QED
  BY <1>4 DEF AllTold

\* Every tab has the sizes one had, or is told.
LEMMA MatchTold ==
  ASSUME DeskInv, AllTold, window' = window,
         \A j \in 1 .. Len(tabs') : Told(tabs'[j], window) \/ \E i \in 1 .. Len(tabs) : SameSizes(tabs[i], tabs'[j], window)
  PROVE  AllTold'
<1>1. window \in Grids /\ \A i \in 1 .. Len(tabs) : TabSound(tabs[i]) /\ Told(tabs[i], window)
  BY DeskIs DEF AllTold
<1>2. ASSUME NEW j \in 1 .. Len(tabs'), NEW i \in 1 .. Len(tabs), SameSizes(tabs[i], tabs'[j], window)
      PROVE  Told(tabs'[j], window)
  BY <1>1, <1>2, SameTold
<1> QED
  BY <1>2 DEF AllTold

LEMMA SameSizesSelf == ASSUME NEW t, NEW w PROVE SameSizes(t, t, w)
  BY DEF SameSizes

LEMMA SameSizesThen ==
  ASSUME NEW t, NEW s, NEW r, NEW w, SameSizes(t, s, w), SameSizes(s, r, w), DOMAIN s.panes = DOMAIN t.panes
  PROVE  SameSizes(t, r, w)
  BY DEF SameSizes

\* The tab in front replaced by one with its sizes, or one that is told.
LEMMA FrontTold ==
  ASSUME DeskInv, DeskInv', AllTold, active # 0, NEW s, SetCur(s), window' = window,
         SameSizes(Cur, s, window) \/ Told(s, window)
  PROVE  AllTold'
<1>1. active \in 1 .. Len(tabs) /\ DOMAIN tabs = 1 .. Len(tabs)
  BY CurIs, DeskIs
<1>2. DOMAIN tabs' = 1 .. Len(tabs')
  <2>1. TabsSound(tabs')
    BY DEF DeskInv
  <2> QED
    BY <2>1, TabsAre
<1>3. 1 .. Len(tabs') = 1 .. Len(tabs) /\ \A j \in 1 .. Len(tabs) : tabs'[j] = IF j = active THEN s ELSE tabs[j]
  BY <1>1, <1>2 DEF SetCur
<1>4. ASSUME NEW j \in 1 .. Len(tabs')
      PROVE  Told(tabs'[j], window) \/ \E i \in 1 .. Len(tabs) : SameSizes(tabs[i], tabs'[j], window)
  <2>1. CASE j = active
    BY <1>1, <1>3, <2>1 DEF Cur
  <2>2. CASE j # active
    BY <1>3, <2>2, SameSizesSelf
  <2> QED
    BY <2>1, <2>2
<1> QED
  BY <1>4, MatchTold

LEMMA SplitTold == ASSUME DeskInv, DeskInv', AllTold, SplitPane PROVE AllTold'
<1>1. active # 0 /\ window' = window
  BY DEF SplitPane, Others
<1>2. PICK dir \in {"V", "H"} : SplitFor(Cur.panes[Cur.focus].profile, dir)
  BY DEF SplitPane
<1> DEFINE t == Cur  profile == t.panes[t.focus].profile  a == AddPane(t, profile, dir)
<1>3. IF a.next = t.next THEN SetCur(a) ELSE LayOut(a)
  BY <1>2 DEF SplitFor
<1>4. TabSound(t) /\ window \in Windows /\ window \in Grids /\ Told(t, window)
  BY <1>1, CurIs DEF AllTold, Cur
<1>5. profile \in Profiles \cup {AdHoc}
  BY <1>4, PaneMapsAre DEF TabSound, TabRecs, Sessions
<1>6. t.next \in Nat
  BY <1>4 DEF TabSound, TabRecs
<1> HIDE DEF t, profile
<1>7. a.next = t.next => a = Started(t)
  BY <1>4, <1>5, <1>6, AddPaneIs
<1> HIDE DEF a
<1>8. CASE a.next = t.next
  <2>1. Told(a, window)
    BY <1>4, <1>7, <1>8, StartedTold
  <2>2. SetCur(a)
    BY <1>3, <1>8
  <2> QED
    BY <1>1, <2>1, <2>2, FrontTold
<1>9. CASE a.next # t.next
  <2>1. LayOut(a)
    BY <1>3, <1>9
  <2> QED
    BY <1>1, <2>1, LaidOut DEF LayOut
<1> QED
  BY <1>8, <1>9

\* Whatever lays the tab in front out again.
LEMMA LayOutTold ==
  ASSUME DeskInv', CloseSplit \/ MovePane \/ SwapPaneWith \/ ResizePane \/ RotatePane \/ ToggleZoomPane
  PROVE  AllTold'
<1>1. window' = window
  BY DEF CloseSplit, MovePane, SwapPaneWith, ResizePane, RotatePane, ToggleZoomPane, Rest, Rearranges, Others
<1>2. \E t : LayOut(t)
  <2>1. CASE CloseSplit
    BY <2>1, Zenon DEF CloseSplit
  <2>2. CASE MovePane
    BY <2>2, Zenon DEF MovePane
  <2>3. CASE SwapPaneWith
    BY <2>3, Zenon DEF SwapPaneWith
  <2>4. CASE ResizePane
    BY <2>4, Zenon DEF ResizePane
  <2>5. CASE RotatePane
    BY <2>5, Zenon DEF RotatePane
  <2>6. CASE ToggleZoomPane
    BY <2>6, Zenon DEF ToggleZoomPane
  <2> QED
    BY <2>1, <2>2, <2>3, <2>4, <2>5, <2>6
<1>3. PICK t : LayOut(t)
  BY <1>2
<1>4. tabs' = UpdateGridDims([tabs EXCEPT ![active] = t], window')
  BY <1>1, <1>3 DEF LayOut
<1> QED
  BY <1>4, LaidOut

\* Whatever changes the focus, the locks or the targets of the tab in front.
LEMMA FocusTold == ASSUME DeskInv, DeskInv', AllTold, FocusPane PROVE AllTold'
<1>1. active # 0 /\ window' = window
  BY DEF FocusPane, Rest, Others
<1>2. \E to : SetCur([Cur EXCEPT !.focus = to])
  BY Zenon DEF FocusPane
<1>3. PICK to : SetCur([Cur EXCEPT !.focus = to])
  BY <1>2
<1> DEFINE t == Cur  s == [t EXCEPT !.focus = to]
<1>4. t \in TabRecs
  BY <1>1, CurIs DEF TabSound
<1>5. SetCur(s)
  BY <1>3
<1> HIDE DEF t
<1>6. s.tree = t.tree /\ s.zoom = t.zoom /\ s.panes = t.panes
  BY <1>4 DEF TabRecs
<1> HIDE DEF s
<1>7. SameSizes(t, s, window)
  BY <1>6 DEF SameSizes
<1> QED
  BY <1>1, <1>5, <1>7, FrontTold DEF t

LEMMA TargetsTold ==
  ASSUME DeskInv, DeskInv', AllTold, PickBroadcastTargets \/ BroadcastAll \/ StopBroadcast
  PROVE  AllTold'
<1>1. active # 0 /\ window' = window
  BY DEF PickBroadcastTargets, BroadcastAll, StopBroadcast, Marks, Others
<1>2. \E b : SetCur([Cur EXCEPT !.broadcast = b])
  <2>1. CASE PickBroadcastTargets
    BY <2>1, Zenon DEF PickBroadcastTargets
  <2>2. CASE BroadcastAll
    BY <2>2, Zenon DEF BroadcastAll
  <2>3. CASE StopBroadcast
    BY <2>3, Zenon DEF StopBroadcast
  <2> QED
    BY <2>1, <2>2, <2>3
<1>3. PICK b : SetCur([Cur EXCEPT !.broadcast = b])
  BY <1>2
<1> DEFINE t == Cur  s == [t EXCEPT !.broadcast = b]
<1>4. t \in TabRecs
  BY <1>1, CurIs DEF TabSound
<1>5. SetCur(s)
  BY <1>3
<1> HIDE DEF t
<1>6. s.tree = t.tree /\ s.zoom = t.zoom /\ s.panes = t.panes
  BY <1>4 DEF TabRecs
<1> HIDE DEF s
<1>7. SameSizes(t, s, window)
  BY <1>6 DEF SameSizes
<1> QED
  BY <1>1, <1>5, <1>7, FrontTold DEF t

LEMMA LockTold == ASSUME DeskInv, DeskInv', AllTold, ToggleReadOnlyPane PROVE AllTold'
<1>1. active # 0 /\ window' = window
  BY DEF ToggleReadOnlyPane, Marks, Others
<1> DEFINE t == Cur  lock == ~t.panes[t.focus].readOnly  f == [t.panes EXCEPT ![t.focus].readOnly = lock]
           b == IF lock THEN WithoutFocus(t) ELSE t.broadcast
           s == [t EXCEPT !.panes = f, !.broadcast = b]
<1>2. TabSound(t)
  BY <1>1, CurIs
<1>3. SetCur(s)
  BY DEF ToggleReadOnlyPane
<1> HIDE DEF t
<1>4. t \in TabRecs /\ t.panes \in [DOMAIN t.panes -> Sessions]
  BY <1>2, PaneMapsAre DEF TabSound, TabRecs
<1> HIDE DEF lock, b
<1>5. \A p \in DOMAIN t.panes : f[p].size = t.panes[p].size
  BY <1>4 DEF Sessions
<1> HIDE DEF f
<1>6. s.tree = t.tree /\ s.zoom = t.zoom /\ s.panes = f
  BY <1>4 DEF TabRecs
<1> HIDE DEF s
<1>7. SameSizes(t, s, window)
  BY <1>5, <1>6 DEF SameSizes
<1> QED
  BY <1>1, <1>3, <1>7, FrontTold DEF t

\* A tab that is selected is given the whole grid.
LEMMA SelectedSizes ==
  ASSUME NEW ts, TabsSound(ts), NEW i \in 1 .. Len(ts)
  PROVE  \A j \in 1 .. Len(ts) : SameSizes(ts[j], Selected(ts, i)[j], window)
<1> DEFINE t == ts[i]  f == [t.panes EXCEPT ![0].size = window]  s == [t EXCEPT !.panes = f]
<1>1. DOMAIN ts = 1 .. Len(ts) /\ TabSound(t)
  BY TabsAre DEF TabsSound
<1>2. t \in TabRecs /\ 0 \in DOMAIN t.panes /\ t.panes \in [DOMAIN t.panes -> Sessions]
  BY <1>1, PaneMapsAre DEF TabSound, TabRecs
<1>3. Selected(ts, i) = [ts EXCEPT ![i] = s]
  <2>1. i \in DOMAIN ts /\ t = ts[i]
    BY <1>1
  <2> QED
    BY <1>2, <2>1 DEF Selected
<1> HIDE DEF t
<1>4. f[0].size = window /\ \A p \in DOMAIN t.panes : p # 0 => f[p] = t.panes[p]
  BY <1>2 DEF Sessions
<1> HIDE DEF f
<1>5. s.tree = t.tree /\ s.zoom = t.zoom /\ s.panes = f
  BY <1>2 DEF TabRecs
<1> HIDE DEF s
<1>6. SameSizes(t, s, window)
  BY <1>4, <1>5 DEF SameSizes
<1>7. \A j \in 1 .. Len(ts) : Selected(ts, i)[j] = IF j = i THEN s ELSE ts[j]
  BY <1>1, <1>3
<1> QED
  BY <1>6, <1>7, SameSizesSelf DEF t

LEMMA SelectTold == ASSUME DeskInv, AllTold, SelectTab PROVE AllTold'
<1>1. PICK i \in 1 .. Len(tabs) : tabs' = Selected(tabs, i)
  BY DeskIs DEF SelectTab
<1>2. window' = window
  BY DEF SelectTab
<1>3. Len(tabs') = Len(tabs)
  BY <1>1, DeskIs, SelectedIs
<1>4. \A j \in 1 .. Len(tabs') : SameSizes(tabs[j], tabs'[j], window)
  BY <1>1, <1>3, DeskIs, SelectedSizes
<1> QED
  BY <1>2, <1>3, <1>4, MatchTold

\* A tab opened, whether or not everything is laid out again for it.
LEMMA ConnectTold == ASSUME DeskInv, DeskInv', AllTold, ConnectProfile PROVE AllTold'
<1>1. window' = window
  BY DEF ConnectProfile
<1>2. PICK p \in Profiles \cup {AdHoc} : Opens(NewTab(budget.tabs, p))
  BY DEF ConnectProfile
<1> DEFINE t == NewTab(budget.tabs, p)  n == Len(tabs)
<1>3. TabSound(t)
  BY DeskIs, NewTabIs
<1>4. Told(t, window)
  BY NewTold
<1>5. tabs' = Append(tabs, t) \/ tabs' = UpdateGridDims(Append(tabs, t), window)
  BY <1>2 DEF Opens
<1> HIDE DEF t
<1>6. CASE tabs' = UpdateGridDims(Append(tabs, t), window)
  BY <1>1, <1>6, LaidOut
<1>7. CASE tabs' = Append(tabs, t)
  <2>1. tabs \in Seq(TabRecs) /\ t \in TabRecs /\ n \in Nat
    BY <1>3, DeskIs DEF TabsSound, TabSound
  <2>2. Len(tabs') = n + 1 /\ tabs'[n + 1] = t /\ \A k \in 1 .. n : tabs'[k] = tabs[k]
    BY <1>7, <2>1, AppendProperties
  <2> HIDE DEF n
  <2>3. \A j \in 1 .. n + 1 : j \in 1 .. n \/ j = n + 1
    BY <2>1
  <2>4. \A j \in 1 .. Len(tabs') : Told(tabs'[j], window) \/ \E i \in 1 .. n : SameSizes(tabs[i], tabs'[j], window)
    BY <1>4, <2>2, <2>3, SameSizesSelf
  <2> QED
    BY <1>1, <2>4, MatchTold DEF n
<1> QED
  BY <1>5, <1>6, <1>7

LEMMA WorkspaceTold == ASSUME DeskInv', OpenWorkspace PROVE AllTold'
<1>1. window' = window
  BY DEF OpenWorkspace
<1>2. \E ts : tabs' = UpdateGridDims(ts, window)
  BY Zenon DEF OpenWorkspace
<1> QED
  BY <1>1, <1>2, LaidOut

\* A shell ended, or its end seen to: no size changes.
LEMMA NotedSizes ==
  ASSUME DeskInv, NEW i \in 1 .. Len(tabs), NEW e
  PROVE  \A j \in 1 .. Len(tabs) : SameSizes(tabs[j], Noted(i, e)[j], window) /\ DOMAIN Noted(i, e)[j].panes = DOMAIN tabs[j].panes
<1> DEFINE t == tabs[i]  s == [t EXCEPT !.exited = e]
<1>1. DOMAIN tabs = 1 .. Len(tabs) /\ t \in TabRecs
  BY DeskIs DEF TabSound
<1>2. Noted(i, e) = [tabs EXCEPT ![i] = s]
  BY DEF Noted
<1>3. s.tree = t.tree /\ s.zoom = t.zoom /\ s.panes = t.panes
  <2> HIDE DEF t
  <2> QED
    BY <1>1 DEF TabRecs
<1> HIDE DEF s
<1>4. SameSizes(t, s, window)
  BY <1>3 DEF SameSizes
<1>5. \A j \in 1 .. Len(tabs) : Noted(i, e)[j] = IF j = i THEN s ELSE tabs[j]
  BY <1>1, <1>2
<1> QED
  BY <1>3, <1>4, <1>5, SameSizesSelf

LEMMA ShellTold == ASSUME DeskInv, AllTold, ShellExits PROVE AllTold'
<1>1. window' = window
  BY DEF ShellExits
<1> DEFINE e == TRUE
<1>2. PICK i \in 1 .. Len(tabs) : tabs' = Noted(i, e)
  BY DeskIs DEF ShellExits, Noted
<1>3. e \in BOOLEAN
  OBVIOUS
<1> HIDE DEF e
<1>4. Len(tabs') = Len(tabs)
  BY <1>2, <1>3, NotedIs
<1>5. \A j \in 1 .. Len(tabs') : SameSizes(tabs[j], tabs'[j], window)
  BY <1>2, <1>4, NotedSizes
<1> QED
  BY <1>1, <1>4, <1>5, MatchTold

\* A tab gone, and the one that comes to the front selected.
LEMMA GoneTold ==
  ASSUME DeskInv, AllTold, NEW ts, TabsSound(ts), Len(ts) = Len(tabs), NEW i \in 1 .. Len(ts),
         \A k \in 1 .. Len(ts) : SameSizes(tabs[k], ts[k], window) /\ DOMAIN ts[k].panes = DOMAIN tabs[k].panes,
         CloseSessionNow(ts, i), window' = window
  PROVE  AllTold'
<1> DEFINE n == Len(tabs)  left == RemoveAt(ts, i)  next == IF i > Len(left) THEN Len(left) ELSE i
           Was(j) == IF j < i THEN j ELSE j + 1
<1>1. n \in Nat /\ ts \in Seq(TabRecs) /\ i \in 1 .. n /\ \A k \in 1 .. n : TabSound(ts[k])
  BY DeskIs DEF TabsSound
<1>2. left \in Seq(TabRecs) /\ Len(left) = n - 1 /\ \A j \in 1 .. n - 1 : left[j] = ts[Was(j)]
  BY <1>1, RemoveAtIs
<1>3. tabs' = IF left = <<>> THEN left ELSE Selected(left, next)
  BY DEF CloseSessionNow
<1>4. \A j \in 1 .. n - 1 : Was(j) \in 1 .. n
  BY <1>1
<1> HIDE DEF left, n, Was
<1>5. TabsSound(left)
  <2>1. \A j \in 1 .. Len(left) : TabSound(left[j])
    BY <1>1, <1>2, <1>4
  <2> QED
    BY <1>2, <2>1 DEF TabsSound
<1>6. left # <<>> => next \in 1 .. Len(left)
  BY <1>1, <1>2
<1> HIDE DEF next
<1>7. CASE left = <<>>
  <2>1. Len(tabs') = 0
    BY <1>3, <1>7
  <2> QED
    BY <2>1 DEF AllTold
<1>8. CASE left # <<>>
  <2>1. tabs' = Selected(left, next) /\ next \in 1 .. Len(left)
    BY <1>3, <1>6, <1>8
  <2>2. Len(tabs') = Len(left)
    BY <1>5, <2>1, DeskIs, SelectedIs
  <2>3. \A j \in 1 .. Len(left) : SameSizes(left[j], tabs'[j], window)
    BY <1>5, <2>1, SelectedSizes
  <2>4. ASSUME NEW j \in 1 .. Len(tabs') PROVE \E k \in 1 .. n : SameSizes(tabs[k], tabs'[j], window)
    <3>1. j \in 1 .. n - 1 /\ Was(j) \in 1 .. n /\ left[j] = ts[Was(j)]
      BY <1>2, <1>4, <2>2, <2>4
    <3>2. SameSizes(tabs[Was(j)], left[j], window) /\ DOMAIN left[j].panes = DOMAIN tabs[Was(j)].panes
      BY <3>1 DEF n
    <3>3. SameSizes(left[j], tabs'[j], window)
      BY <2>2, <2>3
    <3> QED
      BY <3>1, <3>2, <3>3, SameSizesThen
  <2> QED
    BY <2>4, MatchTold DEF n
<1> QED
  BY <1>7, <1>8

LEMMA ClosingTold ==
  ASSUME DeskInv, AllTold, NEW ts, TabsSound(ts), Len(ts) = Len(tabs), NEW i \in 1 .. Len(ts), NEW hidden,
         \A k \in 1 .. Len(ts) : SameSizes(tabs[k], ts[k], window) /\ DOMAIN ts[k].panes = DOMAIN tabs[k].panes,
         CloseSession(ts, i, hidden)
  PROVE  AllTold'
<1>1. window' = window
  BY DEF CloseSession
<1>2. CASE CloseSessionNow(ts, i)
  BY <1>1, <1>2, GoneTold
<1>3. CASE tabs' = ts
  BY <1>1, <1>3, MatchTold
<1> QED
  BY <1>2, <1>3 DEF CloseSession

\* A tab closed by its user, for its shell, or when its animation ends.
LEMMA ClosesTold == ASSUME DeskInv, AllTold, CloseTab \/ CloseExited \/ FinishClosing PROVE AllTold'
<1>1. TabsSound(tabs) /\ \A k \in 1 .. Len(tabs) : SameSizes(tabs[k], tabs[k], window)
  BY DeskIs, SameSizesSelf
<1>2. CASE CloseTab
  <2>1. PICK i \in 1 .. Len(tabs) : CloseSession(tabs, i, FALSE)
    BY <1>2, DeskIs DEF CloseTab
  <2> QED
    BY <1>1, <2>1, ClosingTold
<1>3. CASE CloseExited
  <2> DEFINE e == FALSE
  <2>1. PICK i \in 1 .. Len(tabs), hidden \in BOOLEAN : CloseSession(Noted(i, e), i, hidden)
    BY <1>3, DeskIs DEF CloseExited, Ticks, Noted
  <2>2. e \in BOOLEAN
    OBVIOUS
  <2> HIDE DEF e
  <2>3. TabsSound(Noted(i, e)) /\ Len(Noted(i, e)) = Len(tabs)
    BY <2>2, NotedIs
  <2>4. \A k \in 1 .. Len(tabs) : SameSizes(tabs[k], Noted(i, e)[k], window) /\ DOMAIN Noted(i, e)[k].panes = DOMAIN tabs[k].panes
    BY NotedSizes
  <2> DEFINE ts == Noted(i, e)
  <2> HIDE DEF ts
  <2>5. /\ TabsSound(ts) /\ Len(ts) = Len(tabs) /\ i \in 1 .. Len(ts) /\ CloseSession(ts, i, hidden)
        /\ \A k \in 1 .. Len(ts) : SameSizes(tabs[k], ts[k], window) /\ DOMAIN ts[k].panes = DOMAIN tabs[k].panes
    BY <2>1, <2>3, <2>4 DEF ts
  <2> QED
    BY <2>5, ClosingTold
<1>4. CASE FinishClosing
  <2>1. closing.at \in 1 .. Len(tabs) /\ CloseSessionNow(tabs, closing.at) /\ window' = window
    BY <1>4, DeskIs DEF FinishClosing
  <2> QED
    BY <1>1, <2>1, GoneTold
<1> QED
  BY <1>2, <1>3, <1>4

\* Every server keeps being told.
LEMMA ToldStep == ASSUME DeskInv, AllTold, [DeskNext]_deskVars PROVE AllTold'
<1>1. DeskInv'
  BY DeskStep
<1>2. CASE ResizeWindow
  <2>1. tabs' = UpdateGridDims(tabs, window')
    BY <1>2 DEF ResizeWindow
  <2> QED
    BY <1>1, <2>1, LaidOut
<1>3. CASE ConnectProfile
  BY <1>1, <1>3, ConnectTold
<1>4. CASE SelectTab
  BY <1>4, SelectTold
<1>5. CASE CloseTab \/ CloseExited \/ FinishClosing
  BY <1>5, ClosesTold
<1>6. CASE ShellExits
  BY <1>6, ShellTold
<1>7. CASE SplitPane
  BY <1>1, <1>7, SplitTold
<1>8. CASE CloseSplit \/ MovePane \/ SwapPaneWith \/ ResizePane \/ RotatePane \/ ToggleZoomPane
  BY <1>1, <1>8, LayOutTold
<1>9. CASE FocusPane
  BY <1>1, <1>9, FocusTold
<1>10. CASE PickBroadcastTargets \/ BroadcastAll \/ StopBroadcast
  BY <1>1, <1>10, TargetsTold
<1>11. CASE ToggleReadOnlyPane
  BY <1>1, <1>11, LockTold
<1>12. CASE OpenWorkspace
  BY <1>1, <1>12, WorkspaceTold
<1>13. CASE UNCHANGED deskVars
  <2>1. tabs' = tabs /\ window' = window
    BY <1>13 DEF deskVars
  <2> QED
    BY <2>1 DEF AllTold
<1> QED
  BY <1>2, <1>3, <1>4, <1>5, <1>6, <1>7, <1>8, <1>9, <1>10, <1>11, <1>12, <1>13 DEF DeskNext

LEMMA ToldStart == ASSUME DeskInit PROVE AllTold
<1>1. PICK p \in Profiles \cup {AdHoc} : tabs = <<NewTab(0, p)>>
  BY DEF DeskInit
<1>2. Told(NewTab(0, p), window)
  BY NewTold
<1> DEFINE t == NewTab(0, p)
<1> HIDE DEF t
<1>3. tabs = <<t>> /\ Told(t, window)
  BY <1>1, <1>2 DEF t
<1>4. Len(tabs) = 1 /\ tabs[1] = t /\ \A i \in 1 .. 1 : i = 1
  BY <1>3
<1> QED
  BY <1>3, <1>4 DEF AllTold

\* What each server was told is its share of the grid.
LEMMA TellsSizes == DeskInv /\ AllTold => SizesTold
<1> SUFFICES ASSUME DeskInv, AllTold, NEW i \in DOMAIN tabs
             PROVE  LET t == tabs[i]  rects == Rects(t.tree, t.zoom, window) IN
                    0 \in DOMAIN rects => \A p \in Clickable(rects) :
                      \/ t.panes[p].size = [cols |-> rects[p].cols, rows |-> rects[p].rows]
                      \/ p = 0 /\ t.panes[p].size = window
  BY DEF SizesTold
<1>1. Told(tabs[i], window)
  BY DeskIs DEF AllTold
<1> QED
  BY <1>1 DEF Told

\* The grid of a window is shared out once, whatever the layouts of its tabs, and
\* each server was told the share its pane has, or the whole grid when its pane
\* is the own one of a tab that was selected.
THEOREM DeskGridShared == DeskSpec => []GridShared
<1>1. DeskInit => AllTold
  BY ToldStart
<1>2. DeskInv /\ AllTold /\ [DeskNext]_deskVars => AllTold'
  BY ToldStep
<1>3. DeskInv /\ AllTold => GridShared
  BY SharedOnce, TellsSizes DEF GridShared
<1> QED
  BY <1>1, <1>2, <1>3, DeskInvHolds, PTL DEF DeskSpec
=============================================================================
