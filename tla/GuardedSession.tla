--------------------------- MODULE GuardedSession ---------------------------
(***************************************************************************)
(* A tab: the Guardian, the app code that drives it (PumpSshEvents, the    *)
(* frame's Tick, StartReconnect, the user's commands) and the session      *)
(* worker it restarts.  The worker is SessionLife, which SshSession is     *)
(* shown to implement: what matters here is that its reports wait in a     *)
(* queue while the user and the frame loop go on.                          *)
(***************************************************************************)
EXTENDS Guardian, Sequences

VARIABLES
  g,            \* Session::guardian
  phase,        \* the session's worker, see SessionLife
  reports,      \* SshSession::m_events: Connected, or the end with its class
  upc,          \* where the UI thread is in the frame
  state,        \* Session::state, the transient states folded into "Connecting"
  prompt,       \* Session::hostKeyPending
  minimized,    \* m_minimized
  \* --- history ---
  barred,       \* a drop that is no network fault or a manual disconnect, and no
                \* RetryNow since
  agreed,       \* the user agreed to reconnect in this outage
  tries         \* attempts since the link was last up or the user last decided,
                \* counted up to two past the limit

session == <<phase, reports>>
app     == <<upc, state, prompt, minimized>>
history == <<barred, agreed, tries>>
vars    == <<g, session, app, history>>

UpTo(bound, n) == IF n < bound THEN n ELSE bound

Life == INSTANCE SessionLife
          WITH Classes <- {ClassifyDrop(r) : r \in SUBSET Phrases},
               Refusal <- ClassifyDrop({"hostKey"})

\* App::NewSession: the first connect is started at once.
Init ==
  /\ g \in {Reset(p) : p \in Policies} /\ phase = "starting" /\ reports = <<>>
  /\ upc = "idle" /\ state = "Connecting"
  /\ prompt = FALSE /\ minimized = FALSE
  /\ barred = FALSE /\ agreed = FALSE /\ tries = 0

----------------------------------------------------------------------------
(* One frame of the UI thread: PumpSshEvents, then, unless minimized, the   *)
(* guardian's tick.                                                         *)

BeginFrame ==
  /\ upc = "idle" /\ upc' = "pump"
  /\ UNCHANGED <<g, session, state, prompt, minimized, history>>

\* PumpSshEvents, Connected: the guardian is told; a recovery is announced, and
\* what the profile restores is sent (OnSessionRecovered).
HandleConnected ==
  /\ upc = "pump" /\ Life!Take /\ Head(reports) = Life!Connected
  /\ g' = [OnConnected(g) EXCEPT !.justReconnected = FALSE]
  /\ state' = "Connected"
  /\ tries' = 0 /\ agreed' = FALSE
  /\ UNCHANGED <<upc, prompt, minimized, barred>>

\* PumpSshEvents, onDrop: the guardian decides, and the tab shows what it said.
AlwaysRetrying(d, kind) == "Reconnecting"                       \* (faulty)
StateAfterDrop(d, kind) ==
  CASE d.state \in {"Idle", "ConnectionLost"} ->
         IF d.needConsent \/ kind = "Closed" THEN "Disconnected" ELSE "Error"
    [] d.state \in GuardianTerminal -> "Error"
    [] OTHER -> "Reconnecting"

HandleDrop ==
  /\ upc = "pump" /\ Life!Take /\ Head(reports) \in Life!Ends
  /\ LET r == Head(reports)
     IN /\ g' = OnDrop(g, r.class)
        /\ state' = StateAfterDrop(OnDrop(g, r.class), r.kind)
        /\ barred' = (barred \/ (r.class # "Transient" /\ g.everConnected))
  /\ UNCHANGED <<upc, prompt, minimized, agreed, tries>>

\* PumpSshEvents, HostKeyPrompt: the state becomes VerifyingHost.
HandlePrompt ==
  /\ upc = "pump" /\ Life!Take /\ Head(reports) = Life!Prompt
  /\ state' = "Connecting" /\ prompt' = TRUE
  /\ UNCHANGED <<g, upc, minimized, history>>

PumpDone ==
  /\ upc = "pump" /\ reports = <<>> /\ upc' = "consent"
  /\ UNCHANGED <<g, session, state, prompt, minimized, history>>

\* PumpSshEvents, the modal "Reconnect?" box.
Consent(yes) ==
  /\ upc = "consent" /\ g.needConsent
  /\ g' = GrantConsent(g, yes)
  /\ state' = IF yes THEN "Reconnecting" ELSE "Disconnected"
  /\ agreed' = (agreed \/ yes) /\ tries' = 0
  /\ UNCHANGED <<upc, session, prompt, minimized, barred>>

\* PumpSshEvents, the modal host-key box; it is shown whatever became of the
\* worker that asked.
HostKeyBox(yes) ==
  /\ upc = "consent" /\ ~g.needConsent /\ prompt
  /\ prompt' = FALSE /\ Life!Answer(yes)
  /\ state' = IF yes THEN state ELSE "Disconnected"
  /\ UNCHANGED <<g, upc, minimized, history>>

\* RenderFrame looks at the guardian once no worker runs; Tick() of a minimized
\* window returns before that.
PumpReturns ==
  /\ upc = "consent" /\ ~g.needConsent /\ ~prompt
  /\ upc' = IF minimized \/ phase # "stopped" THEN "idle" ELSE "tick"
  /\ UNCHANGED <<g, session, state, prompt, minimized, history>>

\* The frame's tick with no attempt due; "Reconnected" may have been shown long
\* enough.
QuietTick ==
  /\ upc = "tick" /\ ~TickFires(g)
  /\ upc' = "idle"
  /\ g' \in {g, Settled(g)}
  /\ IF g.state = "GaveUp" /\ state = "Reconnecting"
     THEN state' = "Error" ELSE UNCHANGED state
  /\ UNCHANGED <<session, prompt, minimized, history>>

\* The tick fires: StartReconnect starts the worker.  Start refuses only while a
\* worker runs or when the libraries cannot be initialised, and neither holds of a
\* session that has been connected and has no worker.
StartReconnect ==
  /\ upc = "tick" /\ TickFires(g)
  /\ upc' = "idle"
  /\ state' = IF g.everConnected THEN "Reconnecting" ELSE "Connecting"
  /\ tries' = UpTo(g.policy.limit + 2, tries + 1)
  /\ Life!Begin /\ g' = Fired(g)
  /\ UNCHANGED <<prompt, minimized, barred, agreed>>

\* Time passes while the backoff timer runs.
TimerRunsOut ==
  /\ g.nextAt = "later" /\ g' = [g EXCEPT !.nextAt = "now"]
  /\ UNCHANGED <<session, app, history>>

----------------------------------------------------------------------------
(* The user's commands, between frames.                                     *)

\* Ctrl+Shift+D and File > Disconnect: the guardian first, then the worker,
\* which Disconnect stops and joins; its report stays in the queue.  The menu
\* command leaves Session::state to that report.
DisarmLater(d) == d                                             \* (faulty)
Disarm(d)      == OnUserDisconnect(d)
UserDisconnect ==
  /\ upc = "idle"
  /\ g' = Disarm(g)
  /\ Life!Halt
  /\ state' \in {state, "Disconnected"} /\ barred' = TRUE
  /\ UNCHANGED <<upc, prompt, minimized, agreed, tries>>

\* GuardianStop: offered while a reconnect is pending or running.
GuardianStop ==
  /\ upc = "idle" /\ (Armed(g) \/ g.needConsent)
  /\ g' = StopByUser(g) /\ state' = "Disconnected"
  /\ tries' = 0 /\ agreed' = FALSE
  /\ UNCHANGED <<session, upc, prompt, minimized, barred>>

\* GuardianRetryNow: refused while a worker runs or before the first connect.
GuardianRetryNow ==
  /\ upc = "idle" /\ phase = "stopped" /\ g.everConnected
  /\ g' = RetryNow(g) /\ state' = "Reconnecting"
  /\ barred' = FALSE /\ agreed' = TRUE /\ tries' = 0
  /\ UNCHANGED <<session, upc, prompt, minimized>>

Minimize ==
  /\ upc = "idle" /\ minimized' = ~minimized
  /\ UNCHANGED <<g, session, upc, state, prompt, history>>

Worker == Life!Worker /\ UNCHANGED <<g, app, history>>

----------------------------------------------------------------------------
Frame == \/ BeginFrame \/ HandleConnected \/ HandleDrop \/ HandlePrompt \/ PumpDone
         \/ (\E yes \in BOOLEAN : Consent(yes) \/ HostKeyBox(yes))
         \/ PumpReturns \/ QuietTick \/ StartReconnect
User  == UserDisconnect \/ GuardianStop \/ GuardianRetryNow \/ Minimize

Next == Frame \/ User \/ TimerRunsOut \/ Worker
Spec == Init /\ [][Next]_vars

\* Frames are drawn for ever and boxes are answered, time passes, an attempt
\* succeeds or fails and a worker that has reported its end returns.  Nothing
\* ends a session that is up.
Fairness == /\ WF_vars(Frame) /\ WF_vars(TimerRunsOut)
            /\ WF_vars(Worker /\ phase # "up")
FairSpec == Spec /\ Fairness

----------------------------------------------------------------------------
TypeOK ==
  /\ g \in Guardians
  /\ g.policy.limit > 0 => g.attempt <= g.policy.limit
  /\ Life!TypeOK
  /\ upc \in {"idle", "pump", "consent", "tick"}
  /\ state \in {"Connecting", "Connected", "Reconnecting", "Disconnected", "Error"}
  /\ {prompt, minimized, barred, agreed} \subseteq BOOLEAN
  /\ tries \in 0 .. g.policy.limit + 2

AttemptBegins == g.state # "Reconnecting" /\ g'.state = "Reconnecting"

\* Automatic reconnect drives past no security question, no exit of the remote
\* shell and no manual disconnect, whatever reports were still queued when it
\* happened: an attempt starts only if none occurred since the user last asked.
AttemptsOnlyWhenAllowed == [][AttemptBegins => ~barred]_vars

\* In Ask mode no attempt is made in an outage without the user's word.
AskBeforeFirstAttempt == [][AttemptBegins /\ g.policy.mode = "Ask" => agreed]_vars

\* With a limit, no more than that many attempts are made on the machine's own
\* account; the user's "reconnect now" is worth one more.
LimitKept == g.policy.limit > 0 => tries <= g.policy.limit + 1

\* What the tab shows once every report is handled agrees with its guardian: a
\* link that is up is shown up, a wait is shown as one, and an outage that ended
\* without the link is shown as neither, unless an attempt is still running.
TabTellsTheTruth ==
  upc = "idle" /\ reports = <<>> =>
    /\ g.state \in {"Connected", "Reconnected"} => state = "Connected"
    /\ g.state = "WaitingToReconnect" => state = "Reconnecting"
    /\ g.state \in GuardianTerminal \cup {"ConnectionLost"} /\ phase = "stopped"
         => state \in {"Disconnected", "Error"}

\* A reconnect that was scheduled is carried out or called off: the machine does
\* not stay in the wait while the window is drawn.
WaitEnds == (g.state = "WaitingToReconnect") ~> (g.state # "WaitingToReconnect" \/ minimized)

\* An attempt in flight always gets an answer.
AttemptSettles == (g.state = "Reconnecting") ~> (g.state # "Reconnecting")

\* An attempt is one the user has not ruled out and, in Ask mode, agreed to.
AttemptsAreWanted == AttemptsOnlyWhenAllowed /\ AskBeforeFirstAttempt

\* Neither a wait nor an attempt stays for ever.
WaitsEnd == WaitEnds /\ AttemptSettles

(* Statements of the repository that the code does not keep. *)

\* Guardian.h:82, GuardianTerminal is "true for the states in which nothing
\* further will happen on its own": such a state is left only by the user.
TerminalStays ==
  [][g.state \in GuardianTerminal /\ g'.state \notin GuardianTerminal
       => upc = "idle"]_vars

\* app.cpp:11251-11252, nothing may be left as a "tab wedged in Reconnecting with
\* nothing scheduled".
NeverWedged ==
  (state = "Reconnecting" /\ ~Armed(g)) ~> (state # "Reconnecting" \/ Armed(g))
=============================================================================
