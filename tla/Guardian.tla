------------------------------ MODULE Guardian ------------------------------
(***************************************************************************)
(* The reconnect state machine of one session, src/src/sessions/Guardian.cpp: *)
(* a pure machine, here a record and one operator per method.  The clock   *)
(* enters only through m_nextAt, so the machine keeps whether the backoff  *)
(* timer is unset, running or has run out.                                 *)
(***************************************************************************)
EXTENDS Naturals

CONSTANT Limits         \* the values of GuardianPolicy::maxAttempts a profile may
                        \* have, 0 = until the user stops it

ASSUME GuardianAssumption == Limits \subseteq Nat /\ Limits # {}

\* ReconnectMode and GuardianPolicy, without the timing.
Modes    == {"Off", "Ask", "Auto"}
Policies == [mode : Modes, limit : Limits]

\* DropClass.
DropClasses == {"Transient", "RemoteClosed", "AuthRequired", "HostKeyAttention",
                "Fatal", "UserInitiated"}

GuardianStates == {"Idle", "Connected", "ConnectionLost", "WaitingToReconnect",
                   "Reconnecting", "AuthenticationRequired", "HostKeyAttention",
                   "Reconnected", "GaveUp", "UserStopped"}

\* GuardianTerminal.
GuardianTerminal == {"AuthenticationRequired", "HostKeyAttention", "GaveUp", "UserStopped"}

\* ClassifyDrop: a transport's reason is the set of kinds of phrase it contains;
\* the first kind in the code's order decides, and a reason with none is Transient.
Phrases == {"hostKey", "auth", "config", "cancelled", "ended"}
ClassifyDrop(reason) ==
  CASE "hostKey"   \in reason -> "HostKeyAttention"
    [] "hostKey"   \notin reason /\ "auth" \in reason -> "AuthRequired"
    [] reason \cap {"hostKey", "auth"} = {} /\ "config" \in reason -> "Fatal"
    [] reason \cap {"hostKey", "auth", "config"} = {} /\ "cancelled" \in reason ->
         "UserInitiated"
    [] reason = {"ended"} -> "RemoteClosed"
    [] OTHER -> "Transient"

\* RetryableClass: only a network fault.
RetryableClass(c)  == c = "Transient"

Guardians ==
  [state : GuardianStates, everConnected : BOOLEAN, userClosed : BOOLEAN,
   needConsent : BOOLEAN, episode : BOOLEAN, justReconnected : BOOLEAN,
   attempt : Nat, nextAt : {"unset", "later", "now"}, policy : Policies]

\* A machine that was never connected, under a policy (Reset and Configure).
Reset(p) ==
  [policy |-> p, state |-> "Idle", everConnected |-> FALSE, userClosed |-> FALSE,
   needConsent |-> FALSE, episode |-> FALSE, justReconnected |-> FALSE,
   attempt |-> 0, nextAt |-> "unset"]

Stop(g, s) ==
  [g EXCEPT !.state = s, !.needConsent = FALSE, !.episode = FALSE, !.nextAt = "unset"]

\* Without a limit the count is only shown to the user; one value stands for all.
NextAttempt(g) == IF g.policy.limit = 0 THEN 1 ELSE g.attempt + 1

\* Schedule: count the attempt, give up past the limit, start the timer otherwise.
LimitReached(g) == g.policy.limit > 0 /\ NextAttempt(g) > g.policy.limit
Schedule(g) ==
  IF LimitReached(g)
  THEN Stop([g EXCEPT !.attempt = g.policy.limit], "GaveUp")
  ELSE [g EXCEPT !.attempt = NextAttempt(g), !.nextAt = "later",
                 !.state = "WaitingToReconnect"]

OnConnected(g) ==
  [g EXCEPT !.justReconnected = g.episode,
            !.state = IF g.episode THEN "Reconnected" ELSE "Connected",
            !.everConnected = TRUE, !.episode = FALSE, !.needConsent = FALSE,
            !.attempt = 0, !.nextAt = "unset"]

\* OnDrop, first part: the first drop of an outage opens the episode.
ReopenEpisode(g) == [g EXCEPT !.episode = TRUE, !.attempt = 0]  \* (faulty)
OpenEpisode(g) ==
  IF g.episode THEN g ELSE [g EXCEPT !.episode = TRUE, !.attempt = 0]

\* OnDrop: Ask mode asks before the first attempt of an episode.
MustAsk(g)  == g.policy.mode = "Ask" /\ g.attempt = 0

\* OnDrop, second part: the gates in the code's order, then the schedule.
Decide(g, c) ==
  CASE c = "HostKeyAttention" -> Stop(g, "HostKeyAttention")
    [] c = "AuthRequired"     -> Stop(g, "AuthenticationRequired")
    [] c = "UserInitiated"    -> Stop(g, "UserStopped")
    [] c \in {"RemoteClosed", "Fatal", "Transient"} ->
         IF ~RetryableClass(c) \/ g.policy.mode = "Off" THEN Stop(g, "ConnectionLost")
         ELSE IF MustAsk(g)
         THEN [g EXCEPT !.state = "ConnectionLost", !.needConsent = TRUE]
         ELSE Schedule(g)

\* OnDrop, the early returns: a manual disconnect disarms, and nothing is armed
\* before the first successful connect.
Arms(g) == ~g.userClosed /\ g.everConnected

OnDrop(g, c) ==
  IF Arms(g) THEN Decide(OpenEpisode(g), c) ELSE [g EXCEPT !.state = "Idle"]

OnUserDisconnect(g) == Stop([g EXCEPT !.userClosed = TRUE], "Idle")

GrantConsent(g, yes) ==
  LET asked == [g EXCEPT !.needConsent = FALSE]
  IN  IF ~g.needConsent THEN g
      ELSE IF yes THEN Schedule(asked) ELSE Stop(asked, "UserStopped")

StopByUser(g) ==
  IF g.state \in {"Connected", "Reconnected"} THEN g ELSE Stop(g, "UserStopped")

\* RetryNow: an explicit request revives every state and restarts the count.
RetryNow(g) ==
  [g EXCEPT !.userClosed = FALSE, !.episode = TRUE, !.needConsent = FALSE,
            !.attempt = 0, !.nextAt = "now", !.state = "WaitingToReconnect"]

\* Tick: an attempt starts once the timer has run out; it is handed out once.
TickFires(g) == g.state = "WaitingToReconnect" /\ ~g.needConsent /\ g.nextAt = "now"
Fired(g) == [g EXCEPT !.state = "Reconnecting"]

\* Tick's other effect: "Reconnected" decays once it has been shown for a while.
Settled(g) == IF g.state = "Reconnected" THEN [g EXCEPT !.state = "Connected"] ELSE g

\* Armed.
Armed(g) == g.state \in {"WaitingToReconnect", "Reconnecting"}
=============================================================================
