------------------------------ MODULE VncLink ------------------------------
(***************************************************************************)
(* How a VNC tab gets its connection and loses it: the worker's attempts,  *)
(* its tunnel, the security negotiation, TLS and the certificate question, *)
(* the retries (src/src/vnc/VncSession.cpp, RfbClient.cpp), and the tab at *)
(* the other end of its event queue (src/src/app_vnc.cpp).  What a         *)
(* connection carries once it is up is module VncPicture.                  *)
(***************************************************************************)
EXTENDS Naturals, Sequences, FiniteSets

CONSTANTS Profiles,       \* [tls, via, password, user : BOOLEAN]
          Certs,          \* certificates a server may show
          Pinned,         \* fingerprints the host may be pinned to, "" = none
          Trusted,        \* those whose chain and name verify
          MaxReconnects,  \* VncConfig.maxReconnects
          MaxEvents       \* bound: events the tab has not taken

ASSUME VncLinkAssumption ==
  /\ Profiles \subseteq [tls : BOOLEAN, via : BOOLEAN, password : BOOLEAN, user : BOOLEAN]
  /\ Trusted \subseteq Certs /\ Pinned \subseteq Certs \cup {""}
  /\ "" \notin Certs
  /\ MaxReconnects \in Nat /\ MaxEvents \in Nat \ {0}

VARIABLES
  cfg,     \* the profile: tls, via an SSH session, a password, a user name
  w,       \* the worker: at, attempt, m_stop, m_state
  c,       \* the RfbClient of this attempt
  port,    \* m_tunnelAsked and m_tunnelPort: "no", "asked", "up"
  via,     \* the SSH session: "up", "lost" (its Closed is posted), "gone"
  answer,  \* m_certAnswer: 0, 1 accepted, -1 refused
  events,  \* m_events
  tab,     \* Session.state of the tab
  ui,      \* the UI thread: "free", "asking", or inside Disconnect
  asked,   \* the certificate the open question shows
  pin,     \* the pinned fingerprint, "" = none
  yes,     \* history: the certificates the user accepted, before or now
  told     \* history: the certificates secrets went under, "" = in the clear

vars == <<cfg, w, c, port, via, answer, events, tab, ui, asked, pin, yes, told>>

States == {"Connecting", "Authenticating", "Connected", "Reconnecting", "Disconnected", "Error"}
Security == {"None", "VncAuth", "VeNCrypt"}
Subtypes == {"X509None", "X509Vnc", "X509Plain"}

\* A client before its first byte, holding its own copy of the password.
NewClient == [st |-> "Version", minor |-> 0, sub |-> "", fp |-> "", enc |-> FALSE,
              pw |-> cfg.password, failure |-> ""]

Init ==
  /\ cfg \in Profiles
  /\ w = [at |-> "idle", attempt |-> 0, stop |-> FALSE, state |-> "Disconnected"]
  /\ c = [NewClient EXCEPT !.pw = FALSE]
  /\ port = "no" /\ via = IF cfg.via THEN "up" ELSE "gone"
  /\ answer = 0 /\ events = <<>> /\ tab = "Connecting" /\ ui = "free" /\ asked = ""
  /\ pin \in Pinned /\ yes = {pin} \ {""} /\ told = {}

\* A UI thread that joins takes no events; the worker has at most two left then.
Post(e) == (Len(events) < MaxEvents \/ w.stop) /\ events' = Append(events, e)

----------------------------------------------------------------------------
(* The negotiation: what each message of the server does to the client.    *)

Fail(k, kind) == [k EXCEPT !.st = "Failed", !.failure = kind, !.pw = FALSE]
To(k, st)     == [k EXCEPT !.st = st]

StepVersion(k) ==
  {Fail(k, "Protocol")} \cup {[To(k, "SecurityTypes") EXCEPT !.minor = m] : m \in {3, 7, 8}}

AfterSecurity(k, type) ==
  IF type = "VncAuth" THEN To(k, "VncAuthChallenge")
  ELSE IF k.minor >= 8 THEN To(k, "SecurityResult") ELSE To(k, "ServerInit")

\* m_opt.tls: VeNCrypt or nothing.
TlsDropped(k) == cfg.tls /\ k.minor = 8                          \* (faulty)
TlsHeld(k)    == cfg.tls

\* 3.3: the server states one type.
StatedType(k) ==
  {To(k, "SecurityReason")} \cup
  IF TlsHeld(k) THEN {Fail(k, "Authentication")}
  ELSE {Fail(k, "Protocol")} \cup {AfterSecurity(k, t) : t \in {"None", "VncAuth"}}
\* 3.7 and up: the client chooses from a list.
Chosen(k, offers) ==
  IF TlsHeld(k)
  THEN IF "VeNCrypt" \in offers THEN To(k, "VeNCryptVersion") ELSE Fail(k, "Authentication")
  ELSE IF "VncAuth" \in offers /\ (cfg.password \/ "None" \notin offers)
  THEN AfterSecurity(k, "VncAuth")
  ELSE IF "None" \in offers THEN AfterSecurity(k, "None") ELSE Fail(k, "Authentication")
StepSecurityTypes(k) ==
  IF k.minor = 3 THEN StatedType(k)
  ELSE {To(k, "SecurityReason")} \cup {Chosen(k, offers) : offers \in SUBSET Security}

StepVeNCryptVersion(k)    == {Fail(k, "Protocol"), To(k, "VeNCryptVersionAck")}
StepVeNCryptVersionAck(k) == {Fail(k, "Protocol"), To(k, "VeNCryptSubtypes")}
\* VeNCryptChoose, with allowPlainOverTls when the profile names a user.
VeNCryptChoose(offers) ==
  IF cfg.password /\ "X509Vnc" \in offers THEN "X509Vnc"
  ELSE IF cfg.user /\ cfg.password /\ "X509Plain" \in offers THEN "X509Plain"
  ELSE IF "X509None" \in offers THEN "X509None"
  ELSE IF "X509Vnc" \in offers THEN "X509Vnc" ELSE ""
StepVeNCryptSubtypes(k) ==
  {IF VeNCryptChoose(o) = "" THEN Fail(k, "Authentication")
   ELSE [To(k, "VeNCryptSubtypeAck") EXCEPT !.sub = VeNCryptChoose(o)] : o \in SUBSET Subtypes}
StepVeNCryptSubtypeAck(k) == {Fail(k, "Authentication"), To(k, "TlsHandshake")}

TlsEstablished(k) ==
  CASE k.sub = "X509Vnc" -> [To(k, "VncAuthChallenge") EXCEPT !.enc = TRUE]
    [] k.sub = "X509Plain" -> [To(k, "SecurityResult") EXCEPT !.enc = TRUE, !.pw = FALSE]
    [] OTHER -> [To(k, "SecurityResult") EXCEPT !.enc = TRUE]

StepVncAuthChallenge(k) == {[To(k, "SecurityResult") EXCEPT !.pw = FALSE]}
StepSecurityResult(k)   == {To(k, "ServerInit"), Fail(k, "Authentication"), Fail(k, "Protocol")}
StepSecurityReason(k)   == {Fail(k, "Refused"), Fail(k, "Protocol")}
StepServerInit(k)       == {Fail(k, "Protocol"), To(k, "Ready")}

\* RfbClient::Feed: the state says which message the bytes are.
Feed(k) ==
  CASE k.st = "Version"            -> StepVersion(k)
    [] k.st = "SecurityTypes"      -> StepSecurityTypes(k)
    [] k.st = "SecurityReason"     -> StepSecurityReason(k)
    [] k.st = "VeNCryptVersion"    -> StepVeNCryptVersion(k)
    [] k.st = "VeNCryptVersionAck" -> StepVeNCryptVersionAck(k)
    [] k.st = "VeNCryptSubtypes"   -> StepVeNCryptSubtypes(k)
    [] k.st = "VeNCryptSubtypeAck" -> StepVeNCryptSubtypeAck(k)
    [] k.st = "VncAuthChallenge"   -> StepVncAuthChallenge(k)
    [] k.st = "SecurityResult"     -> StepSecurityResult(k)
    [] k.st = "ServerInit"         -> StepServerInit(k)
    [] OTHER                       -> {}

\* What of the password a step has put on the wire.
Secret(k) == IF k.enc THEN k.fp ELSE ""
Tells(k, l) == IF k.pw /\ ~l.pw /\ l.st = "SecurityResult" THEN {Secret(l)} ELSE {}

----------------------------------------------------------------------------
(* The worker.                                                             *)

At(where) == w.at = where
Go(where) == w' = [w EXCEPT !.at = where]
Linked == UNCHANGED <<cfg, via, tab, ui, asked, yes>>
Asking == UNCHANGED <<answer, pin>>

Top == \* the head of the loop, to Connect
  /\ At("top") /\ Linked /\ Asking
  /\ UNCHANGED <<events, told>>
  /\ IF w.stop THEN Go("out") /\ UNCHANGED <<c, port>>
     ELSE /\ w' = [w EXCEPT !.at = IF cfg.via THEN "tunnel" ELSE "open",
                            !.state = IF w.attempt = 0 THEN "Connecting" ELSE "Reconnecting"]
          /\ c' = NewClient
          /\ port' = IF cfg.via /\ port = "no" THEN "asked" ELSE port

WaitForTunnel == \* the port, the stop or the deadline
  /\ At("tunnel") /\ Linked /\ Asking
  /\ UNCHANGED <<c, port, events, told>>
  /\ IF port = "up" THEN Go("open") ELSE Go("failed")

OpenTransport ==
  /\ At("open") /\ Linked /\ Asking
  /\ UNCHANGED <<c, port, events, told>>
  /\ \/ ~w.stop /\ (cfg.via => via # "gone") /\ Go("shake")
     \/ Go("failed")

Authenticates(k) == k.st \notin {"Version", "SecurityTypes", "SecurityReason", "ServerInit"}
Shown(k) == IF Authenticates(k) THEN "Authenticating" ELSE w.state

Shake == \* one turn of Connect's loop that finds a message
  /\ At("shake") /\ ~w.stop /\ Linked /\ Asking
  /\ UNCHANGED <<port, events>>
  /\ \E l \in Feed(c) :
       /\ c' = l
       /\ told' = told \cup Tells(c, l)
       /\ w' = [w EXCEPT !.state = Shown(c),
                         !.at = CASE l.st = "Failed" -> "failed"
                                  [] l.st = "TlsHandshake" -> "tls"
                                  [] l.st = "Ready" -> "ready"
                                  [] OTHER -> "shake"]

ShakeEnds == \* the stop, the deadline or the end of the stream
  /\ At("shake") /\ Linked /\ Asking
  /\ UNCHANGED <<c, port, events, told>>
  /\ Go("failed")

\* StartTls: what the certificate is worth.
Accepts(fp) == fp \in Trusted \/ pin = fp
Cleared     == 0
Accept(fp) == /\ c' = TlsEstablished([c EXCEPT !.fp = fp])
              /\ told' = told \cup Tells(c, c')
              /\ Go("shake")
StartTls ==
  /\ At("tls") /\ Linked
  /\ UNCHANGED port
  /\ \/ Go("failed") /\ Asking /\ UNCHANGED <<c, events, told>>
     \/ \E fp \in Certs :
          \/ /\ Accepts(fp) /\ Accept(fp)
             /\ pin' = fp /\ UNCHANGED <<answer, events>>
          \/ /\ ~Accepts(fp)
             /\ answer' = Cleared
             /\ Post([type |-> "CertPrompt", fp |-> fp])
             /\ c' = [c EXCEPT !.fp = fp]
             /\ Go("prompt") /\ UNCHANGED <<pin, told>>

OnlyAnswered == answer # 0                                       \* (faulty)
Released     == answer # 0 \/ w.stop
Answered == \* the wait on m_certCv ends
  /\ At("prompt") /\ Linked
  /\ Released
  /\ UNCHANGED <<port, events, answer>>
  /\ IF answer = 1
     THEN pin' = c.fp /\ Accept(c.fp)
     ELSE Go("refused") /\ UNCHANGED <<c, pin, told>>

\* The socket and its TLS are gone; what failed is all that still counts.
Closed(k) == [NewClient EXCEPT !.pw = FALSE, !.failure = k.failure]
\* m_tlsFatal, or the client's own failure.
OnlyRefused(k) == k.failure = "Refused"                          \* (faulty)
Final(k)       == k.failure \in {"Authentication", "Refused"}
GiveUp == /\ w' = [w EXCEPT !.at = "out", !.state = "Error"]
          /\ Post([type |-> "Error", fp |-> ""])
Counted(n)   == n + 1
Silent == /\ w' = [w EXCEPT !.at = "backoff", !.attempt = Counted(@)]   \* (faulty)
          /\ Post([type |-> "Status", fp |-> ""])
Retry == /\ w' = [w EXCEPT !.at = "backoff", !.attempt = Counted(@), !.state = "Reconnecting"]
         /\ Post([type |-> "Status", fp |-> ""])
Failed ==
  /\ w.at \in {"failed", "refused"} /\ Linked /\ Asking
  /\ UNCHANGED <<port, told>>
  /\ c' = Closed(c)
  /\ IF w.stop THEN Go("out") /\ UNCHANGED events
     ELSE IF At("refused") \/ Final(c) \/ w.attempt >= MaxReconnects THEN GiveUp
     ELSE Retry

Ready ==
  /\ At("ready") /\ Linked /\ Asking
  /\ UNCHANGED <<c, port, told>>
  /\ w' = [w EXCEPT !.at = "loop", !.attempt = 0, !.state = "Connected"]
  /\ Post([type |-> "Connected", fp |-> ""])

\* Loop ends with the stop, or with the stream.
LoopStops ==
  /\ At("loop") /\ w.stop /\ Linked /\ Asking
  /\ Go("out") /\ c' = Closed(c) /\ UNCHANGED <<port, events, told>>
StreamEnds ==
  /\ At("loop") /\ ~w.stop /\ Linked /\ Asking
  /\ Retry /\ c' = Closed(c) /\ UNCHANGED <<port, told>>

\* WaitForSingleObject(m_wake, backoffMs): any input of the UI ends it too.
Backoff ==
  /\ At("backoff") /\ Linked /\ Asking
  /\ UNCHANGED <<c, port, events, told>>
  /\ w' = [w EXCEPT !.at = "top"]

Out ==
  /\ At("out") /\ Linked /\ Asking
  /\ UNCHANGED <<c, port, told>>
  /\ IF w.state = "Error" THEN Go("done") /\ UNCHANGED events
     ELSE /\ w' = [w EXCEPT !.at = "done", !.state = "Disconnected"]
          /\ Post([type |-> "Closed", fp |-> ""])

Worker == Top \/ WaitForTunnel \/ OpenTransport \/ Shake \/ ShakeEnds \/ StartTls \/ Answered
          \/ Failed \/ Ready \/ LoopStops \/ Backoff \/ Out

----------------------------------------------------------------------------
(* The UI thread and the SSH session the tab tunnels through.              *)

Start ==
  /\ At("idle") /\ ui = "free"
  /\ w' = [w EXCEPT !.at = "top", !.state = "Connecting"]
  /\ UNCHANGED <<cfg, c, port, via, answer, events, tab, ui, asked, pin, yes, told>>

\* PumpVncEvents: one event; a question holds the thread in its dialog.
TabState(e) ==
  CASE e.type = "Connected" -> "Connected"
    [] e.type = "Closed"    -> "Disconnected"
    [] e.type = "Error"     -> "Error"
    [] e.type = "Status" /\ w.state \in {"Authenticating", "Reconnecting"} -> w.state
    [] OTHER -> tab
PumpVncEvents ==
  /\ ui = "free" /\ events # <<>>
  /\ events' = Tail(events)
  /\ tab' = TabState(Head(events))
  /\ IF Head(events).type = "CertPrompt"
     THEN ui' = "asking" /\ asked' = Head(events).fp
     ELSE UNCHANGED <<ui, asked>>
  /\ UNCHANGED <<cfg, w, c, port, via, answer, pin, yes, told>>

AnswerCertificate(a) ==
  /\ ui = "asking"
  /\ answer' = a /\ ui' = "free" /\ asked' = ""
  /\ yes' = IF a = 1 THEN yes \cup {asked} ELSE yes
  /\ UNCHANGED <<cfg, w, c, port, via, events, tab, pin, told>>

\* Disconnect: the stop, then the question's answer, then the join.
Disconnect(after) ==
  /\ w' = [w EXCEPT !.stop = TRUE]
  /\ ui' = after
  /\ UNCHANGED <<cfg, c, port, answer, events, asked, pin, yes, told>>
\* CloseSessionNow: the user closes the tab.
CloseSessionNow ==
  /\ ui = "free" /\ w.at # "idle"
  /\ Disconnect("closing") /\ UNCHANGED <<via, tab>>
\* VncOnSshClosed: the SSH session's Closed or Error event.
NotRunning == w.at \in {"idle", "done"}
VncOnSshClosed ==
  /\ ui = "free" /\ via = "lost"
  /\ via' = "gone" /\ UNCHANGED tab
  /\ IF NotRunning THEN UNCHANGED <<cfg, w, c, port, answer, events, ui, asked, pin, yes, told>>
     ELSE Disconnect("dropping")
RefuseQuestion ==
  /\ ui \in {"closing", "dropping"}
  /\ answer' = IF answer = 0 THEN 0 - 1 ELSE answer
  /\ ui' = IF ui = "closing" THEN "closing2" ELSE "dropping2"
  /\ UNCHANGED <<cfg, w, c, port, via, events, tab, asked, pin, yes, told>>
Joined ==
  /\ ui \in {"closing2", "dropping2"} /\ At("done")
  /\ w' = [w EXCEPT !.state = IF @ = "Error" THEN "Error" ELSE "Disconnected"]
  /\ IF ui = "closing2" THEN ui' = "left" /\ UNCHANGED tab
                        ELSE ui' = "free" /\ tab' = "Error"
  /\ UNCHANGED <<cfg, c, port, via, answer, events, asked, pin, yes, told>>

\* The SSH session: its forward comes up, it drops, or its own tab is closed,
\* which posts nothing.
OnForwardUp ==
  /\ ui = "free" /\ port = "asked" /\ via = "up"
  /\ port' = "up"
  /\ UNCHANGED <<cfg, w, c, via, answer, events, tab, ui, asked, pin, yes, told>>
SshEnds(how) ==
  /\ cfg.via /\ via = "up" /\ (how = "gone" => ui = "free")
  /\ via' = how
  /\ UNCHANGED <<cfg, w, c, port, answer, events, tab, ui, asked, pin, yes, told>>

Ui == Start \/ PumpVncEvents \/ (\E a \in {1, 0 - 1} : AnswerCertificate(a))
      \/ VncOnSshClosed \/ RefuseQuestion \/ Joined

Next == Worker \/ StreamEnds \/ Ui \/ CloseSessionNow \/ OnForwardUp
        \/ (\E how \in {"lost", "gone"} : SshEnds(how))

Spec == Init /\ [][Next]_vars
\* The worker's waits are all bounded; the UI thread pumps every frame, the SSH
\* sessions before the VNC ones, and the user answers a question.
FairSpec == Spec /\ WF_vars(Worker) /\ WF_vars(Ui) /\ SF_vars(VncOnSshClosed)

----------------------------------------------------------------------------
TypeOK ==
  /\ w.at \in {"idle", "top", "tunnel", "open", "shake", "tls", "prompt", "refused", "failed",
               "ready", "loop", "backoff", "out", "done"}
  /\ w.state \in States /\ tab \in States
  /\ w.attempt \in 0 .. MaxReconnects + 1
  /\ w.stop \in BOOLEAN
  /\ answer \in {0 - 1, 0, 1}
  /\ port \in {"no", "asked", "up"} /\ via \in {"up", "lost", "gone"}
  /\ ui \in {"free", "asking", "closing", "closing2", "dropping", "dropping2", "left"}
  /\ {pin, asked, c.fp} \subseteq Certs \cup {""}
  /\ yes \subseteq Certs
  /\ c.enc => w.at # "backoff"

\* StartTls clears m_certAnswer before it asks: what is pinned is a certificate
\* whose chain verified or that the user accepted when it was on the screen.
PinsAreAccepted == pin # "" => pin \in yes \cup Trusted

\* VncConfig.tls, "VeNCrypt required; never downgraded": such a profile's
\* password leaves, and its desktop comes up, only inside TLS with a
\* certificate that verified or was accepted.
NeverInTheClear ==
  cfg.tls => /\ told \subseteq yes \cup Trusted
             /\ w.at = "loop" => c.enc /\ c.fp \in yes \cup Trusted

\* Once the tab has taken every event it shows what the worker is doing, though
\* a Status is read against the state of the moment and not of its posting.
TabAgrees ==
  events = <<>> /\ ui = "free" =>
    /\ w.at = "loop" => tab = "Connected"
    /\ w.at = "backoff" => tab = "Reconnecting"
    /\ w.at = "done" => tab \in {"Disconnected", "Error"}

\* Worker: "a rejected password or a refusal does not retry" - no other client
\* follows the one that was told no.
RefusalIsLast ==
  [][c.failure \in {"Authentication", "Refused"} => c'.failure = c.failure]_vars

\* Disconnect joins the worker on the UI thread: wherever the worker waits, in
\* the tunnel, the handshake, the question, the stream or the backoff, it ends.
LeavingEnds == w.stop ~> At("done")

\* Attempts in a row are counted: each one comes up or is the last, in time.
Settles == At("top") ~> (At("loop") \/ At("done"))

\* A tab whose SSH session dropped is told, and its worker ends.
LostTunnelEnds == via = "lost" ~> (At("done") \/ At("idle"))

\* What is pinned and what secrets went under was accepted, by the user or by its
\* chain; with the type invariant it rests on.
SecretsAreSafe == TypeOK /\ PinsAreAccepted /\ NeverInTheClear

\* Nobody waits for ever: not who leaves, not an attempt, not a tab without its tunnel.
WaitsEnd == LeavingEnds /\ Settles /\ LostTunnelEnds
============================================================================
