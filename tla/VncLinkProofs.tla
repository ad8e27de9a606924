--------------------------- MODULE VncLinkProofs ---------------------------
(***************************************************************************)
(* Theorems about VncLink and VncPicture.  The link, for any profiles,     *)
(* certificates, pins, number of attempts and length of the event queue: a *)
(* profile that must have TLS never tells its password outside it or under *)
(* a certificate nobody accepted, a refusal is the last word, and the tab  *)
(* shows what its worker does.  The picture, for any sizes and any number  *)
(* of changes, resizes and drops: a tile the renderer does not show as the *)
(* server has it is always on its way.                                     *)
(***************************************************************************)
EXTENDS VncLink, VncPicture, WellFoundedInduction, FiniteSetTheorems, SequenceTheorems, TLAPS

Places == {"idle", "top", "tunnel", "open", "shake", "tls", "prompt", "refused", "failed",
           "ready", "loop", "backoff", "out", "done"}

\* Before TLS, and after it.
Early == {"Version", "SecurityTypes", "SecurityReason", "VeNCryptVersion",
          "VeNCryptVersionAck", "VeNCryptSubtypes", "VeNCryptSubtypeAck", "TlsHandshake"}
Late  == {"VncAuthChallenge", "SecurityResult", "ServerInit", "Ready"}

Clients == [st : Early \cup Late \cup {"Failed"}, minor : {0, 3, 7, 8},
            sub : Subtypes \cup {""}, fp : Certs \cup {""}, enc : BOOLEAN, pw : BOOLEAN,
            failure : {"", "Protocol", "Authentication", "Refused"}]
Events == [type : {"CertPrompt", "Connected", "Closed", "Error", "Status"},
           fp : Certs \cup {""}]
Leaving == {"closing", "closing2", "dropping", "dropping2"}

\* What the events of a queue ask: nothing, one thing at most, only for fp.
IsQuestion(e)   == e.type = "CertPrompt"
NoneIn(s)       == \A i \in 1 .. Len(s) : ~IsQuestion(s[i])
Single(s)       == \A i, j \in 1 .. Len(s) : IsQuestion(s[i]) /\ IsQuestion(s[j]) => i = j
OnlyFor(s, fp)  == \A i \in 1 .. Len(s) : IsQuestion(s[i]) => s[i].fp = fp
Certified(s)    == \A i \in 1 .. Len(s) : IsQuestion(s[i]) => s[i].fp \in Certs

Types ==
  /\ cfg \in [tls : BOOLEAN, via : BOOLEAN, password : BOOLEAN, user : BOOLEAN]
  /\ w \in [at : Places, attempt : 0 .. MaxReconnects + 1, stop : BOOLEAN, state : States]
  /\ c \in Clients
  /\ port \in {"no", "asked", "up"} /\ via \in {"up", "lost", "gone"}
  /\ answer \in {0 - 1, 0, 1}
  /\ events \in Seq(Events)
  /\ tab \in States /\ ui \in {"free", "asking", "left"} \cup Leaving
  /\ asked \in Certs \cup {""} /\ pin \in Certs \cup {""} /\ yes \subseteq Certs
  /\ w.at = "loop" => w.attempt = 0

\* How the question, its event, the dialog and the answer go together: a live
\* worker that is not waiting for an answer has no question outstanding, the one
\* outstanding is about the certificate it waits for, and who has been told to
\* stop is being joined.
AskInv ==
  /\ w.stop \/ (w.at = "prompt" /\ answer = 0) \/ (NoneIn(events) /\ ui # "asking")
  /\ w.at = "prompt" => OnlyFor(events, c.fp) /\ (ui = "asking" => asked = c.fp)
  /\ w.at = "prompt" /\ answer = 1 => c.fp \in yes
  /\ w.at = "tls" => NoneIn(events) /\ ui # "asking"
  /\ Single(events) /\ Certified(events)
  /\ ui = "asking" => NoneIn(events) /\ asked \in Certs
  /\ w.stop /\ w.at # "done" => ui \in Leaving
  /\ ui \in Leaving => w.stop

\* What the client's state says of its stream: a profile with TLS is past the
\* negotiation only inside it, under a certificate that was accepted.
ClientInv ==
  /\ w.at \in {"tls", "prompt"} => c.st = "TlsHandshake"
  /\ w.at \in {"ready", "loop"} => c.st = "Ready"
  /\ w.at \in {"idle", "top", "backoff"} => c.st = "Version"
  /\ c.st \in Early => ~c.enc
  /\ cfg.tls /\ c.st \in Late => c.enc
  /\ c.enc => c.fp \in yes \cup Trusted
  /\ pin # "" => pin \in yes \cup Trusted
  /\ cfg.tls => told \subseteq yes \cup Trusted
  /\ Final(c) => w.at \in {"failed", "out", "done"}

Inv == Types /\ AskInv /\ ClientInv

----------------------------------------------------------------------------
\* What posting an event does to the queue's questions.
LEMMA Posting ==
  ASSUME NEW s \in Seq(Events), NEW e \in Events
  PROVE  /\ Append(s, e) \in Seq(Events)
         /\ ~IsQuestion(e) => /\ NoneIn(s) => NoneIn(Append(s, e))
                              /\ Single(s) => Single(Append(s, e))
                              /\ Certified(s) => Certified(Append(s, e))
         /\ NoneIn(s) /\ e.fp \in Certs =>
              Single(Append(s, e)) /\ Certified(Append(s, e)) /\ OnlyFor(Append(s, e), e.fp)
<1>1. /\ Append(s, e) \in Seq(Events) /\ Len(Append(s, e)) = Len(s) + 1 /\ Len(s) \in Nat
      /\ \A i \in 1 .. Len(s) : Append(s, e)[i] = s[i]
      /\ Append(s, e)[Len(s) + 1] = e
  OBVIOUS
<1>2. \A i \in 1 .. Len(Append(s, e)) : i \in 1 .. Len(s) \/ i = Len(s) + 1
  BY <1>1
<1> HIDE DEF Events
<1> DEFINE t == Append(s, e)
<1> HIDE DEF t
<1> QED
  BY <1>1, <1>2 DEF NoneIn, Single, Certified, OnlyFor, t

\* What taking an event does to them.
LEMMA Taking ==
  ASSUME NEW s \in Seq(Events), s # <<>>, NEW fp
  PROVE  /\ Tail(s) \in Seq(Events) /\ Head(s) \in Events
         /\ NoneIn(s) => NoneIn(Tail(s)) /\ ~IsQuestion(Head(s))
         /\ Single(s) => Single(Tail(s))
         /\ Certified(s) => Certified(Tail(s))
         /\ OnlyFor(s, fp) => OnlyFor(Tail(s), fp)
         /\ Single(s) /\ IsQuestion(Head(s)) => NoneIn(Tail(s))
         /\ Certified(s) /\ IsQuestion(Head(s)) => Head(s).fp \in Certs
         /\ OnlyFor(s, fp) /\ IsQuestion(Head(s)) => Head(s).fp = fp
<1>1. /\ Tail(s) \in Seq(Events) /\ Head(s) \in Events /\ Len(s) \in Nat /\ Len(s) > 0
      /\ Len(Tail(s)) = Len(s) - 1 /\ Head(s) = s[1]
      /\ \A i \in 1 .. Len(Tail(s)) : Tail(s)[i] = s[i + 1]
  OBVIOUS
<1>2. /\ 1 \in 1 .. Len(s)
      /\ \A i \in 1 .. Len(Tail(s)) : i + 1 \in 1 .. Len(s) /\ i + 1 # 1
      /\ \A i, j \in 1 .. Len(Tail(s)) : i + 1 = j + 1 => i = j
  BY <1>1
<1> DEFINE t == Tail(s)
<1> HIDE DEF t
<1>3. NoneIn(s) => NoneIn(t) /\ ~IsQuestion(Head(s))
  BY <1>1, <1>2 DEF NoneIn, t
<1>4. Single(s) => Single(t)
  BY <1>1, <1>2 DEF Single, t
<1>5. Certified(s) => Certified(t)
  BY <1>1, <1>2 DEF Certified, t
<1>6. OnlyFor(s, fp) => OnlyFor(t, fp)
  BY <1>1, <1>2 DEF OnlyFor, t
<1>7. Single(s) /\ IsQuestion(Head(s)) => NoneIn(t)
  BY <1>1, <1>2 DEF Single, NoneIn, t
<1>8. Certified(s) /\ IsQuestion(Head(s)) => Head(s).fp \in Certs
  BY <1>1, <1>2 DEF Certified
<1>9. OnlyFor(s, fp) /\ IsQuestion(Head(s)) => Head(s).fp = fp
  BY <1>1, <1>2 DEF OnlyFor
<1> QED
  BY <1>1, <1>3, <1>4, <1>5, <1>6, <1>7, <1>8, <1>9 DEF t

----------------------------------------------------------------------------
\* At the start nobody asks, and nothing was told.
LEMMA Start0 == Init => Inv
<1> SUFFICES ASSUME Init PROVE Inv
  OBVIOUS
<1>1. cfg \in Profiles /\ pin \in Pinned /\ yes = {pin} \ {""} /\ told = {}
  BY DEF Init
<1>2. w = [at |-> "idle", attempt |-> 0, stop |-> FALSE, state |-> "Disconnected"]
  BY Zenon DEF Init
<1>3. /\ port = "no" /\ via \in {"up", "gone"} /\ answer = 0
      /\ tab = "Connecting" /\ ui = "free" /\ asked = ""
  BY ZenonT(30) DEF Init
<1>4. events = <<>>
  BY Zenon DEF Init
<1>5. cfg \in [tls : BOOLEAN, via : BOOLEAN, password : BOOLEAN, user : BOOLEAN]
  BY <1>1, VncLinkAssumption
<1>6. c \in Clients /\ c.st = "Version" /\ ~c.enc /\ c.failure = ""
  BY <1>5 DEF Init, NewClient, Clients, Early
<1>7. MaxReconnects \in Nat
  BY VncLinkAssumption
<1>8. /\ w \in [at : Places, attempt : 0 .. MaxReconnects + 1, stop : BOOLEAN, state : States]
      /\ w.at = "idle" /\ ~w.stop
  BY <1>2, <1>7 DEF Places, States
<1>9. events \in Seq(Events) /\ Len(events) = 0
  BY <1>4
<1>10. pin \in Certs \cup {""} /\ yes \subseteq Certs
  BY <1>1, VncLinkAssumption
<1>11. Types
  BY <1>3, <1>5, <1>6, <1>8, <1>9, <1>10 DEF Types, States
<1>12. AskInv
  <2>1. NoneIn(events) /\ Single(events) /\ Certified(events)
    BY <1>9 DEF NoneIn, Single, Certified
  <2> QED
    BY <1>3, <1>8, <2>1 DEF AskInv, Leaving
<1>13. ClientInv
  BY <1>1, <1>6, <1>8 DEF ClientInv, Early, Late, Final
<1> QED
  BY <1>11, <1>12, <1>13 DEF Inv

\* A worker that leaves questions and answer alone and does not go to the prompt
\* keeps what is known of them.
LEMMA Aside ==
  ASSUME Inv, w'.stop = w.stop, w'.at # "prompt", w'.at = "tls" => ~w.stop, w.at # "done",
         answer' = answer, ui' = ui, asked' = asked, yes' = yes,
         ~(w.at = "prompt" /\ answer = 0) \/ w.stop,
         \/ events' = events
         \/ \E e \in Events : ~IsQuestion(e) /\ events' = Append(events, e)
  PROVE  AskInv' /\ events' \in Seq(Events)
<1>1. /\ events' \in Seq(Events)
      /\ NoneIn(events) => NoneIn(events')
      /\ Single(events) => Single(events')
      /\ Certified(events) => Certified(events')
  BY Posting DEF Inv, AskInv, Types
<1> QED
  BY <1>1 DEF Inv, AskInv, Types

\* A step that leaves the client alone, or puts one in its place that has not
\* begun, keeps what is known of it; accepting one more certificate does no harm.
LEMMA Untold ==
  ASSUME Inv, cfg' = cfg, yes \subseteq yes', pin' = pin, told' = told,
         c' = c \/ (c'.st = "Version" /\ ~c'.enc),
         w'.at \in {"tls", "prompt"} => c'.st = "TlsHandshake",
         w'.at \in {"ready", "loop"} => c'.st = "Ready",
         w'.at \in {"idle", "top", "backoff"} => c'.st = "Version",
         Final(c)' => w'.at \in {"failed", "out", "done"}
  PROVE  ClientInv'
  BY DEF Inv, ClientInv, Early, Late

\* A client's first record and its last are clients.
LEMMA Records ==
  ASSUME Inv
  PROVE  /\ NewClient \in Clients /\ NewClient.st = "Version" /\ ~NewClient.enc
         /\ NewClient.failure = ""
         /\ Closed(c) \in Clients /\ Closed(c).st = "Version" /\ ~Closed(c).enc
         /\ Closed(c).failure = c.failure
  BY DEF Inv, Types, NewClient, Closed, Clients, Early

\* What is left of the types when the worker has done its part.
LEMMA Typed ==
  ASSUME Types, UNCHANGED <<cfg, via, tab, ui, asked, yes>>,
         w' \in [at : Places, attempt : 0 .. MaxReconnects + 1, stop : BOOLEAN, state : States],
         w'.at = "loop" => w'.attempt = 0,
         c' \in Clients, events' \in Seq(Events), port' \in {"no", "asked", "up"},
         answer' \in {0 - 1, 0, 1}, pin' \in Certs \cup {""}
  PROVE  Types'
  BY DEF Types

\* The head of the loop: a new client, or none.
LEMMA ByTop == ASSUME Inv, Top PROVE Inv'
<1>1. /\ w.at = "top" /\ cfg' = cfg /\ via' = via /\ tab' = tab /\ ui' = ui /\ asked' = asked
      /\ yes' = yes /\ answer' = answer /\ pin' = pin /\ events' = events /\ told' = told
  BY DEF Top, At, Linked, Asking
<1>2. /\ w' \in [at : Places, attempt : 0 .. MaxReconnects + 1, stop : BOOLEAN, state : States]
      /\ w'.stop = w.stop /\ w'.at \in {"tunnel", "open", "out"}
  BY DEF Top, Go, Inv, Types, Places, States
<1>3. (c' = c \/ c' = NewClient) /\ port' \in {"no", "asked", "up"}
  BY DEF Top, Inv, Types
<1>4. AskInv'
  BY <1>1, <1>2, Aside
<1>5. c' \in Clients /\ ClientInv'
  <2>1. ~Final(c)
    BY <1>1 DEF Inv, ClientInv
  <2>2. c' \in Clients
    BY <1>3, Records DEF Inv, Types
  <2>3. ~Final(c)'
    BY <1>3, <2>1, Records DEF Final
  <2> QED
    BY <1>1, <1>2, <1>3, <2>2, <2>3, Records, Untold
<1>6. Types'
  <2>1. Types /\ answer' \in {0 - 1, 0, 1} /\ pin' \in Certs \cup {""} /\ events' \in Seq(Events)
    BY <1>1 DEF Inv, Types
  <2>2. UNCHANGED <<cfg, via, tab, ui, asked, yes>> /\ w'.at # "loop"
    BY <1>1, <1>2
  <2> QED
    BY <1>2, <1>3, <1>5, <2>1, <2>2, Typed
<1> QED
  BY <1>4, <1>5, <1>6 DEF Inv

\* The worker goes to another place, with the client it has or with what is left
\* of it, and posts something that is no question, or nothing.
LEMMA Moves ==
  ASSUME Inv, Linked, Asking, UNCHANGED <<port, told>>,
         w' \in [at : Places, attempt : 0 .. MaxReconnects + 1, stop : BOOLEAN, state : States],
         w'.stop = w.stop, w.at \notin {"idle", "prompt", "done"},
         w'.at \notin {"idle", "tls", "prompt"}, w'.at = "loop" => w'.attempt = 0,
         c' = c \/ c' = Closed(c),
         w'.at \in {"ready", "loop"} => c' = c /\ w.at \in {"ready", "loop"},
         w'.at \in {"top", "backoff"} => c' = Closed(c) \/ w.at = "backoff",
         Final(c) => w'.at \in {"failed", "out", "done"},
         \/ events' = events
         \/ \E e \in Events : ~IsQuestion(e) /\ events' = Append(events, e)
  PROVE  Inv'
<1>1. /\ cfg' = cfg /\ via' = via /\ tab' = tab /\ ui' = ui /\ asked' = asked
      /\ yes' = yes /\ answer' = answer /\ pin' = pin /\ told' = told /\ port' = port
  BY DEF Linked, Asking
<1>2. AskInv' /\ events' \in Seq(Events)
  BY <1>1, Aside
<1>3. c' \in Clients /\ (Final(c)' <=> Final(c))
  BY Records DEF Inv, Types, Final
<1>4. ClientInv'
  <2>1. c' = c \/ (c'.st = "Version" /\ ~c'.enc)
    BY Records
  <2>2. w'.at \in {"ready", "loop"} => c'.st = "Ready"
    BY DEF Inv, ClientInv
  <2>3. w'.at \in {"top", "backoff"} => c'.st = "Version"
    BY Records DEF Inv, ClientInv
  <2> QED
    BY <1>1, <1>3, <2>1, <2>2, <2>3, Untold
<1>5. Types'
  <2>1. Types /\ answer' \in {0 - 1, 0, 1} /\ pin' \in Certs \cup {""}
        /\ port' \in {"no", "asked", "up"}
    BY <1>1 DEF Inv, Types
  <2>2. UNCHANGED <<cfg, via, tab, ui, asked, yes>>
    BY <1>1
  <2> QED
    BY <1>2, <1>3, <2>1, <2>2, Typed
<1> QED
  BY <1>2, <1>4, <1>5 DEF Inv

\* What the worker may post is an event and, but for StartTls, no question.
LEMMA Posts ==
  ASSUME NEW type \in {"Connected", "Closed", "Error", "Status"},
         Post([type |-> type, fp |-> ""])
  PROVE  \E e \in Events : ~IsQuestion(e) /\ events' = Append(events, e)
<1>1. [type |-> type, fp |-> ""] \in Events /\ ~IsQuestion([type |-> type, fp |-> ""])
  BY DEF Events, IsQuestion
<1>2. events' = Append(events, [type |-> type, fp |-> ""])
  BY DEF Post
<1> QED
  BY <1>1, <1>2, Zenon

\* The bound on the attempts is a number.
LEMMA Limit == MaxReconnects \in Nat
  BY VncLinkAssumption

\* The worker's record, and that its count is one.
LEMMA Attempts ==
  Inv => /\ w \in [at : Places, attempt : 0 .. MaxReconnects + 1, stop : BOOLEAN, state : States]
         /\ w.attempt \in 0 .. MaxReconnects + 1 /\ w.attempt \in Nat
<1> SUFFICES ASSUME Inv
             PROVE  /\ w \in [at : Places, attempt : 0 .. MaxReconnects + 1, stop : BOOLEAN,
                              state : States]
                    /\ w.attempt \in 0 .. MaxReconnects + 1 /\ w.attempt \in Nat
  OBVIOUS
<1>1. w \in [at : Places, attempt : 0 .. MaxReconnects + 1, stop : BOOLEAN, state : States]
  BY DEF Inv, Types
<1>2. w.attempt \in 0 .. MaxReconnects + 1
  BY <1>1
<1> QED
  BY <1>1, <1>2, Limit

\* Where the worker only goes on to another place.
LEMMA ByMove ==
  ASSUME Inv, WaitForTunnel \/ OpenTransport \/ ShakeEnds \/ Backoff \/ LoopStops
  PROVE  Inv'
<1>1. Linked /\ Asking /\ port' = port /\ told' = told /\ events' = events
  BY DEF WaitForTunnel, OpenTransport, ShakeEnds, Backoff, LoopStops
<1>2. /\ w' \in [at : Places, attempt : 0 .. MaxReconnects + 1, stop : BOOLEAN, state : States]
      /\ w'.stop = w.stop /\ w.at \in {"tunnel", "open", "shake", "backoff", "loop"}
      /\ w'.at \in {"open", "shake", "failed", "top", "out"}
      /\ w'.at = "top" => w.at = "backoff"
      /\ w.at \in {"tunnel", "open", "backoff", "loop"} => w'.at # "idle"
      /\ w.at = "loop" => w'.at = "out"
  BY DEF WaitForTunnel, OpenTransport, ShakeEnds, Backoff, LoopStops, At, Go, Inv, Types,
     Places, States
<1>3. c' = c \/ c' = Closed(c)
  BY DEF WaitForTunnel, OpenTransport, ShakeEnds, Backoff, LoopStops
<1>4. ~Final(c)
  BY <1>2 DEF Inv, ClientInv
<1> QED
  BY <1>1, <1>2, <1>3, <1>4, Moves

\* A connection that is up starts the count anew.
LEMMA ByReady == ASSUME Inv, Ready PROVE Inv'
<1>1. Linked /\ Asking /\ port' = port /\ told' = told /\ c' = c
  BY DEF Ready
<1>2. /\ w' \in [at : Places, attempt : 0 .. MaxReconnects + 1, stop : BOOLEAN, state : States]
      /\ w'.stop = w.stop /\ w.at = "ready" /\ w'.at = "loop" /\ w'.attempt = 0
  <2>1. w' = [w EXCEPT !.at = "loop", !.attempt = 0, !.state = "Connected"] /\ w.at = "ready"
    BY DEF Ready, At
  <2>2. 0 \in 0 .. MaxReconnects + 1
    BY Limit
  <2>3. w \in [at : Places, attempt : 0 .. MaxReconnects + 1, stop : BOOLEAN, state : States]
    BY Attempts
  <2> QED
    BY <2>1, <2>2, <2>3 DEF Places, States
<1>3. \E e \in Events : ~IsQuestion(e) /\ events' = Append(events, e)
  BY Posts DEF Ready
<1>4. ~Final(c)
  BY <1>2 DEF Inv, ClientInv
<1> QED
  BY <1>1, <1>2, <1>3, <1>4, Moves

\* What Retry makes of the worker's record.
LEMMA Retries ==
  ASSUME Inv, Retry, w.attempt <= MaxReconnects
  PROVE  /\ w' \in [at : Places, attempt : 0 .. MaxReconnects + 1, stop : BOOLEAN, state : States]
         /\ w'.stop = w.stop /\ w'.at = "backoff"
         /\ \E e \in Events : ~IsQuestion(e) /\ events' = Append(events, e)
<1>1. \E e \in Events : ~IsQuestion(e) /\ events' = Append(events, e)
  BY Posts DEF Retry
<1>3. w.attempt + 1 \in 0 .. MaxReconnects + 1
  BY Limit, Attempts
<1> QED
  BY <1>1, <1>3 DEF Retry, Counted, Inv, Types, Places, States

\* A stream that ends is retried, counted from none.
LEMMA ByStreamEnds == ASSUME Inv, StreamEnds PROVE Inv'
<1>1. Linked /\ Asking /\ port' = port /\ told' = told /\ c' = Closed(c) /\ w.at = "loop"
  BY DEF StreamEnds, At
<1>2. w.attempt = 0 /\ MaxReconnects \in Nat
  BY <1>1, Limit DEF Inv, Types
<1>3. Retry /\ w.attempt <= MaxReconnects
  BY <1>2 DEF StreamEnds
<1>4. ~Final(c)
  BY <1>1 DEF Inv, ClientInv
<1> QED
  BY <1>1, <1>3, <1>4, Retries, Moves

\* A failed attempt is the last one, or counted.
LEMMA ByFailed == ASSUME Inv, Failed PROVE Inv'
<1>1. Linked /\ Asking /\ port' = port /\ told' = told /\ c' = Closed(c)
      /\ w.at \in {"failed", "refused"}
  BY DEF Failed
<1>2. CASE w.stop
  <2>1. /\ w' \in [at : Places, attempt : 0 .. MaxReconnects + 1, stop : BOOLEAN, state : States]
        /\ w'.stop = w.stop /\ w'.at = "out"
    BY <1>2 DEF Failed, Go, Inv, Types, Places
  <2>2. events' = events
    BY <1>2 DEF Failed
  <2> QED
    BY <1>1, <2>1, <2>2, Moves
<1>3. CASE ~w.stop /\ GiveUp
  <2>1. /\ w' \in [at : Places, attempt : 0 .. MaxReconnects + 1, stop : BOOLEAN, state : States]
        /\ w'.stop = w.stop /\ w'.at = "out"
    BY <1>3 DEF GiveUp, Inv, Types, Places, States
  <2>2. \E e \in Events : ~IsQuestion(e) /\ events' = Append(events, e)
    BY <1>3, Posts DEF GiveUp
  <2> QED
    BY <1>1, <2>1, <2>2, Moves
<1>4. CASE ~w.stop /\ Retry /\ ~Final(c) /\ w.attempt < MaxReconnects
  <2>1. w.attempt <= MaxReconnects
    BY <1>4, Limit, Attempts
  <2> QED
    BY <1>1, <1>4, <2>1, Retries, Moves
<1>5. w.attempt \in Nat /\ MaxReconnects \in Nat
  BY Limit, Attempts
<1> QED
  BY <1>2, <1>3, <1>4, <1>5 DEF Failed

\* The worker's return.
LEMMA ByOut == ASSUME Inv, Out PROVE Inv'
<1>1. Linked /\ Asking /\ port' = port /\ told' = told /\ c' = c /\ w.at = "out"
  BY DEF Out, At
<1>2. /\ w' \in [at : Places, attempt : 0 .. MaxReconnects + 1, stop : BOOLEAN, state : States]
      /\ w'.stop = w.stop /\ w'.at = "done"
  BY DEF Out, Go, Inv, Types, Places, States
<1>3. events' = events \/ \E e \in Events : ~IsQuestion(e) /\ events' = Append(events, e)
  BY Posts DEF Out
<1> QED
  BY <1>1, <1>2, <1>3, Moves

----------------------------------------------------------------------------
\* What one message of the server may make of a client.
Follows(k, l) ==
  /\ l \in Clients /\ l.fp = k.fp /\ l.enc = k.enc
  /\ l.st = "Failed" \/ l.failure = k.failure
  /\ k.st \in Early \cup Late /\ k.st \notin {"TlsHandshake", "Ready"}
  /\ k.st \in Late => l.st \in Late \cup {"Failed"}
  /\ cfg.tls /\ k.st \in Early => l.st \in Early \cup {"Failed"}

\* A client that fails.
LEMMA AfterFail ==
  ASSUME NEW k \in Clients, k.st \in Early \cup Late, k.st \notin {"TlsHandshake", "Ready"},
         NEW kind \in {"Protocol", "Authentication", "Refused"}
  PROVE  Follows(k, Fail(k, kind))
  BY DEF Follows, Fail, Clients

\* A client that goes on.
LEMMA AfterTo ==
  ASSUME NEW k \in Clients, k.st \in Early \cup Late, k.st \notin {"TlsHandshake", "Ready"},
         NEW st \in Early \cup Late, k.st \in Late => st \in Late,
         cfg.tls /\ k.st \in Early => st \in Early
  PROVE  Follows(k, To(k, st))
  BY DEF Follows, To, Clients

\* The server's version.
LEMMA FeedVersion ==
  ASSUME NEW k \in Clients, k.st = "Version", NEW l \in StepVersion(k) PROVE Follows(k, l)
<1>1. k.st \in Early
  BY DEF Early
<1>2. CASE l = Fail(k, "Protocol")
  BY <1>1, <1>2, AfterFail
<1>3. CASE \E m \in {3, 7, 8} : l = [To(k, "SecurityTypes") EXCEPT !.minor = m]
  BY <1>1, <1>3 DEF Follows, To, Clients, Early, Late
<1> QED
  BY <1>2, <1>3 DEF StepVersion

\* The security types: with TLS asked for, none but VeNCrypt goes on.
LEMMA FeedTypes ==
  ASSUME NEW k \in Clients, k.st = "SecurityTypes", NEW l \in StepSecurityTypes(k)
  PROVE  Follows(k, l)
<1>1. k.st \in Early /\ k.st \notin Late
  BY DEF Early, Late
<1>2. ASSUME NEW type \in {"None", "VncAuth"}, ~cfg.tls PROVE Follows(k, AfterSecurity(k, type))
  BY <1>1, <1>2, AfterTo DEF AfterSecurity, Late
<1>3. CASE l = To(k, "SecurityReason")
  BY <1>1, <1>3, AfterTo DEF Early
<1>4. CASE l \in StatedType(k) \ {To(k, "SecurityReason")}
  BY <1>1, <1>2, <1>4, AfterFail DEF StatedType, TlsHeld
<1>5. ASSUME NEW offers \in SUBSET Security, l = Chosen(k, offers) PROVE Follows(k, l)
  <2>1. CASE cfg.tls
    <3>1. l = To(k, "VeNCryptVersion") \/ l = Fail(k, "Authentication")
      BY <1>5, <2>1 DEF Chosen, TlsHeld
    <3> QED
      BY <1>1, <3>1, AfterTo, AfterFail DEF Early
  <2>2. CASE ~cfg.tls
    BY <1>1, <1>2, <1>5, <2>2, AfterFail DEF Chosen, TlsHeld
  <2> QED
    BY <2>1, <2>2
<1> QED
  BY <1>3, <1>4, <1>5 DEF StepSecurityTypes

\* The VeNCrypt messages, all of them before TLS.
LEMMA FeedVeNCrypt ==
  ASSUME NEW k \in Clients,
         NEW l \in Feed(k),
         k.st \in {"VeNCryptVersion", "VeNCryptVersionAck", "VeNCryptSubtypes",
                   "VeNCryptSubtypeAck"}
  PROVE  Follows(k, l)
<1>1. k.st \in Early /\ k.st \notin {"TlsHandshake", "Ready"} /\ k.st \notin Late
  BY DEF Early, Late
<1>2. CASE \E kind \in {"Protocol", "Authentication", "Refused"} : l = Fail(k, kind)
  BY <1>1, <1>2, AfterFail
<1>3. CASE \E st \in Early : l = To(k, st)
  BY <1>1, <1>3, AfterTo
<1>4. CASE \E sub \in Subtypes : l = [To(k, "VeNCryptSubtypeAck") EXCEPT !.sub = sub]
  BY <1>1, <1>4 DEF Follows, To, Clients, Early
<1>5. CASE k.st = "VeNCryptVersion"
  BY <1>2, <1>3, <1>5 DEF Feed, StepVeNCryptVersion, Early
<1>6. CASE k.st = "VeNCryptVersionAck"
  BY <1>2, <1>3, <1>6 DEF Feed, StepVeNCryptVersionAck, Early
<1>7. CASE k.st = "VeNCryptSubtypes"
  <2>1. l \in StepVeNCryptSubtypes(k)
    BY <1>7 DEF Feed
  <2>2. PICK o \in SUBSET Subtypes :
          l = IF VeNCryptChoose(o) = "" THEN Fail(k, "Authentication")
              ELSE [To(k, "VeNCryptSubtypeAck") EXCEPT !.sub = VeNCryptChoose(o)]
    BY <2>1 DEF StepVeNCryptSubtypes
  <2>3. VeNCryptChoose(o) \in Subtypes \cup {""}
    BY DEF VeNCryptChoose, Subtypes
  <2> QED
    BY <1>2, <1>4, <2>2, <2>3
<1>8. CASE k.st = "VeNCryptSubtypeAck"
  BY <1>2, <1>3, <1>8 DEF Feed, StepVeNCryptSubtypeAck, Early
<1> QED
  BY <1>5, <1>6, <1>7, <1>8

\* The messages that need no choice.
LEMMA FeedLate ==
  ASSUME NEW k \in Clients,
         NEW l \in Feed(k),
         k.st \in {"SecurityReason", "VncAuthChallenge", "SecurityResult", "ServerInit"}
  PROVE  Follows(k, l)
<1>1. k.st \in Early \cup Late /\ k.st \notin {"TlsHandshake", "Ready"}
  BY DEF Early, Late
<1>2. CASE \E kind \in {"Protocol", "Authentication", "Refused"} : l = Fail(k, kind)
  BY <1>1, <1>2, AfterFail
<1>3. CASE k.st \in Late /\ \E st \in Late : l = To(k, st)
  <2>1. k.st \notin Early
    BY <1>3 DEF Early, Late
  <2> QED
    BY <1>1, <1>3, <2>1, AfterTo
<1>4. CASE k.st = "SecurityReason"
  BY <1>2, <1>4 DEF Feed, StepSecurityReason
<1>5. CASE k.st = "VncAuthChallenge"
  <2>1. l = [To(k, "SecurityResult") EXCEPT !.pw = FALSE]
    BY <1>5 DEF Feed, StepVncAuthChallenge
  <2> QED
    BY <1>5, <2>1 DEF Follows, To, Clients, Early, Late
<1>6. CASE k.st = "SecurityResult"
  BY <1>2, <1>3, <1>6 DEF Feed, StepSecurityResult, Late
<1>7. CASE k.st = "ServerInit"
  BY <1>2, <1>3, <1>7 DEF Feed, StepServerInit, Late
<1> QED
  BY <1>4, <1>5, <1>6, <1>7

\* Whatever the server sends next.
LEMMA Feeding == ASSUME NEW k \in Clients, NEW l \in Feed(k) PROVE Follows(k, l)
<1>1. CASE k.st = "Version"
  BY <1>1, FeedVersion DEF Feed
<1>2. CASE k.st = "SecurityTypes"
  BY <1>2, FeedTypes DEF Feed
<1>3. CASE k.st \in {"VeNCryptVersion", "VeNCryptVersionAck", "VeNCryptSubtypes",
                     "VeNCryptSubtypeAck"}
  BY <1>3, FeedVeNCrypt
<1>4. CASE k.st \in {"SecurityReason", "VncAuthChallenge", "SecurityResult", "ServerInit"}
  BY <1>4, FeedLate
<1>5. CASE k.st \in {"TlsHandshake", "Ready", "Failed"}
  BY <1>5 DEF Feed
<1> QED
  BY <1>1, <1>2, <1>3, <1>4, <1>5 DEF Clients, Early, Late

\* One message of the negotiation.
LEMMA ByShake == ASSUME Inv, Shake PROVE Inv'
<1>1. /\ cfg' = cfg /\ via' = via /\ tab' = tab /\ ui' = ui /\ asked' = asked /\ yes' = yes
      /\ answer' = answer /\ pin' = pin /\ port' = port /\ events' = events
      /\ w.at = "shake" /\ ~w.stop
  BY DEF Shake, At, Linked, Asking
<1>2. PICK l \in Feed(c) :
        /\ c' = l /\ told' = told \cup Tells(c, l)
        /\ w' = [w EXCEPT !.state = Shown(c),
                          !.at = CASE l.st = "Failed" -> "failed"
                                   [] l.st = "TlsHandshake" -> "tls"
                                   [] l.st = "Ready" -> "ready"
                                   [] OTHER -> "shake"]
  BY DEF Shake
<1>3. Follows(c, l)
  BY Feeding DEF Inv, Types
<1>4. /\ w' \in [at : Places, attempt : 0 .. MaxReconnects + 1, stop : BOOLEAN, state : States]
      /\ w'.stop = w.stop /\ w'.at \in {"failed", "tls", "ready", "shake"}
      /\ w'.at = "failed" <=> l.st = "Failed"
      /\ w'.at = "tls" <=> l.st = "TlsHandshake"
      /\ w'.at = "ready" <=> l.st = "Ready"
  <2>1. w \in [at : Places, attempt : 0 .. MaxReconnects + 1, stop : BOOLEAN, state : States]
        /\ Shown(c) \in States
    BY DEF Inv, Types, Shown, States
  <2> QED
    BY <1>2, <2>1 DEF Places
<1>5. AskInv'
  BY <1>1, <1>4, Aside
<1>6. Types'
  <2>1. UNCHANGED <<cfg, via, tab, ui, asked, yes>> /\ c' \in Clients
    BY <1>1, <1>2, <1>3 DEF Follows
  <2>2. Types /\ events' \in Seq(Events) /\ port' \in {"no", "asked", "up"}
        /\ answer' \in {0 - 1, 0, 1} /\ pin' \in Certs \cup {""}
    BY <1>1 DEF Inv, Types
  <2> QED
    BY <1>4, <2>1, <2>2, Typed
<1>7. ClientInv'
  <2>1. ClientInv /\ ~Final(c)
    BY <1>1 DEF Inv, ClientInv
  <2>2. c'.enc => c'.fp \in yes' \cup Trusted
    BY <1>1, <1>2, <1>3, <2>1 DEF ClientInv, Follows
  <2>3. c'.st \in Early => ~c'.enc
    BY <1>2, <1>3, <2>1 DEF ClientInv, Follows, Early, Late
  <2>4. cfg'.tls /\ c'.st \in Late => c'.enc
    BY <1>1, <1>2, <1>3, <2>1 DEF ClientInv, Follows, Early, Late
  <2>5. cfg.tls => Tells(c, l) \subseteq yes \cup Trusted
    BY <1>1, <1>2, <2>2, <2>4 DEF Tells, Secret, Late
  <2>6. Final(c)' => w'.at = "failed"
    BY <1>2, <1>3, <1>4, <2>1 DEF Final, Follows
  <2> QED
    BY <1>1, <1>2, <1>4, <2>1, <2>2, <2>3, <2>4, <2>5, <2>6 DEF ClientInv
<1> QED
  BY <1>5, <1>6, <1>7 DEF Inv

\* TLS comes up under a certificate that was accepted.
LEMMA Accepting ==
  ASSUME Inv, NEW fp \in Certs, fp \in yes \cup Trusted, Accept(fp), pin' = fp,
         cfg' = cfg, yes' = yes, w.at \in {"tls", "prompt"}
  PROVE  /\ c' \in Clients /\ ClientInv'
         /\ w' = [w EXCEPT !.at = "shake"]
<1>1. c' = TlsEstablished([c EXCEPT !.fp = fp]) /\ told' = told \cup Tells(c, c')
      /\ w' = [w EXCEPT !.at = "shake"]
  BY DEF Accept, Go
<1>2. [c EXCEPT !.fp = fp] \in Clients /\ c \in Clients
  BY DEF Inv, Types, Clients
<1>3. /\ c' \in Clients /\ c'.st \in {"VncAuthChallenge", "SecurityResult"} /\ c'.enc
      /\ c'.fp = fp /\ c'.failure = c.failure
  <2> DEFINE k == [c EXCEPT !.fp = fp]
  <2>1. k \in Clients /\ k.fp = fp /\ k.failure = c.failure
    BY <1>2 DEF Clients
  <2> HIDE DEF k
  <2>2. /\ TlsEstablished(k) \in Clients /\ TlsEstablished(k).enc
        /\ TlsEstablished(k).st \in {"VncAuthChallenge", "SecurityResult"}
        /\ TlsEstablished(k).fp = k.fp /\ TlsEstablished(k).failure = k.failure
    BY <2>1 DEF TlsEstablished, To, Clients, Late
  <2> QED
    BY <1>1, <2>1, <2>2 DEF k
<1>4. Tells(c, c') \subseteq {fp}
  BY <1>3 DEF Tells, Secret
<1>5. w'.at = "shake"
  BY <1>1 DEF Inv, Types
<1>6. ~Final(c)'
  BY <1>3 DEF Inv, ClientInv, Final
<1> QED
  BY <1>1, <1>3, <1>4, <1>5, <1>6 DEF Inv, ClientInv, Early

\* The certificate is accepted, asked about or refused.
LEMMA ByStartTls == ASSUME Inv, StartTls PROVE Inv'
<1>1. /\ cfg' = cfg /\ via' = via /\ tab' = tab /\ ui' = ui /\ asked' = asked /\ yes' = yes
      /\ port' = port /\ w.at = "tls"
  BY DEF StartTls, At, Linked
<1>2. /\ Types /\ UNCHANGED <<cfg, via, tab, ui, asked, yes>> /\ port' \in {"no", "asked", "up"}
      /\ w \in [at : Places, attempt : 0 .. MaxReconnects + 1, stop : BOOLEAN, state : States]
  BY <1>1 DEF Inv, Types
<1>3. CASE Go("failed") /\ Asking /\ UNCHANGED <<c, events, told>>
  <2>1. /\ w' \in [at : Places, attempt : 0 .. MaxReconnects + 1, stop : BOOLEAN, state : States]
        /\ w'.stop = w.stop /\ w'.at = "failed"
    BY <1>2, <1>3 DEF Go, Places
  <2>2. Linked /\ UNCHANGED port
    BY DEF StartTls
  <2> QED
    BY <1>1, <1>3, <2>1, <2>2, Moves
<1>4. ASSUME NEW fp \in Certs, Accepts(fp), Accept(fp), pin' = fp, UNCHANGED <<answer, events>>
      PROVE  Inv'
  <2>1. fp \in yes \cup Trusted
    BY <1>4, VncLinkAssumption DEF Accepts, Inv, ClientInv
  <2>2. c' \in Clients /\ ClientInv' /\ w' = [w EXCEPT !.at = "shake"]
    BY <1>1, <1>4, <2>1, Accepting
  <2>3. /\ w' \in [at : Places, attempt : 0 .. MaxReconnects + 1, stop : BOOLEAN, state : States]
        /\ w'.stop = w.stop /\ w'.at = "shake"
    BY <1>2, <2>2 DEF Places
  <2>4. AskInv' /\ events' \in Seq(Events)
    BY <1>1, <1>4, <2>3, Aside
  <2>5. answer' \in {0 - 1, 0, 1} /\ pin' \in Certs \cup {""}
    BY <1>4 DEF Inv, Types
  <2>6. Types'
    BY <1>2, <2>2, <2>3, <2>4, <2>5, Typed
  <2> QED
    BY <2>2, <2>4, <2>6 DEF Inv
<1>5. ASSUME NEW fp \in Certs, ~Accepts(fp), answer' = Cleared,
             Post([type |-> "CertPrompt", fp |-> fp]), c' = [c EXCEPT !.fp = fp],
             Go("prompt"), UNCHANGED <<pin, told>>
      PROVE  Inv'
  <2>1. /\ w' \in [at : Places, attempt : 0 .. MaxReconnects + 1, stop : BOOLEAN, state : States]
        /\ w'.stop = w.stop /\ w'.at = "prompt"
    BY <1>2, <1>5 DEF Go, Places
  <2>2. [type |-> "CertPrompt", fp |-> fp] \in Events
    BY DEF Events
  <2>3. events' = Append(events, [type |-> "CertPrompt", fp |-> fp])
    BY <1>5 DEF Post
  <2>4. NoneIn(events) /\ ui # "asking" /\ events \in Seq(Events)
    BY <1>1 DEF Inv, AskInv, Types
  <2>5. events' \in Seq(Events) /\ Single(events') /\ Certified(events') /\ OnlyFor(events', fp)
    BY <2>2, <2>3, <2>4, Posting
  <2>6. c' \in Clients /\ c'.fp = fp /\ c'.st = c.st /\ c'.enc = c.enc /\ c'.failure = c.failure
    BY <1>5 DEF Inv, Types, Clients
  <2>7. answer' = 0
    BY <1>5 DEF Cleared
  <2>8. AskInv'
    BY <1>1, <2>1, <2>4, <2>5, <2>6, <2>7 DEF Inv, AskInv
  <2>9. ClientInv'
    BY <1>1, <1>5, <2>1, <2>6 DEF Inv, ClientInv, Early, Late, Final
  <2>10. pin' \in Certs \cup {""} /\ answer' \in {0 - 1, 0, 1}
    BY <1>5, <2>7 DEF Inv, Types
  <2>11. Types'
    BY <1>2, <2>1, <2>5, <2>6, <2>10, Typed
  <2> QED
    BY <2>8, <2>9, <2>11 DEF Inv
<1> QED
  BY <1>3, <1>4, <1>5 DEF StartTls

\* The answer that ends the wait is about the certificate shown.
LEMMA ByAnswered == ASSUME Inv, Answered PROVE Inv'
<1>1. /\ cfg' = cfg /\ via' = via /\ tab' = tab /\ ui' = ui /\ asked' = asked /\ yes' = yes
      /\ port' = port /\ events' = events /\ answer' = answer /\ w.at = "prompt"
      /\ answer # 0 \/ w.stop
  BY DEF Answered, At, Linked, Released
<1>2. /\ Types /\ UNCHANGED <<cfg, via, tab, ui, asked, yes>> /\ port' \in {"no", "asked", "up"}
      /\ w \in [at : Places, attempt : 0 .. MaxReconnects + 1, stop : BOOLEAN, state : States]
      /\ answer' \in {0 - 1, 0, 1} /\ events' \in Seq(Events)
  BY <1>1 DEF Inv, Types
<1>3. CASE answer = 1 /\ pin' = c.fp /\ Accept(c.fp)
  <2>1. c.fp \in yes /\ c.fp \in Certs
    BY <1>1, <1>3 DEF Inv, AskInv, Types
  <2>2. c' \in Clients /\ ClientInv' /\ w' = [w EXCEPT !.at = "shake"]
    BY <1>1, <1>3, <2>1, Accepting
  <2>3. /\ w' \in [at : Places, attempt : 0 .. MaxReconnects + 1, stop : BOOLEAN, state : States]
        /\ w'.stop = w.stop /\ w'.at = "shake"
    BY <1>2, <2>2 DEF Places
  <2>4. AskInv'
    BY <1>1, <1>3, <2>3, Aside
  <2>5. Types'
    BY <1>2, <1>3, <2>1, <2>2, <2>3, Typed
  <2> QED
    BY <2>2, <2>4, <2>5 DEF Inv
<1>4. CASE Go("refused") /\ UNCHANGED <<c, pin, told>>
  <2>1. /\ w' \in [at : Places, attempt : 0 .. MaxReconnects + 1, stop : BOOLEAN, state : States]
        /\ w'.stop = w.stop /\ w'.at = "refused"
    BY <1>2, <1>4 DEF Go, Places
  <2>2. AskInv'
    BY <1>1, <2>1, Aside
  <2>3. ~Final(c)' /\ c' = c
    BY <1>1, <1>4 DEF Inv, ClientInv, Final
  <2>4. ClientInv'
    BY <1>1, <1>4, <2>1, <2>3, Untold
  <2>5. c' \in Clients /\ pin' \in Certs \cup {""}
    BY <1>4 DEF Inv, Types
  <2>6. Types'
    BY <1>2, <2>1, <2>5, Typed
  <2> QED
    BY <2>2, <2>4, <2>6 DEF Inv
<1> QED
  BY <1>3, <1>4 DEF Answered

----------------------------------------------------------------------------
\* The other side: the tab and the SSH session change neither the client nor
\* what was told.
LEMMA Outside ==
  ASSUME Inv, w' \in [at : Places, attempt : 0 .. MaxReconnects + 1, stop : BOOLEAN,
                      state : States],
         w'.at = w.at \/ (w.at = "idle" /\ w'.at = "top"), w'.attempt = w.attempt,
         UNCHANGED <<cfg, c, pin, told>>, yes \subseteq yes', yes' \subseteq Certs,
         port' \in {"no", "asked", "up"}, via' \in {"up", "lost", "gone"},
         answer' \in {0 - 1, 0, 1}, events' \in Seq(Events), tab' \in States,
         ui' \in {"free", "asking", "left"} \cup Leaving, asked' \in Certs \cup {""}
  PROVE  Types' /\ ClientInv'
<1>1. Types'
  BY DEF Inv, Types
<1>2. ClientInv'
  BY Untold DEF Inv, ClientInv, Final
<1> QED
  BY <1>1, <1>2

\* The tab starts its worker.
LEMMA ByStart == ASSUME Inv, Start PROVE Inv'
<1>1. UNCHANGED <<cfg, c, port, via, answer, events, tab, ui, asked, pin, yes, told>>
      /\ w.at = "idle" /\ ui = "free"
  BY DEF Start, At
<1>2. /\ w' \in [at : Places, attempt : 0 .. MaxReconnects + 1, stop : BOOLEAN, state : States]
      /\ w'.at = "top" /\ w'.attempt = w.attempt /\ w'.stop = w.stop
  BY Attempts DEF Start, Places, States
<1>3. Types' /\ ClientInv'
  BY <1>1, <1>2, Outside DEF Inv, Types
<1>4. AskInv'
  BY <1>1, <1>2 DEF Inv, AskInv, Leaving
<1> QED
  BY <1>3, <1>4 DEF Inv

\* The tab takes an event, which may be the question.
LEMMA ByPump == ASSUME Inv, PumpVncEvents PROVE Inv'
<1>1. UNCHANGED <<cfg, w, c, port, via, answer, pin, yes, told>>
      /\ ui = "free" /\ events # <<>> /\ events' = Tail(events) /\ tab' = TabState(Head(events))
      /\ IF Head(events).type = "CertPrompt"
         THEN ui' = "asking" /\ asked' = Head(events).fp
         ELSE UNCHANGED <<ui, asked>>
  BY DEF PumpVncEvents
<1>2. events \in Seq(Events) /\ Single(events) /\ Certified(events)
  BY DEF Inv, Types, AskInv
<1>3. /\ Tail(events) \in Seq(Events) /\ Head(events) \in Events
      /\ NoneIn(events) => NoneIn(Tail(events)) /\ ~IsQuestion(Head(events))
      /\ Single(Tail(events)) /\ Certified(Tail(events))
      /\ IsQuestion(Head(events)) => NoneIn(Tail(events)) /\ Head(events).fp \in Certs
      /\ OnlyFor(events, c.fp) => OnlyFor(Tail(events), c.fp)
      /\ OnlyFor(events, c.fp) /\ IsQuestion(Head(events)) => Head(events).fp = c.fp
  BY <1>1, <1>2, Taking
<1>4. TabState(Head(events)) \in States
  BY DEF TabState, Inv, Types, States
<1>5. ui' \in {"free", "asking"} /\ asked' \in Certs \cup {""}
  BY <1>1, <1>3 DEF IsQuestion, Inv, Types
<1>6. Types' /\ ClientInv'
  <2>1. /\ w' \in [at : Places, attempt : 0 .. MaxReconnects + 1, stop : BOOLEAN, state : States]
        /\ w'.at = w.at /\ w'.attempt = w.attempt
    BY <1>1, Attempts
  <2> QED
    BY <1>1, <1>3, <1>4, <1>5, <2>1, Outside DEF Inv, Types
<1>7. ASSUME IsQuestion(Head(events)) PROVE AskInv'
  BY <1>1, <1>3, <1>7 DEF Inv, AskInv, Leaving, IsQuestion
<1>8. ASSUME ~IsQuestion(Head(events)) PROVE AskInv'
  BY <1>1, <1>3, <1>8 DEF Inv, AskInv, Leaving, IsQuestion
<1> QED
  BY <1>6, <1>7, <1>8 DEF Inv

\* The user's answer, about the certificate on the screen.
LEMMA ByAnswer ==
  ASSUME Inv, NEW a \in {1, 0 - 1}, AnswerCertificate(a) PROVE Inv'
<1>1. UNCHANGED <<cfg, w, c, port, via, events, tab, pin, told>>
      /\ ui = "asking" /\ answer' = a /\ ui' = "free" /\ asked' = ""
      /\ yes' = (IF a = 1 THEN yes \cup {asked} ELSE yes)
  BY DEF AnswerCertificate
<1>2. asked \in Certs /\ NoneIn(events)
  BY <1>1 DEF Inv, AskInv
<1>3. /\ w' \in [at : Places, attempt : 0 .. MaxReconnects + 1, stop : BOOLEAN, state : States]
      /\ w'.at = w.at /\ w'.attempt = w.attempt
  BY <1>1, Attempts
<1>4. yes \subseteq yes' /\ yes' \subseteq Certs
  BY <1>1, <1>2 DEF Inv, Types
<1>5. Types' /\ ClientInv'
  BY <1>1, <1>3, <1>4, Outside DEF Inv, Types
<1>6. w.at = "prompt" /\ answer' = 1 => c.fp \in yes'
  BY <1>1 DEF Inv, AskInv
<1>7. AskInv'
  BY <1>1, <1>2, <1>6 DEF Inv, AskInv, Leaving
<1> QED
  BY <1>5, <1>7 DEF Inv

\* The stop set, with the UI thread inside Disconnect from then on.
LEMMA ByDisconnect ==
  ASSUME Inv, NEW after \in Leaving, Disconnect(after), ui = "free", w.at # "idle",
         tab' = tab, via' \in {"up", "lost", "gone"}
  PROVE  Inv'
<1>1. UNCHANGED <<cfg, c, port, answer, events, asked, pin, yes, told>>
      /\ w' = [w EXCEPT !.stop = TRUE] /\ ui' = after
  BY DEF Disconnect
<1>2. /\ w' \in [at : Places, attempt : 0 .. MaxReconnects + 1, stop : BOOLEAN, state : States]
      /\ w'.at = w.at /\ w'.attempt = w.attempt /\ w'.stop
  BY <1>1, Attempts
<1>3. Types' /\ ClientInv'
  BY <1>1, <1>2, Outside DEF Inv, Types
<1>4. ui' # "asking" /\ ui' \in Leaving
  BY <1>1 DEF Leaving
<1>5. AskInv'
  BY <1>1, <1>2, <1>4 DEF Inv, AskInv
<1> QED
  BY <1>3, <1>5 DEF Inv

\* The tab or its tunnel is closed.
LEMMA ByClose == ASSUME Inv, CloseSessionNow \/ VncOnSshClosed PROVE Inv'
<1>1. CASE CloseSessionNow
  BY <1>1, ByDisconnect DEF CloseSessionNow, Leaving, Inv, Types
<1>2. CASE VncOnSshClosed /\ ~NotRunning
  BY <1>2, ByDisconnect DEF VncOnSshClosed, NotRunning, Leaving
<1>3. CASE VncOnSshClosed /\ NotRunning
  <2>1. UNCHANGED <<cfg, w, c, port, answer, events, ui, asked, pin, yes, told, tab>>
        /\ via' = "gone"
    BY <1>3 DEF VncOnSshClosed
  <2>2. /\ w' \in [at : Places, attempt : 0 .. MaxReconnects + 1, stop : BOOLEAN, state : States]
        /\ w'.at = w.at /\ w'.attempt = w.attempt
    BY <2>1, Attempts
  <2>3. Types' /\ ClientInv'
    BY <2>1, <2>2, Outside DEF Inv, Types
  <2>4. AskInv'
    BY <2>1 DEF Inv, AskInv
  <2> QED
    BY <2>3, <2>4 DEF Inv
<1> QED
  BY <1>1, <1>2, <1>3

\* Disconnect answers the question that is open.
LEMMA ByRefuse == ASSUME Inv, RefuseQuestion PROVE Inv'
<1>1. UNCHANGED <<cfg, w, c, port, via, events, tab, asked, pin, yes, told>>
      /\ ui \in Leaving /\ ui' \in Leaving /\ answer' \in {answer, 0 - 1}
  BY DEF RefuseQuestion, Leaving
<1>2. /\ w' \in [at : Places, attempt : 0 .. MaxReconnects + 1, stop : BOOLEAN, state : States]
      /\ w'.at = w.at /\ w'.attempt = w.attempt
  BY <1>1, Attempts
<1>3. Types' /\ ClientInv'
  <2>1. /\ port' \in {"no", "asked", "up"} /\ via' \in {"up", "lost", "gone"}
        /\ answer' \in {0 - 1, 0, 1} /\ events' \in Seq(Events) /\ tab' \in States
        /\ asked' \in Certs \cup {""} /\ yes' \subseteq Certs
    BY <1>1 DEF Inv, Types
  <2>2. UNCHANGED <<cfg, c, pin, told>> /\ yes \subseteq yes'
    BY <1>1
  <2> QED
    BY <1>1, <1>2, <2>1, <2>2, Outside
<1>4. ui' # "asking" /\ w.stop
  BY <1>1 DEF Leaving, Inv, AskInv
<1>5. answer' = 1 => answer = 1
  BY <1>1
<1>6. AskInv'
  BY <1>1, <1>4, <1>5 DEF Inv, AskInv
<1> QED
  BY <1>3, <1>6 DEF Inv

\* The worker is joined.
LEMMA ByJoined == ASSUME Inv, Joined PROVE Inv'
<1>1. UNCHANGED <<cfg, c, port, via, answer, events, asked, pin, yes, told>>
      /\ ui \in Leaving /\ ui' \in {"left", "free"} /\ tab' \in {tab, "Error"} /\ w.at = "done"
  BY DEF Joined, At, Leaving
<1>2. /\ w' \in [at : Places, attempt : 0 .. MaxReconnects + 1, stop : BOOLEAN, state : States]
      /\ w'.at = w.at /\ w'.attempt = w.attempt /\ w'.stop = w.stop
  BY Attempts DEF Joined, States
<1>3. Types' /\ ClientInv'
  <2>1. /\ port' \in {"no", "asked", "up"} /\ via' \in {"up", "lost", "gone"}
        /\ answer' \in {0 - 1, 0, 1} /\ events' \in Seq(Events) /\ tab' \in States
        /\ asked' \in Certs \cup {""} /\ yes' \subseteq Certs
    BY <1>1 DEF Inv, Types, States
  <2>2. UNCHANGED <<cfg, c, pin, told>> /\ yes \subseteq yes'
    BY <1>1
  <2> QED
    BY <1>1, <1>2, <2>1, <2>2, Outside
<1>4. ui' # "asking" /\ ui' \notin Leaving
  BY <1>1 DEF Leaving
<1>5. AskInv'
  BY <1>1, <1>2, <1>4 DEF Inv, AskInv
<1> QED
  BY <1>3, <1>5 DEF Inv

\* The SSH session, and nothing at all.
LEMMA BySsh ==
  ASSUME Inv, OnForwardUp \/ (\E how \in {"lost", "gone"} : SshEnds(how)) \/ UNCHANGED vars
  PROVE  Inv'
<1>1. UNCHANGED <<cfg, w, c, answer, events, tab, ui, asked, pin, yes, told>>
      /\ port' \in {port, "up"} /\ via' \in {via, "lost", "gone"}
  BY DEF OnForwardUp, SshEnds, vars
<1>2. /\ w' \in [at : Places, attempt : 0 .. MaxReconnects + 1, stop : BOOLEAN, state : States]
      /\ w'.at = w.at /\ w'.attempt = w.attempt
  BY <1>1, Attempts
<1>3. Types' /\ ClientInv'
  <2>1. /\ port' \in {"no", "asked", "up"} /\ via' \in {"up", "lost", "gone"}
        /\ answer' \in {0 - 1, 0, 1} /\ events' \in Seq(Events) /\ tab' \in States
        /\ ui' \in {"free", "asking", "left"} \cup Leaving
        /\ asked' \in Certs \cup {""} /\ yes' \subseteq Certs
    BY <1>1 DEF Inv, Types
  <2>2. UNCHANGED <<cfg, c, pin, told>> /\ yes \subseteq yes'
    BY <1>1
  <2> QED
    BY <1>1, <1>2, <2>1, <2>2, Outside
<1>4. AskInv'
  BY <1>1 DEF Inv, AskInv
<1> QED
  BY <1>3, <1>4 DEF Inv

----------------------------------------------------------------------------
\* Every step keeps the invariant.
LEMMA Step == Inv /\ [Next]_vars => Inv'
<1> SUFFICES ASSUME Inv, [Next]_vars PROVE Inv'
  OBVIOUS
<1>1. CASE Top \/ Shake \/ StartTls \/ Answered
  BY <1>1, ByTop, ByShake, ByStartTls, ByAnswered
<1>2. CASE WaitForTunnel \/ OpenTransport \/ ShakeEnds \/ Backoff \/ LoopStops
  BY <1>2, ByMove
<1>3. CASE Ready \/ StreamEnds \/ Failed \/ Out
  BY <1>3, ByReady, ByStreamEnds, ByFailed, ByOut
<1>4. CASE Start \/ PumpVncEvents \/ RefuseQuestion \/ Joined
  BY <1>4, ByStart, ByPump, ByRefuse, ByJoined
<1>5. CASE \E a \in {1, 0 - 1} : AnswerCertificate(a)
  BY <1>5, ByAnswer
<1>6. CASE CloseSessionNow \/ VncOnSshClosed
  BY <1>6, ByClose
<1>7. CASE OnForwardUp \/ (\E how \in {"lost", "gone"} : SshEnds(how)) \/ UNCHANGED vars
  BY <1>7, BySsh
<1> QED
  BY <1>1, <1>2, <1>3, <1>4, <1>5, <1>6, <1>7 DEF Next, Worker, Ui

\* The invariant holds in every behaviour.
LEMMA Invariance == Spec => []Inv
  BY Start0, Step, PTL DEF Spec

\* What is pinned, and what a password went under, was accepted: by the user when
\* it was on the screen, or by its chain; and a profile that must have TLS tells
\* its password and shows its desktop inside TLS only.
THEOREM SecretsSafe == Spec => []SecretsAreSafe
<1>1. Inv => TypeOK
  BY DEF Inv, Types, ClientInv, TypeOK, Places, Leaving, Clients, Early
<1>2. Inv => PinsAreAccepted /\ NeverInTheClear
  BY DEF Inv, ClientInv, PinsAreAccepted, NeverInTheClear, Late
<1> QED
  BY <1>1, <1>2, Invariance, PTL DEF SecretsAreSafe

\* A client that was told no, or whose profile forbids what the server offers, is
\* the last one of its worker.
THEOREM RefusalsLast == Spec => RefusalIsLast
<1>1. Inv /\ [Next]_vars =>
        [c.failure \in {"Authentication", "Refused"} => c'.failure = c.failure]_vars
  <2> SUFFICES ASSUME Inv, [Next]_vars, Final(c) PROVE c'.failure = c.failure
    BY DEF Final
  <2>1. w.at \in {"failed", "out", "done"}
    BY DEF Inv, ClientInv
  <2>2. CASE Failed
    BY <2>2, Records DEF Failed
  <2>3. CASE ~Failed
    BY <2>1, <2>3 DEF Next, Worker, Ui, vars, At, Top, WaitForTunnel, OpenTransport, Shake,
       ShakeEnds, StartTls, Answered, Ready, LoopStops, Backoff, Out, StreamEnds, Start,
       PumpVncEvents, AnswerCertificate, VncOnSshClosed, RefuseQuestion, Joined,
       CloseSessionNow, OnForwardUp, SshEnds, Disconnect
  <2> QED
    BY <2>2, <2>3
<1> QED
  BY <1>1, Invariance, PTL DEF Spec, RefusalIsLast

----------------------------------------------------------------------------
(* What the tab shows.                                                      *)

\* The last event in the queue is one of these types or, when the tab has taken
\* them all, it shows one of these states.
Said(types, shown) ==
  IF events = <<>> THEN tab \in shown ELSE events[Len(events)].type \in types

\* What the worker does is the last thing it posted; an error is final.
TabInv ==
  /\ w.state = "Error" => w.at \in {"out", "done"}
  /\ w.at = "loop" => Said({"Connected"}, {"Connected"})
  /\ w.at = "backoff" => w.state = "Reconnecting" /\ Said({"Status"}, {"Reconnecting"})
  /\ w.at = "out" /\ w.state = "Error" => Said({"Error"}, {"Error"})
  /\ w.at = "done" => Said({"Closed", "Error"}, {"Disconnected", "Error"})

\* What is appended is last.
LEMMA Ends ==
  ASSUME NEW s \in Seq(Events), NEW e \in Events
  PROVE  Append(s, e) # <<>> /\ Append(s, e)[Len(Append(s, e))] = e
<1>1. /\ Append(s, e) \in Seq(Events) /\ Len(Append(s, e)) = Len(s) + 1
      /\ Len(s) \in Nat /\ Append(s, e)[Len(s) + 1] = e
  OBVIOUS
<1> DEFINE t == Append(s, e)
<1> HIDE DEF t
<1>2. Len(t) # 0 /\ t[Len(t)] = e
  BY <1>1 DEF t
<1>3. t # <<>>
  BY <1>2
<1> QED
  BY <1>2, <1>3 DEF t

\* A post is the last event of the queue.
LEMMA PostedLast ==
  ASSUME Inv, NEW type \in {"Connected", "Closed", "Error", "Status"},
         Post([type |-> type, fp |-> ""])
  PROVE  events' # <<>> /\ events'[Len(events')].type = type
<1> DEFINE e == [type |-> type, fp |-> ""]
<1>1. e.type = type /\ e \in Events
  BY DEF Events
<1>2. events \in Seq(Events) /\ events' = Append(events, e)
  BY DEF Inv, Types, Post
<1> HIDE DEF e
<1>3. Append(events, e)[Len(Append(events, e))] = e /\ Append(events, e) # <<>>
  BY <1>1, <1>2, Ends
<1> QED
  BY <1>1, <1>2, <1>3

\* Taking the last event leaves what it says; taking another leaves it last.
LEMMA TakenLast ==
  ASSUME Inv, events # <<>>
  PROVE  /\ Tail(events) = <<>> => Head(events) = events[Len(events)]
         /\ Tail(events) # <<>> => Tail(events)[Len(Tail(events))] = events[Len(events)]
<1>1. events \in Seq(Events)
  BY DEF Inv, Types
<1>2. PICK n \in Nat : Len(events) = n + 1
  <2>1. Len(events) \in Nat \ {0}
    BY <1>1
  <2> QED
    BY <2>1
<1>3. /\ Tail(events) \in Seq(Events) /\ Len(Tail(events)) = n
      /\ Head(events) = events[1]
      /\ \A i \in 1 .. n : Tail(events)[i] = events[i + 1]
  BY <1>1, <1>2
<1>4. CASE n = 0
  <2>1. PICK none : none = Tail(events)
    OBVIOUS
  <2>2. none \in Seq(Events) /\ Len(none) = 0
    BY <1>3, <1>4, <2>1
  <2>3. none = <<>>
    BY <2>2
  <2>4. Len(events) = 1
    BY <1>2, <1>4
  <2> QED
    BY <1>3, <2>1, <2>3, <2>4
<1>5. CASE n # 0
  <2>1. n \in 1 .. n
    BY <1>5
  <2>2. Tail(events)[n] = events[n + 1] /\ Tail(events) # <<>>
    BY <1>3, <1>5, <2>1
  <2> QED
    BY <1>2, <1>3, <2>2
<1> QED
  BY <1>4, <1>5

\* The tab takes an event.
LEMMA PumpShows == ASSUME Inv, TabInv, PumpVncEvents PROVE TabInv'
<1>1. w' = w /\ events # <<>> /\ events' = Tail(events) /\ tab' = TabState(Head(events))
  BY DEF PumpVncEvents
<1>2. /\ events' = <<>> => Head(events) = events[Len(events)]
      /\ events' # <<>> => events'[Len(events')] = events[Len(events)]
  BY <1>1, TakenLast
<1>3. ASSUME NEW types, NEW shown, Said(types, shown),
             \A e : e.type \in types => TabState(e) \in shown
      PROVE  Said(types, shown)'
  BY <1>1, <1>2, <1>3 DEF Said
<1>4. /\ \A e : e.type \in {"Connected"} => TabState(e) \in {"Connected"}
      /\ \A e : e.type \in {"Error"} => TabState(e) \in {"Error"}
      /\ \A e : e.type \in {"Closed", "Error"} => TabState(e) \in {"Disconnected", "Error"}
      /\ w.state = "Reconnecting" =>
           \A e : e.type \in {"Status"} => TabState(e) \in {"Reconnecting"}
  BY DEF TabState
<1> QED
  BY <1>1, <1>3, <1>4 DEF TabInv

\* The worker goes where it has said nothing yet.
LEMMA Quietly ==
  ASSUME w'.at \notin {"loop", "backoff", "done"}, w'.state # "Error"
  PROVE  TabInv'
  BY DEF TabInv

\* The worker says what it shows, or goes where nothing is shown yet.
LEMMA WorkerShows ==
  ASSUME Inv, TabInv, Worker \/ StreamEnds PROVE TabInv'
<1>1. w \in [at : Places, attempt : 0 .. MaxReconnects + 1, stop : BOOLEAN, state : States]
  BY DEF Inv, Types
<1>2. CASE Top
  BY <1>1, <1>2, Quietly DEF Top, At, Go, TabInv
<1>3. CASE WaitForTunnel \/ OpenTransport \/ ShakeEnds \/ Answered \/ StartTls
  <2>1. /\ w.at \in {"tunnel", "open", "shake", "prompt", "tls"}
        /\ \E at \in {"open", "failed", "shake", "refused", "prompt"} :
             w' = [w EXCEPT !.at = at]
    BY <1>3 DEF WaitForTunnel, OpenTransport, ShakeEnds, Answered, StartTls, At, Go, Accept
  <2>2. w'.state = w.state /\ w'.at \notin {"loop", "backoff", "done"}
    BY <1>1, <2>1
  <2> QED
    BY <2>1, <2>2, Quietly DEF TabInv
<1>4. CASE Shake
  <2>1. /\ w.at = "shake" /\ w'.state = Shown(c)
        /\ w'.at \in {"failed", "tls", "ready", "shake"}
    BY <1>1, <1>4 DEF Shake, At
  <2>2. Shown(c) # "Error"
    BY <2>1 DEF Shown, TabInv
  <2> QED
    BY <2>1, <2>2, Quietly
<1>5. CASE Ready
  <2>1. w'.at = "loop" /\ w'.state = "Connected"
    BY <1>1, <1>5 DEF Ready
  <2>2. events' # <<>> /\ events'[Len(events')].type = "Connected"
    <3>1. PICK type : type = "Connected" /\ Post([type |-> type, fp |-> ""])
      BY <1>5 DEF Ready
    <3> QED
      BY <3>1, PostedLast
  <2> QED
    BY <2>1, <2>2 DEF TabInv, Said
<1>6. ASSUME Retry PROVE TabInv'
  <2>1. w'.at = "backoff" /\ w'.state = "Reconnecting"
    BY <1>1, <1>6 DEF Retry
  <2>2. events' # <<>> /\ events'[Len(events')].type = "Status"
    <3>1. PICK type : type = "Status" /\ Post([type |-> type, fp |-> ""])
      BY <1>6 DEF Retry
    <3> QED
      BY <3>1, PostedLast
  <2> QED
    BY <2>1, <2>2 DEF TabInv, Said
<1>7. ASSUME GiveUp PROVE TabInv'
  <2>1. w'.at = "out" /\ w'.state = "Error"
    BY <1>1, <1>7 DEF GiveUp
  <2>2. events' # <<>> /\ events'[Len(events')].type = "Error"
    <3>1. PICK type : type = "Error" /\ Post([type |-> type, fp |-> ""])
      BY <1>7 DEF GiveUp
    <3> QED
      BY <3>1, PostedLast
  <2> QED
    BY <2>1, <2>2 DEF TabInv, Said
<1>8. CASE Failed
  <2>1. CASE w.stop
    BY <1>1, <1>8, <2>1, Quietly DEF Failed, Go, TabInv
  <2> QED
    BY <1>6, <1>7, <1>8, <2>1 DEF Failed
<1>9. CASE LoopStops
  BY <1>1, <1>9, Quietly DEF LoopStops, At, Go, TabInv
<1>10. CASE StreamEnds
  BY <1>6, <1>10 DEF StreamEnds
<1>11. CASE Backoff
  BY <1>1, <1>11, Quietly DEF Backoff, At, TabInv
<1>12. CASE Out
  <2>1. CASE w.state = "Error"
    <3>1. w'.at = "done" /\ events' = events /\ tab' = tab /\ w.at = "out"
      BY <1>1, <1>12, <2>1 DEF Out, Go, At, Linked
    <3>2. Said({"Error"}, {"Error"})
      BY <2>1, <3>1 DEF TabInv
    <3>3. Said({"Closed", "Error"}, {"Disconnected", "Error"})'
      BY <3>1, <3>2 DEF Said
    <3> QED
      BY <3>1, <3>3 DEF TabInv
  <2>2. CASE w.state # "Error"
    <3>1. w'.at = "done"
      BY <1>1, <1>12, <2>2 DEF Out
    <3>2. events' # <<>> /\ events'[Len(events')].type = "Closed"
      <4>1. PICK type : type = "Closed" /\ Post([type |-> type, fp |-> ""])
        BY <1>12, <2>2 DEF Out
      <4> QED
        BY <4>1, PostedLast
    <3> QED
      BY <3>1, <3>2 DEF TabInv, Said
  <2> QED
    BY <2>1, <2>2
<1> QED
  BY <1>2, <1>3, <1>4, <1>5, <1>8, <1>9, <1>10, <1>11, <1>12 DEF Worker

\* The other side: only the join, of a worker that is done, changes what is shown.
LEMMA OthersShow ==
  ASSUME Inv, TabInv, UNCHANGED events,
         w'.at = w.at \/ w'.at = "top", w'.state = w.state \/ w'.at = "top",
         w'.at = "top" => w'.state # "Error",
         tab' = tab \/ (w'.at = "done" /\ tab' = "Error")
  PROVE  TabInv'
  BY DEF TabInv, Said

\* Each step keeps the tab in agreement with what its worker has said.
LEMMA TabStep == ASSUME Inv, TabInv, [Next]_vars PROVE TabInv'
<1>1. w \in [at : Places, attempt : 0 .. MaxReconnects + 1, stop : BOOLEAN, state : States]
  BY DEF Inv, Types
<1>2. CASE Worker \/ StreamEnds
  BY <1>2, WorkerShows
<1>3. CASE PumpVncEvents
  BY <1>3, PumpShows
<1>4. CASE Start
  BY <1>1, <1>4, OthersShow DEF Start
<1>5. CASE Joined
  <2>1. w'.at = "done" /\ w.at = "done" /\ UNCHANGED events /\ tab' \in {tab, "Error"}
    BY <1>1, <1>5 DEF Joined, At
  <2> QED
    BY <2>1 DEF TabInv, Said
<1>6. ASSUME UNCHANGED <<events, tab>>, w' = w \/ w' = [w EXCEPT !.stop = TRUE] PROVE TabInv'
  <2>1. w'.at = w.at /\ w'.state = w.state
    BY <1>1, <1>6
  <2> QED
    BY <1>6, <2>1 DEF TabInv, Said
<1>7. CASE VncOnSshClosed \/ CloseSessionNow
  BY <1>6, <1>7 DEF VncOnSshClosed, CloseSessionNow, Disconnect
<1>8. CASE RefuseQuestion \/ OnForwardUp \/ UNCHANGED vars
  BY <1>6, <1>8 DEF RefuseQuestion, OnForwardUp, vars
<1>9. ASSUME NEW a \in {1, 0 - 1}, AnswerCertificate(a) PROVE TabInv'
  BY <1>6, <1>9 DEF AnswerCertificate
<1>10. ASSUME NEW how \in {"lost", "gone"}, SshEnds(how) PROVE TabInv'
  BY <1>6, <1>10 DEF SshEnds
<1> QED
  BY <1>2, <1>3, <1>4, <1>5, <1>7, <1>8, <1>9, <1>10 DEF Next, Ui

\* A tab that has taken every event shows what its worker is doing, although a Status
\* is read against the worker's state of that moment (PumpVncEvents in app_vnc.cpp and
\* the worker in VncSession.cpp).
THEOREM TabShowsTheWorker == Spec => []TabAgrees
<1>1. Init => TabInv
  <2> SUFFICES ASSUME Init PROVE TabInv
    OBVIOUS
  <2>1. w = [at |-> "idle", attempt |-> 0, stop |-> FALSE, state |-> "Disconnected"]
    BY Zenon DEF Init
  <2> QED
    BY <2>1 DEF TabInv
<1>2. TabInv => TabAgrees
  BY DEF TabInv, TabAgrees, Said
<1> QED
  BY <1>1, <1>2, TabStep, Invariance, PTL DEF Spec

----------------------------------------------------------------------------
(* The picture.                                                            *)

\* The least of a set of numbers.
LEMMA Least == ASSUME NEW T, T \subseteq Nat, T # {} PROVE \E m \in T : \A k \in T : m <= k
<1> DEFINE R == OpToRel(<, Nat)
<1>1. IsWellFoundedOn(R, Nat)
  BY NatLessThanWellFounded, Zenon
<1>2. \A y, z \in Nat : y < z => <<y, z>> \in R
  BY Zenon DEF OpToRel
<1> HIDE DEF R
<1>3. PICK x \in T : \A y \in T : ~(<<y, x>> \in R)
  BY <1>1, WFMin, Zenon
<1>4. \A y \in T : y \in Nat /\ ~(y < x) /\ x \in Nat
  BY <1>2, <1>3
<1> QED
  BY <1>3, <1>4

\* The greatest of a set of numbers below a bound.
LEMMA Greatest ==
  ASSUME NEW n \in Nat, NEW T, T \subseteq 1 .. n, T # {} PROVE \E m \in T : \A k \in T : k <= m
<1> DEFINE U == {d \in 0 .. n : n - d \in T}
<1>1. PICK x \in T : x \in 1 .. n
  OBVIOUS
<1>2. n - x \in U
  BY <1>1
<1>3. U \subseteq Nat /\ U # {}
  <2>1. U \subseteq Nat
    OBVIOUS
  <2> HIDE DEF U
  <2> QED
    BY <1>2, <2>1
<1>4. PICK d \in U : \A k \in U : d <= k
  <2> HIDE DEF U
  <2> QED
    BY <1>3, Least
<1>5. d \in 0 .. n /\ n - d \in T
  BY <1>4
<1>6. ASSUME NEW k \in T PROVE k <= n - d
  <2>1. k \in 1 .. n /\ n - k \in U
    BY <1>6
  <2>2. d <= n - k
    BY <1>4, <2>1
  <2> QED
    BY <1>5, <2>1, <2>2
<1> QED
  BY <1>5, <1>6

\* The client after each of n messages, and after each of n commands.
Reads(f, k, msgs, n) == f[0] = k /\ \A i \in 1 .. n : f[i] = StepReady(f[i - 1], msgs[i])
Obeys(f, k, orders, n) == f[0] = k /\ \A i \in 1 .. n : f[i] = Execute(f[i - 1], orders[i])

\* Fed is what StepReady makes of the client message by message.
LEMMA FedIs ==
  ASSUME NEW k, NEW msgs, NEW n \in Nat
  PROVE  \E f : f[n] = Fed(k, msgs, n) /\ Reads(f, k, msgs, n)
<1> DEFINE Advance(i, f) == IF i = 0 THEN k ELSE StepReady(f[i - 1], msgs[i])
           IsRun(f, m) == f = [i \in 0 .. m |-> Advance(i, f)]
           Bad == {m \in 0 .. n : ~\E f : IsRun(f, m)}
<1>1. Fed(k, msgs, n) = (CHOOSE f : IsRun(f, n))[n]
  BY DEF Fed
<1>2. Bad = {}
  <2>1. SUFFICES ASSUME Bad # {} PROVE FALSE
    OBVIOUS
  <2>2. Bad \subseteq Nat
    OBVIOUS
  <2>3. PICK m \in Bad : \A j \in Bad : m <= j
    <3> HIDE DEF Bad
    <3> QED
      BY <2>1, <2>2, Least
  <2>4. m \in 0 .. n /\ ~\E f : IsRun(f, m)
    BY <2>3
  <2>5. m # 0
    <3> DEFINE f == [i \in 0 .. 0 |-> k]
    <3>1. f = [i \in 0 .. 0 |-> Advance(i, f)]
      OBVIOUS
    <3>2. IsRun(f, 0)
      BY <3>1
    <3> QED
      BY <2>4, <3>2
  <2>6. m - 1 \in 0 .. n /\ m - 1 \notin Bad
    BY <2>3, <2>4, <2>5
  <2>7. PICK f : IsRun(f, m - 1)
    BY <2>6
  <2> DEFINE g == [i \in 0 .. m |-> IF i < m THEN f[i] ELSE StepReady(f[m - 1], msgs[m])]
  <2>8. ASSUME NEW i \in 0 .. m PROVE g[i] = Advance(i, g)
    <3>1. CASE i = 0
      <4>1. f[0] = k
        BY <2>4, <2>5, <2>7
      <4> QED
        BY <2>4, <2>5, <3>1, <4>1
    <3>2. CASE i # 0 /\ i < m
      <4>1. f[i] = StepReady(f[i - 1], msgs[i])
        BY <2>4, <2>7, <3>2
      <4>2. g[i - 1] = f[i - 1] /\ g[i] = f[i]
        BY <2>4, <3>2
      <4> QED
        BY <3>2, <4>1, <4>2
    <3>3. CASE i = m
      <4>1. g[m] = StepReady(f[m - 1], msgs[m]) /\ g[m - 1] = f[m - 1]
        BY <2>4, <2>5
      <4> QED
        BY <2>5, <3>3, <4>1
    <3> QED
      BY <2>4, <3>1, <3>2, <3>3
  <2>9. IsRun(g, m)
    <3> HIDE DEF g
    <3>1. DOMAIN g = 0 .. m /\ g = [i \in 0 .. m |-> g[i]]
      BY DEF g
    <3> QED
      BY <2>8, <3>1
  <2> QED
    BY <2>4, <2>9
<1>3. PICK f : IsRun(f, n) /\ f = CHOOSE h : IsRun(h, n)
  <2> HIDE DEF IsRun
  <2>1. n \in 0 .. n
    OBVIOUS
  <2>2. \E h : IsRun(h, n)
    BY <1>2, <2>1
  <2> QED
    BY <2>2
<1>4. f[0] = k /\ \A i \in 1 .. n : f[i] = StepReady(f[i - 1], msgs[i])
  BY <1>3
<1> HIDE DEF IsRun
<1> QED
  BY <1>1, <1>3, <1>4 DEF Reads

\* Told is what Execute makes of it command by command.
LEMMA ToldIs ==
  ASSUME NEW k, NEW msgs, NEW n \in Nat, n = Len(msgs)
  PROVE  \E f : f[n] = Told(k, msgs) /\ Obeys(f, k, msgs, n)
<1> DEFINE Advance(i, f) == IF i = 0 THEN k ELSE Execute(f[i - 1], msgs[i])
           IsRun(f, m) == f = [i \in 0 .. m |-> Advance(i, f)]
           Bad == {m \in 0 .. n : ~\E f : IsRun(f, m)}
<1>1. Told(k, msgs) = (CHOOSE f : IsRun(f, n))[n]
  BY DEF Told
<1>2. Bad = {}
  <2>1. SUFFICES ASSUME Bad # {} PROVE FALSE
    OBVIOUS
  <2>2. Bad \subseteq Nat
    OBVIOUS
  <2>3. PICK m \in Bad : \A j \in Bad : m <= j
    <3> HIDE DEF Bad
    <3> QED
      BY <2>1, <2>2, Least
  <2>4. m \in 0 .. n /\ ~\E f : IsRun(f, m)
    BY <2>3
  <2>5. m # 0
    <3> DEFINE f == [i \in 0 .. 0 |-> k]
    <3>1. f = [i \in 0 .. 0 |-> Advance(i, f)]
      OBVIOUS
    <3>2. IsRun(f, 0)
      BY <3>1
    <3> QED
      BY <2>4, <3>2
  <2>6. m - 1 \in 0 .. n /\ m - 1 \notin Bad
    BY <2>3, <2>4, <2>5
  <2>7. PICK f : IsRun(f, m - 1)
    BY <2>6
  <2> DEFINE g == [i \in 0 .. m |-> IF i < m THEN f[i] ELSE Execute(f[m - 1], msgs[m])]
  <2>8. ASSUME NEW i \in 0 .. m PROVE g[i] = Advance(i, g)
    <3>1. CASE i = 0
      <4>1. f[0] = k
        BY <2>4, <2>5, <2>7
      <4> QED
        BY <2>4, <2>5, <3>1, <4>1
    <3>2. CASE i # 0 /\ i < m
      <4>1. f[i] = Execute(f[i - 1], msgs[i])
        BY <2>4, <2>7, <3>2
      <4>2. g[i - 1] = f[i - 1] /\ g[i] = f[i]
        BY <2>4, <3>2
      <4> QED
        BY <3>2, <4>1, <4>2
    <3>3. CASE i = m
      <4>1. g[m] = Execute(f[m - 1], msgs[m]) /\ g[m - 1] = f[m - 1]
        BY <2>4, <2>5
      <4> QED
        BY <2>5, <3>3, <4>1
    <3> QED
      BY <2>4, <3>1, <3>2, <3>3
  <2>9. IsRun(g, m)
    <3> HIDE DEF g
    <3>1. DOMAIN g = 0 .. m /\ g = [i \in 0 .. m |-> g[i]]
      BY DEF g
    <3> QED
      BY <2>8, <3>1
  <2> QED
    BY <2>4, <2>9
<1>3. PICK f : IsRun(f, n) /\ f = CHOOSE h : IsRun(h, n)
  <2> HIDE DEF IsRun
  <2>1. n \in 0 .. n
    OBVIOUS
  <2>2. \E h : IsRun(h, n)
    BY <1>2, <2>1
  <2> QED
    BY <2>2
<1>4. f[0] = k /\ \A i \in 1 .. n : f[i] = Execute(f[i - 1], msgs[i])
  BY <1>3
<1> HIDE DEF IsRun
<1> QED
  BY <1>1, <1>3, <1>4 DEF Obeys

\* Pixels of one rectangle.
LEMMA PixelsOne == ASSUME NEW r PROVE Pixels(<<r>>) = 0 + Cardinality(r.at)
<1> DEFINE IsSum(f) == f = [i \in 0 .. 1 |-> IF i = 0 THEN 0 ELSE f[i - 1] + Cardinality(<<r>>[i].at)]
           g == [i \in 0 .. 1 |-> IF i = 0 THEN 0 ELSE 0 + Cardinality(r.at)]
<1>1. Pixels(<<r>>) = (CHOOSE f : IsSum(f))[1]
  <2>1. Len(<<r>>) = 1
    OBVIOUS
  <2> QED
    BY <2>1 DEF Pixels
<1>2. IsSum(g)
  OBVIOUS
<1>3. PICK f : IsSum(f) /\ f = CHOOSE h : IsSum(h)
  <2> HIDE DEF IsSum, g
  <2> QED
    BY <1>2
<1>4. f[0] = 0 /\ f[1] = f[0] + Cardinality(r.at)
  BY <1>3
<1> HIDE DEF IsSum
<1> QED
  BY <1>1, <1>3, <1>4

\* A client: the size and the picture it has, what it has to publish and to send.
Pics(n) == [1 .. n -> Nat]
Wire == [t : {"request"}, inc : BOOLEAN, n : Sizes] \cup [t : {"continuous", "size"}, n : Sizes]
DecoderFields == {"n", "fb", "outstanding", "cont", "ext", "wanted", "dirty", "resized", "send"}
Decoder(k) ==
  /\ DOMAIN k = DecoderFields /\ k = [f \in DecoderFields |-> k[f]]
  /\ k.n \in Sizes /\ k.fb \in Pics(k.n) /\ k.outstanding \in 0 .. 2
  /\ k.cont \in BOOLEAN /\ k.ext \in BOOLEAN /\ k.wanted \in 0 .. MaxSize
  /\ k.dirty \in Seq(SUBSET (1 .. k.n)) /\ k.resized \in BOOLEAN /\ k.send \in Seq(Wire)
\* What an order or a header leaves alone.
SamePicture(k, h) == h.n = k.n /\ h.fb = k.fb /\ h.dirty = k.dirty /\ h.resized = k.resized
\* A fresh buffer, to be published as a whole.
Blackened(h) == h.resized /\ h.dirty = <<1 .. h.n>>

\* Sizes are numbers from one.
LEMMA SizesAre == MaxSize \in Nat /\ 1 \in Sizes /\ \A n \in Sizes : n \in Nat /\ n >= 1 /\ n <= MaxSize
  BY VncPictureAssumption DEF Sizes

\* A message is queued behind the others.
LEMMA SendIs ==
  ASSUME NEW k, Decoder(k), NEW m \in Wire PROVE Decoder(Send(k, m)) /\ SamePicture(k, Send(k, m))
         /\ Send(k, m).cont = k.cont
<1> DEFINE h == Send(k, m)
<1>1. Append(k.send, m) \in Seq(Wire)
  BY DEF Decoder
<1>2. h = [k EXCEPT !.send = Append(k.send, m)]
  BY DEF Send
<1> HIDE DEF h
<1>3. /\ DOMAIN h = DecoderFields /\ h = [f \in DecoderFields |-> h[f]] /\ h.send = Append(k.send, m)
      /\ h.n = k.n /\ h.fb = k.fb /\ h.outstanding = k.outstanding /\ h.cont = k.cont /\ h.ext = k.ext
      /\ h.wanted = k.wanted /\ h.dirty = k.dirty /\ h.resized = k.resized
  BY <1>2 DEF Decoder, DecoderFields
<1> QED
  BY <1>1, <1>3 DEF Decoder, SamePicture, h

\* So is a request for an update, which counts those outstanding.
LEMMA RequestIs ==
  ASSUME NEW k, Decoder(k), NEW inc \in BOOLEAN, NEW force \in BOOLEAN
  PROVE  LET h == RequestUpdate(k, inc, force) IN Decoder(h) /\ SamePicture(k, h) /\ h.cont = k.cont
<1> DEFINE m == [t |-> "request", inc |-> inc, n |-> k.n]
           s == Send(k, m)  h == [s EXCEPT !.outstanding = IF @ < 2 THEN @ + 1 ELSE @]
<1>1. m \in Wire
  BY DEF Decoder, Wire
<1>2. Decoder(s) /\ SamePicture(k, s) /\ s.cont = k.cont
  BY <1>1, SendIs
<1>3. RequestUpdate(k, inc, force) = k \/ RequestUpdate(k, inc, force) = h
  BY DEF RequestUpdate
<1> HIDE DEF s
<1>4. /\ DOMAIN h = DecoderFields /\ h = [f \in DecoderFields |-> h[f]] /\ h.send = s.send
      /\ h.n = s.n /\ h.fb = s.fb /\ h.cont = s.cont /\ h.ext = s.ext
      /\ h.wanted = s.wanted /\ h.dirty = s.dirty /\ h.resized = s.resized
      /\ h.outstanding = IF s.outstanding < 2 THEN s.outstanding + 1 ELSE s.outstanding
  BY <1>2 DEF Decoder, DecoderFields
<1>5. h.outstanding \in 0 .. 2
  BY <1>2, <1>4 DEF Decoder
<1> HIDE DEF h
<1>6. Decoder(h) /\ SamePicture(k, h) /\ h.cont = k.cont
  BY <1>2, <1>4, <1>5 DEF Decoder, SamePicture
<1>7. SamePicture(k, k)
  BY DEF SamePicture
<1> QED
  BY <1>3, <1>6, <1>7

\* And the asking for continuous updates, or for a size.
LEMMA OrderIs ==
  ASSUME NEW k, Decoder(k)
  PROVE  /\ Decoder(Enable(k)) /\ SamePicture(k, Enable(k)) /\ Enable(k).cont = k.cont
         /\ \A n \in Sizes : Decoder(SendDesktopSize(k, n)) /\ SamePicture(k, SendDesktopSize(k, n))
<1>1. [t |-> "continuous", n |-> k.n] \in Wire
  BY DEF Decoder, Wire
<1>2. \A n \in Sizes : [t |-> "size", n |-> n] \in Wire
  BY DEF Wire
<1>3. SamePicture(k, k)
  BY DEF SamePicture
<1>4. Decoder(Enable(k)) /\ SamePicture(k, Enable(k)) /\ Enable(k).cont = k.cont
  BY <1>1, SendIs DEF Enable
<1>5. ASSUME NEW n \in Sizes
      PROVE  Decoder(SendDesktopSize(k, n)) /\ SamePicture(k, SendDesktopSize(k, n))
  BY <1>2, <1>3, SendIs DEF SendDesktopSize
<1> QED
  BY <1>4, <1>5

\* A black picture of any size is one.
LEMMA BlackIs == ASSUME NEW n \in Nat PROVE Black(n) \in Pics(n)
  BY DEF Black, Pics

\* A new size blackens the picture.
LEMMA ResizedIs ==
  ASSUME NEW k, Decoder(k), NEW n \in Sizes
  PROVE  LET h == Resized(k, n) IN Decoder(h) /\ Blackened(h) /\ h.n = n
<1> DEFINE d == <<1 .. n>>
           b == [k EXCEPT !.n = n, !.fb = Black(n), !.dirty = d]
           r == [b EXCEPT !.resized = TRUE]
           a == RequestUpdate(r, FALSE, TRUE)
<1>1. Black(n) \in Pics(n) /\ d \in Seq(SUBSET (1 .. n))
  <2>1. (1 .. n) \in SUBSET (1 .. n)
    OBVIOUS
  <2> HIDE DEF Pics, Black
  <2> QED
    BY <2>1, BlackIs, SizesAre
<1> HIDE DEF d
<1>2. /\ DOMAIN b = DecoderFields /\ b = [f \in DecoderFields |-> b[f]] /\ b.send = k.send
      /\ b.n = n /\ b.fb = Black(n) /\ b.outstanding = k.outstanding /\ b.cont = k.cont /\ b.ext = k.ext
      /\ b.wanted = k.wanted /\ b.dirty = d /\ b.resized = k.resized
  BY DEF Decoder, DecoderFields
<1> HIDE DEF b
<1>3. /\ DOMAIN r = DecoderFields /\ r = [f \in DecoderFields |-> r[f]] /\ r.send = b.send
      /\ r.n = b.n /\ r.fb = b.fb /\ r.outstanding = b.outstanding /\ r.cont = b.cont /\ r.ext = b.ext
      /\ r.wanted = b.wanted /\ r.dirty = b.dirty /\ r.resized = TRUE
  BY <1>2 DEF DecoderFields
<1>4. Decoder(r)
  <2> HIDE DEF r
  <2> QED
    BY <1>1, <1>2, <1>3 DEF Decoder
<1> HIDE DEF r
<1>5. Decoder(a) /\ SamePicture(r, a)
  BY <1>4, RequestIs
<1>6. Resized(k, n) = IF a.cont THEN Enable(a) ELSE a
  BY DEF Resized, ApplyDesktopSize, a, r, b, d
<1> HIDE DEF a
<1>7. Decoder(Resized(k, n)) /\ SamePicture(a, Resized(k, n))
  <2>1. SamePicture(a, a)
    BY DEF SamePicture
  <2> QED
    BY <1>5, <1>6, <2>1, OrderIs
<1>8. Resized(k, n).n = n /\ Resized(k, n).resized /\ Resized(k, n).dirty = d
  BY <1>2, <1>3, <1>5, <1>7 DEF SamePicture
<1> QED
  BY <1>7, <1>8 DEF Blackened, d

\* What the stream carries: a layout that took effect sets the size.
Setter(i) == i.t = "layout" /\ ~(i.ours /\ ~i.ok)
\* A message that may be on the stream.
ItemOK(i) ==
  \/ i.t \in {"header", "can"}
  \/ i.t = "layout" /\ i.n \in Sizes /\ i.ours \in BOOLEAN /\ i.ok \in BOOLEAN
  \/ i.t = "rect" /\ i.px \in [i.at -> Nat]
\* What a message does to the client.
Stepped(k, i, h) ==
  /\ Decoder(h)
  /\ h.n = IF Setter(i) THEN i.n ELSE k.n
  /\ \/ i.t # "rect" /\ SamePicture(k, h)
     \/ i.t # "rect" /\ Blackened(h)
     \/ /\ i.t = "rect" /\ h.n = k.n /\ h.resized = k.resized
        /\ h.dirty = Append(k.dirty, i.at) /\ h.fb = Paint(k.fb, i)

\* A header.
LEMMA HeaderIs ==
  ASSUME NEW k, Decoder(k), NEW i, i.t = "header" PROVE Stepped(k, i, StepReady(k, i))
<1> DEFINE z == [k EXCEPT !.outstanding = 0]
<1>1. StepReady(k, i) = Header(k)
  BY Zenon DEF StepReady
<1>2. Decoder(z) /\ SamePicture(k, z)
  <2>1. /\ DOMAIN z = DecoderFields /\ z = [f \in DecoderFields |-> z[f]] /\ z.send = k.send
        /\ z.n = k.n /\ z.fb = k.fb /\ z.cont = k.cont /\ z.ext = k.ext
        /\ z.wanted = k.wanted /\ z.dirty = k.dirty /\ z.resized = k.resized
        /\ z.outstanding = 0
    BY DEF Decoder, DecoderFields
  <2> HIDE DEF z
  <2>2. z.outstanding \in 0 .. 2
    BY ONLY <2>1
  <2>5. z.fb \in Pics(z.n)
    BY <2>1 DEF Decoder
  <2>6. z.dirty \in Seq(SUBSET (1 .. z.n))
    BY <2>1, Zenon DEF Decoder
  <2>3. SamePicture(k, z)
    BY <2>1, <2>2 DEF SamePicture
  <2>4. z.n \in Sizes /\ z.ext \in BOOLEAN /\ z.cont \in BOOLEAN /\ z.wanted \in 0 .. MaxSize
        /\ z.resized \in BOOLEAN /\ z.send \in Seq(Wire)
    BY <2>1, <2>2 DEF Decoder
  <2> QED
    BY <2>1, <2>2, <2>3, <2>4, <2>5, <2>6 DEF Decoder
<1>3. Header(k) = k \/ Header(k) = RequestUpdate(z, TRUE, FALSE)
  BY DEF Header
<1> HIDE DEF z
<1>4. Decoder(RequestUpdate(z, TRUE, FALSE)) /\ SamePicture(z, RequestUpdate(z, TRUE, FALSE))
  BY <1>2, RequestIs
<1>5. Decoder(Header(k)) /\ SamePicture(k, Header(k))
  BY <1>2, <1>3, <1>4 DEF SamePicture
<1> QED
  BY <1>1, <1>5 DEF Stepped, Setter, SamePicture

\* The server can update continuously.
LEMMA CanIs ==
  ASSUME NEW k, Decoder(k), NEW i, i.t = "can" PROVE Stepped(k, i, StepReady(k, i))
<1> DEFINE e == Enable(k)  z == [e EXCEPT !.cont = TRUE, !.outstanding = 0]
<1>1. StepReady(k, i) = EndOfContinuousUpdates(k)
  BY Zenon DEF StepReady
<1>2. Decoder(e) /\ SamePicture(k, e)
  BY OrderIs
<1>3. EndOfContinuousUpdates(k) = k \/ EndOfContinuousUpdates(k) = z
  BY DEF EndOfContinuousUpdates
<1> HIDE DEF e
<1>4. Decoder(z) /\ SamePicture(e, z)
  <2>1. /\ DOMAIN z = DecoderFields /\ z = [f \in DecoderFields |-> z[f]] /\ z.send = e.send
        /\ z.n = e.n /\ z.fb = e.fb /\ z.cont = TRUE /\ z.ext = e.ext
        /\ z.wanted = e.wanted /\ z.dirty = e.dirty /\ z.resized = e.resized
        /\ z.outstanding = 0
    BY <1>2 DEF Decoder, DecoderFields
  <2> HIDE DEF z
  <2>2. z.outstanding \in 0 .. 2
    BY ONLY <2>1
  <2>5. z.fb \in Pics(z.n)
    BY <1>2, <2>1 DEF Decoder
  <2>6. z.dirty \in Seq(SUBSET (1 .. z.n))
    BY <1>2, <2>1, Zenon DEF Decoder
  <2>3. SamePicture(e, z)
    BY <1>2, <2>1, <2>2 DEF SamePicture
  <2>4. z.n \in Sizes /\ z.ext \in BOOLEAN /\ z.cont \in BOOLEAN /\ z.wanted \in 0 .. MaxSize
        /\ z.resized \in BOOLEAN /\ z.send \in Seq(Wire)
    BY <1>2, <2>1, <2>2 DEF Decoder
  <2> QED
    BY <2>1, <2>2, <2>3, <2>4, <2>5, <2>6 DEF Decoder
<1> HIDE DEF z
<1>5. Decoder(EndOfContinuousUpdates(k)) /\ SamePicture(k, EndOfContinuousUpdates(k))
  BY <1>2, <1>3, <1>4 DEF SamePicture
<1> QED
  BY <1>1, <1>5 DEF Stepped, Setter, SamePicture

\* A layout: refused it sizes nothing, and neither does one of the size there is.
LEMMA LayoutIs ==
  ASSUME NEW k, Decoder(k), NEW i, i.t = "layout", ItemOK(i)
  PROVE  Stepped(k, i, StepReady(k, i))
<1> DEFINE s == IF (i.ours /\ ~i.ok) \/ i.n = k.n THEN k ELSE Resized(k, i.n)
           a == [s EXCEPT !.ext = TRUE]
           b == [s EXCEPT !.ext = TRUE, !.wanted = 0]
<1>0. i.n \in Sizes /\ i.ours \in BOOLEAN /\ i.ok \in BOOLEAN
  BY DEF ItemOK
<1>1. StepReady(k, i) = Layout(k, i)
  BY Zenon DEF StepReady
<1>2. Layout(k, i) = IF k.wanted = 0 THEN a ELSE SendDesktopSize(b, k.wanted)
  BY DEF Layout
<1>3. /\ Decoder(s) /\ s.n = (IF Setter(i) THEN i.n ELSE k.n)
      /\ SamePicture(k, s) \/ Blackened(s)
  <2>1. CASE i.ours /\ ~i.ok
    BY <1>0, <2>1 DEF Setter, SamePicture
  <2>2. CASE i.n = k.n
    BY <1>0, <2>2 DEF Setter, SamePicture
  <2>3. CASE ~(i.ours /\ ~i.ok) /\ i.n # k.n
    <3>1. s = Resized(k, i.n) /\ Setter(i)
      BY <2>3 DEF Setter
    <3>2. Decoder(Resized(k, i.n)) /\ Blackened(Resized(k, i.n)) /\ Resized(k, i.n).n = i.n
      BY <1>0, ResizedIs
    <3> QED
      BY <3>1, <3>2
  <2> QED
    BY <2>1, <2>2, <2>3
<1> HIDE DEF s
<1>4. Decoder(a) /\ SamePicture(s, a)
  <2>1. /\ DOMAIN a = DecoderFields /\ a = [f \in DecoderFields |-> a[f]] /\ a.send = s.send
        /\ a.n = s.n /\ a.fb = s.fb /\ a.cont = s.cont /\ a.ext = TRUE
        /\ a.wanted = s.wanted /\ a.dirty = s.dirty /\ a.resized = s.resized
        /\ a.outstanding = s.outstanding
    BY <1>3 DEF Decoder, DecoderFields
  <2> HIDE DEF a
  <2> QED
    BY <1>3, <2>1 DEF Decoder, SamePicture
<1>5. Decoder(b) /\ SamePicture(s, b)
  <2>1. /\ DOMAIN b = DecoderFields /\ b = [f \in DecoderFields |-> b[f]] /\ b.send = s.send
        /\ b.n = s.n /\ b.fb = s.fb /\ b.cont = s.cont /\ b.ext = TRUE
        /\ b.wanted = 0 /\ b.dirty = s.dirty /\ b.resized = s.resized
        /\ b.outstanding = s.outstanding
    BY <1>3 DEF Decoder, DecoderFields
  <2> HIDE DEF b
  <2>2. 0 \in 0 .. MaxSize
    BY SizesAre
  <2> QED
    BY <1>3, <2>1, <2>2 DEF Decoder, SamePicture
<1> HIDE DEF a, b
<1>6. Decoder(Layout(k, i)) /\ SamePicture(s, Layout(k, i))
  <2>1. CASE k.wanted = 0
    BY <1>2, <1>4, <2>1
  <2>2. CASE k.wanted # 0
    <3>1. k.wanted \in Sizes
      BY <2>2, SizesAre DEF Decoder, Sizes
    <3>2. Decoder(SendDesktopSize(b, k.wanted)) /\ SamePicture(b, SendDesktopSize(b, k.wanted))
      BY <1>5, <3>1, OrderIs
    <3> QED
      BY <1>2, <1>5, <2>2, <3>2 DEF SamePicture
  <2> QED
    BY <2>1, <2>2
<1>7. SamePicture(k, Layout(k, i)) \/ Blackened(Layout(k, i))
  BY <1>3, <1>6 DEF SamePicture, Blackened
<1> QED
  BY <1>1, <1>3, <1>6, <1>7 DEF Stepped, SamePicture

\* A rectangle is painted, and is damage.
LEMMA RectIs ==
  ASSUME NEW k, Decoder(k), NEW i, i.t = "rect", ItemOK(i), i.at \in SUBSET (1 .. k.n)
  PROVE  Stepped(k, i, StepReady(k, i))
<1> DEFINE p == Paint(k.fb, i)  d == Append(k.dirty, i.at)
           h == [k EXCEPT !.fb = p, !.dirty = d]
<1>1. StepReady(k, i) = Decoded(k, i)
  BY Zenon DEF StepReady
<1>2. Decoded(k, i) = h
  BY DEF Decoded
<1>3. p \in Pics(k.n)
  <2>1. i.px \in [i.at -> Nat] /\ k.fb \in [1 .. k.n -> Nat]
    BY DEF ItemOK, Decoder, Pics
  <2>2. p = [t \in 1 .. k.n |-> IF t \in i.at THEN i.px[t] ELSE k.fb[t]]
    BY <2>1 DEF Paint
  <2> HIDE DEF p
  <2>3. \A t \in 1 .. k.n : (IF t \in i.at THEN i.px[t] ELSE k.fb[t]) \in Nat
    BY <2>1
  <2> QED
    BY <2>2, <2>3 DEF Pics
<1>4. d \in Seq(SUBSET (1 .. k.n))
  <2>1. \A S : \A q \in Seq(S), e \in S : Append(q, e) \in Seq(S)
    OBVIOUS
  <2> QED
    BY <2>1, Zenon DEF Decoder
<1> HIDE DEF p, d
<1>5. /\ DOMAIN h = DecoderFields /\ h = [f \in DecoderFields |-> h[f]] /\ h.send = k.send
      /\ h.n = k.n /\ h.fb = p /\ h.cont = k.cont /\ h.ext = k.ext
      /\ h.wanted = k.wanted /\ h.dirty = d /\ h.resized = k.resized
      /\ h.outstanding = k.outstanding
  BY DEF Decoder, DecoderFields
<1> HIDE DEF h
<1>6. Decoder(h)
  BY <1>3, <1>4, <1>5 DEF Decoder
<1>7. ~Setter(i)
  BY DEF Setter
<1> QED
  BY <1>1, <1>2, <1>5, <1>6, <1>7 DEF Stepped, p, d

\* So much for a message of the stream.
LEMMA StepIs ==
  ASSUME NEW k, Decoder(k), NEW i, ItemOK(i), i.t = "rect" => i.at \in SUBSET (1 .. k.n)
  PROVE  Stepped(k, i, StepReady(k, i))
<1>1. i.t \in {"header", "can", "layout", "rect"}
  BY DEF ItemOK
<1> QED
  BY <1>1, HeaderIs, CanIs, LayoutIs, RectIs

\* A command of the UI thread: to refresh, or to ask for a size.
Command(z) == z.kind = "refresh" \/ (z.kind = "size" /\ z.n \in Sizes)
\* Neither touches the picture.
LEMMA ExecuteIs ==
  ASSUME NEW k, Decoder(k), NEW z, Command(z)
  PROVE  Decoder(Execute(k, z)) /\ SamePicture(k, Execute(k, z))
<1>1. CASE z.kind = "refresh"
  <2>1. Execute(k, z) = RequestUpdate(k, FALSE, TRUE)
    BY <1>1 DEF Execute
  <2>2. Decoder(RequestUpdate(k, FALSE, TRUE)) /\ SamePicture(k, RequestUpdate(k, FALSE, TRUE))
    BY RequestIs
  <2> QED
    BY <2>1, <2>2
<1>2. CASE z.kind # "refresh"
  <2> DEFINE h == [k EXCEPT !.wanted = z.n]
  <2>1. z.n \in Sizes /\ z.n \in 0 .. MaxSize
    BY <1>2, SizesAre DEF Command, Sizes
  <2>2. Execute(k, z) = IF ~k.ext THEN h ELSE SendDesktopSize(k, z.n)
    BY <1>2 DEF Execute, RequestDesktopSize
  <2>3. Decoder(h) /\ SamePicture(k, h)
    <3>1. /\ DOMAIN h = DecoderFields /\ h = [f \in DecoderFields |-> h[f]] /\ h.send = k.send
          /\ h.n = k.n /\ h.fb = k.fb /\ h.cont = k.cont /\ h.ext = k.ext
          /\ h.wanted = z.n /\ h.dirty = k.dirty /\ h.resized = k.resized
          /\ h.outstanding = k.outstanding
      BY DEF Decoder, DecoderFields
    <3> HIDE DEF h
    <3> QED
      BY <2>1, <3>1 DEF Decoder, SamePicture
  <2> HIDE DEF h
  <2>4. Decoder(SendDesktopSize(k, z.n)) /\ SamePicture(k, SendDesktopSize(k, z.n))
    BY <2>1, OrderIs
  <2> QED
    BY <2>2, <2>3, <2>4
<1> QED
  BY <1>1, <1>2

\* The stream, and the sizes it goes through: x before it, e after it, and every rectangle
\* within the size it meets.
Stream ==
  [t : {"header", "can"}] \cup [t : {"layout"}, n : Sizes, ours : BOOLEAN, ok : BOOLEAN]
  \cup UNION {[t : {"rect"}, at : {a}, px : [a -> Nat]] : a \in SUBSET Sizes}
\* The sizes q leads through, message by message.
Goes(q, sz) ==
  \A j \in 1 .. Len(q) :
    /\ sz[j] = IF Setter(q[j]) THEN q[j].n ELSE sz[j - 1]
    /\ q[j].t = "rect" => q[j].at \in SUBSET (1 .. sz[j - 1])
\* q leads from the size x to the size e, and what it draws fits.
Sized(q, x, e) ==
  \E sz \in [0 .. Len(q) -> Sizes] : sz[0] = x /\ sz[Len(q)] = e /\ Goes(q, sz)

\* What is in the stream is one of its messages.
LEMMA StreamIs == ASSUME NEW i \in Stream PROVE ItemOK(i)
<1>1. CASE i \in [t : {"header", "can"}]
  BY <1>1 DEF ItemOK
<1>2. CASE i \in [t : {"layout"}, n : Sizes, ours : BOOLEAN, ok : BOOLEAN]
  BY <1>2 DEF ItemOK
<1>3. CASE i \in UNION {[t : {"rect"}, at : {a}, px : [a -> Nat]] : a \in SUBSET Sizes}
  <2>1. PICK a \in SUBSET Sizes : i \in [t : {"rect"}, at : {a}, px : [a -> Nat]]
    BY <1>3
  <2>2. i.t = "rect" /\ i.at = a /\ i.px \in [a -> Nat]
    BY <2>1
  <2> QED
    BY <2>2 DEF ItemOK
<1> QED
  BY <1>1, <1>2, <1>3 DEF Stream

\* Streams follow one another.
LEMMA SizedJoins ==
  ASSUME NEW q \in Seq(Stream), NEW r \in Seq(Stream), NEW x, NEW d, NEW e,
         Sized(q, x, d), Sized(r, d, e)
  PROVE  q \o r \in Seq(Stream) /\ Sized(q \o r, x, e)
<1>1. PICK a \in [0 .. Len(q) -> Sizes] : a[0] = x /\ a[Len(q)] = d /\ Goes(q, a)
  BY DEF Sized
<1>2. PICK b \in [0 .. Len(r) -> Sizes] : b[0] = d /\ b[Len(r)] = e /\ Goes(r, b)
  BY DEF Sized
<1>3. PICK m \in Nat, n \in Nat : m = Len(q) /\ n = Len(r)
  OBVIOUS
<1> DEFINE y == q \o r
           sz == [j \in 0 .. m + n |-> IF j <= m THEN a[j] ELSE b[j - m]]
<1>4. /\ y \in Seq(Stream) /\ Len(y) = m + n
      /\ \A j \in 1 .. m : y[j] = q[j]
      /\ \A j \in m + 1 .. m + n : y[j] = r[j - m]
  BY <1>3
<1> HIDE DEF y
<1>5. sz \in [0 .. m + n -> Sizes]
  <2>1. ASSUME NEW j \in 0 .. m + n PROVE (IF j <= m THEN a[j] ELSE b[j - m]) \in Sizes
    <3>1. CASE j <= m
      <4>1. j \in 0 .. Len(q)
        BY <1>3, <3>1
      <4> QED
        BY <3>1, <4>1
    <3>2. CASE j > m
      <4>1. j - m \in 0 .. Len(r) /\ ~(j <= m)
        BY <1>3, <3>2
      <4> QED
        BY <4>1
    <3> QED
      BY <3>1, <3>2
  <2> QED
    BY <2>1
<1>6. /\ sz[0] = a[0] /\ sz[m + n] = e
      /\ \A j \in 0 .. m : sz[j] = a[j]
      /\ \A j \in m .. m + n : sz[j] = b[j - m]
  <2>1. \A j \in 0 .. m + n : sz[j] = IF j <= m THEN a[j] ELSE b[j - m]
    OBVIOUS
  <2> HIDE DEF sz
  <2>2. ASSUME NEW j \in m .. m + n PROVE sz[j] = b[j - m]
    <3>1. CASE j = m
      <4>1. sz[m] = a[m] /\ m - m = 0
        BY <2>1
      <4> QED
        BY <1>1, <1>2, <1>3, <3>1, <4>1
    <3>2. CASE j # m
      <4>1. j \in 0 .. m + n /\ ~(j <= m)
        BY <3>2
      <4> QED
        BY <2>1, <4>1
    <3> QED
      BY <3>1, <3>2
  <2>3. m + n \in m .. m + n /\ m + n - m = n /\ 0 \in 0 .. m + n /\ \A j \in 0 .. m : j \in 0 .. m + n /\ j <= m
    OBVIOUS
  <2>4. b[n] = e
    BY <1>2, <1>3
  <2> QED
    BY <2>1, <2>2, <2>3, <2>4
<1> HIDE DEF sz
<1>7. Goes(y, sz)
  <2>1. ASSUME NEW j \in 1 .. Len(y)
        PROVE  /\ sz[j] = IF Setter(y[j]) THEN y[j].n ELSE sz[j - 1]
               /\ y[j].t = "rect" => y[j].at \in SUBSET (1 .. sz[j - 1])
    <3>0. j \in 1 .. m + n
      BY <1>4
    <3>1. CASE j <= m
      <4>1. j \in 1 .. Len(q) /\ j \in 0 .. m /\ j - 1 \in 0 .. m /\ j \in 1 .. m
        BY <1>3, <3>0, <3>1
      <4>2. y[j] = q[j] /\ sz[j] = a[j] /\ sz[j - 1] = a[j - 1]
        BY <1>4, <1>6, <4>1
      <4>3. /\ a[j] = IF Setter(q[j]) THEN q[j].n ELSE a[j - 1]
            /\ q[j].t = "rect" => q[j].at \in SUBSET (1 .. a[j - 1])
        BY <1>1, <4>1 DEF Goes
      <4> QED
        BY ONLY <4>2, <4>3
    <3>2. CASE j > m
      <4>1. /\ j - m \in 1 .. Len(r) /\ j \in m .. m + n /\ j - 1 \in m .. m + n /\ j \in m + 1 .. m + n
            /\ (j - 1) - m = (j - m) - 1
        BY <1>3, <3>0, <3>2
      <4>2. y[j] = r[j - m] /\ sz[j] = b[j - m] /\ sz[j - 1] = b[(j - m) - 1]
        BY <1>4, <1>6, <4>1
      <4>3. /\ b[j - m] = IF Setter(r[j - m]) THEN r[j - m].n ELSE b[(j - m) - 1]
            /\ r[j - m].t = "rect" => r[j - m].at \in SUBSET (1 .. b[(j - m) - 1])
        BY <1>2, <4>1 DEF Goes
      <4> QED
        BY ONLY <4>2, <4>3
    <3> QED
      BY <3>0, <3>1, <3>2
  <2> QED
    BY <2>1 DEF Goes
<1> QED
  BY <1>1, <1>4, <1>5, <1>6, <1>7 DEF Sized, y

\* What is left of a stream goes on from the size reached.
LEMMA SizedRest ==
  ASSUME NEW q \in Seq(Stream), NEW sz \in [0 .. Len(q) -> Sizes], Goes(q, sz), NEW i \in 0 .. Len(q)
  PROVE  LET r == SubSeq(q, i + 1, Len(q))
         IN  /\ r \in Seq(Stream) /\ Sized(r, sz[i], sz[Len(q)])
             /\ \A j \in i + 1 .. Len(q) : \E l \in 1 .. Len(r) : r[l] = q[j]
<1> DEFINE r == SubSeq(q, i + 1, Len(q))
<1>1. PICK m \in Nat, a \in Nat : m = Len(q) /\ a = i /\ a <= m
  OBVIOUS
<1>2. r \in Seq(Stream) /\ Len(r) = m - a /\ \A l \in 1 .. m - a : r[l] = q[a + l]
  <2>1. i + 1 \in 1 .. Len(q) + 1 /\ Len(q) \in i .. Len(q)
    BY <1>1
  <2>2. r \in Seq(Stream)
    BY <2>1
  <2>3. Len(r) = m - a
    BY <1>1, <2>1
  <2>4. \A l \in 1 .. m - a : r[l] = q[a + l]
    BY <1>1, <2>1
  <2> QED
    BY <2>2, <2>3, <2>4
<1> HIDE DEF r
<1> DEFINE b == [j \in 0 .. m - a |-> sz[a + j]]
<1>3. m - a \in Nat /\ \A j \in 0 .. m - a : a + j \in 0 .. Len(q)
  BY <1>1
<1>4. b \in [0 .. m - a -> Sizes] /\ b[0] = sz[a] /\ b[m - a] = sz[m]
      /\ \A j \in 0 .. m - a : b[j] = sz[a + j]
  <2>1. b \in [0 .. m - a -> Sizes] /\ \A j \in 0 .. m - a : b[j] = sz[a + j]
    BY <1>3
  <2> HIDE DEF b
  <2>2. 0 \in 0 .. m - a /\ m - a \in 0 .. m - a /\ a + 0 = a /\ a + (m - a) = m
    BY <1>3
  <2> QED
    BY <2>1, <2>2
<1> HIDE DEF b
<1>5. Goes(r, b)
  <2>1. ASSUME NEW l \in 1 .. Len(r)
        PROVE  /\ b[l] = IF Setter(r[l]) THEN r[l].n ELSE b[l - 1]
               /\ r[l].t = "rect" => r[l].at \in SUBSET (1 .. b[l - 1])
    <3>1. /\ l \in 1 .. m - a /\ l \in 0 .. m - a /\ l - 1 \in 0 .. m - a
          /\ a + l \in 1 .. Len(q) /\ a + (l - 1) = (a + l) - 1
      BY <1>1, <1>2
    <3>2. r[l] = q[a + l] /\ b[l] = sz[a + l] /\ b[l - 1] = sz[(a + l) - 1]
      BY <1>2, <1>4, <3>1
    <3>3. /\ sz[a + l] = IF Setter(q[a + l]) THEN q[a + l].n ELSE sz[(a + l) - 1]
          /\ q[a + l].t = "rect" => q[a + l].at \in SUBSET (1 .. sz[(a + l) - 1])
      BY <3>1 DEF Goes
    <3> QED
      BY ONLY <3>2, <3>3
  <2> QED
    BY <2>1 DEF Goes
<1>6. ASSUME NEW j \in i + 1 .. Len(q) PROVE \E l \in 1 .. Len(r) : r[l] = q[j]
  <2>1. j - a \in 1 .. m - a /\ a + (j - a) = j
    BY <1>1
  <2>2. r[j - a] = q[j]
    BY <1>2, <2>1
  <2> QED
    BY <1>2, <2>1, <2>2
<1> QED
  BY <1>1, <1>2, <1>4, <1>5, <1>6 DEF Sized, r

\* Without a layout the size stays.
LEMMA SizedStays ==
  ASSUME NEW q \in Seq(Stream), NEW x, NEW e, Sized(q, x, e), \A j \in 1 .. Len(q) : q[j].t # "layout"
  PROVE  x = e
<1>1. PICK sz \in [0 .. Len(q) -> Sizes] : sz[0] = x /\ sz[Len(q)] = e /\ Goes(q, sz)
  BY DEF Sized
<1>2. PICK m \in Nat : m = Len(q)
  OBVIOUS
<1> DEFINE Bad == {j \in 0 .. m : sz[j] # x}
<1>3. ASSUME Bad # {} PROVE FALSE
  <2>1. Bad \subseteq Nat
    OBVIOUS
  <2>2. PICK j \in Bad : \A l \in Bad : j <= l
    <3> HIDE DEF Bad
    <3> QED
      BY <1>3, <2>1, Least
  <2>3. j \in 0 .. m /\ sz[j] # x
    BY <2>2
  <2>4. j # 0
    BY <1>1, <2>3
  <2>5. j - 1 \in 0 .. m /\ j \in 1 .. Len(q) /\ ~(j <= j - 1)
    BY <1>2, <2>3, <2>4
  <2>6. sz[j - 1] = x
    BY <2>2, <2>5
  <2>7. sz[j] = sz[j - 1]
    BY <1>1, <2>5 DEF Goes, Setter
  <2> QED
    BY <2>3, <2>6, <2>7
<1>4. m \in 0 .. m
  OBVIOUS
<1> QED
  BY <1>1, <1>2, <1>3, <1>4

\* What is damaged of a client's picture.
Damaged(h, t) == \E l \in 1 .. Len(h.dirty) : t \in h.dirty[l]
\* What the messages read have made of the client: a picture of another size is damaged as
\* a whole, and one of the same size where it is not as it was.
Ran(k, q, n, h) ==
  /\ h.resized => \A t \in 1 .. h.n : Damaged(h, t)
  /\ ~h.resized => h.n = k.n
  /\ ~h.resized => \A j \in 1 .. n : q[j].t = "rect" => \A t \in q[j].at : Damaged(h, t)
  /\ ~h.resized => \A t \in 1 .. h.n : Damaged(h, t) \/ h.fb[t] = k.fb[t]

\* A list with one more at its end.
LEMMA AppendIs ==
  ASSUME NEW T, NEW q \in Seq(T), NEW e \in T, NEW m \in Nat, m = Len(q)
  PROVE  /\ Append(q, e) \in Seq(T) /\ Len(Append(q, e)) = m + 1 /\ Append(q, e)[m + 1] = e
         /\ \A l \in 1 .. m : Append(q, e)[l] = q[l]
  OBVIOUS

\* Damage grows.
LEMMA DamageGrows ==
  ASSUME NEW k, NEW h, Decoder(k), NEW a \in SUBSET (1 .. k.n), h.dirty = Append(k.dirty, a)
  PROVE  \A t : Damaged(h, t) <=> (Damaged(k, t) \/ t \in a)
<1>1. PICK m, S : m \in Nat /\ m = Len(k.dirty) /\ k.dirty \in Seq(S) /\ a \in S
  <2>1. k.dirty \in Seq(SUBSET (1 .. k.n))
    BY DEF Decoder
  <2>2. Len(k.dirty) \in Nat
    BY <2>1
  <2> QED
    BY <2>1, <2>2, Zenon
<1>2. PICK d : d = Append(k.dirty, a)
  OBVIOUS
<1>3. Len(d) = m + 1 /\ d[m + 1] = a /\ \A l \in 1 .. m : d[l] = k.dirty[l]
  BY ONLY <1>1, <1>2, AppendIs
<1>4. h.dirty = d
  BY <1>2, Zenon
<1>5. m \in Nat
  BY ONLY <1>1
<1>6. 1 .. m + 1 = (1 .. m) \cup {m + 1}
  BY ONLY <1>5
<1> QED
  BY ONLY <1>1, <1>3, <1>4, <1>6 DEF Damaged

\* One message more.
LEMMA RanOn ==
  ASSUME NEW k, NEW q, NEW m \in Nat, NEW h, NEW g, Decoder(h), Ran(k, q, m, h),
         Stepped(h, q[m + 1], g), q[m + 1].t = "rect" => q[m + 1].at \in SUBSET (1 .. h.n)
  PROVE  Ran(k, q, m + 1, g)
<1> DEFINE i == q[m + 1]
<1>1. 1 .. m + 1 = (1 .. m) \cup {m + 1}
  OBVIOUS
<1>2. CASE i.t # "rect" /\ SamePicture(h, g)
  <2>1. \A t : Damaged(g, t) <=> Damaged(h, t)
    BY <1>2 DEF Damaged, SamePicture
  <2>2. g.n = h.n /\ g.fb = h.fb /\ g.resized = h.resized
    BY <1>2 DEF SamePicture
  <2>3. g.resized => \A t \in 1 .. g.n : Damaged(g, t)
    BY <2>1, <2>2 DEF Ran
  <2>4. ASSUME ~g.resized
        PROVE  /\ g.n = k.n
               /\ \A t \in 1 .. g.n : Damaged(g, t) \/ g.fb[t] = k.fb[t]
    BY <2>1, <2>2, <2>4 DEF Ran
  <2>5. ASSUME ~g.resized, NEW j \in 1 .. m + 1, q[j].t = "rect" PROVE \A t \in q[j].at : Damaged(g, t)
    BY <1>1, <1>2, <2>1, <2>2, <2>5 DEF Ran
  <2> QED
    BY <2>3, <2>4, <2>5 DEF Ran
<1>3. CASE i.t # "rect" /\ Blackened(g)
  <2>1. g.resized /\ g.dirty = <<1 .. g.n>>
    BY <1>3 DEF Blackened
  <2>2. 1 \in 1 .. Len(g.dirty) /\ g.dirty[1] = 1 .. g.n
    <3>1. \A S : Len(<<S>>) = 1 /\ <<S>>[1] = S
      OBVIOUS
    <3>2. Len(g.dirty) = 1 /\ g.dirty[1] = 1 .. g.n
      BY <2>1, <3>1, Zenon
    <3> QED
      BY <3>2
  <2>3. \A t \in 1 .. g.n : Damaged(g, t)
    BY <2>2, Zenon DEF Damaged
  <2> QED
    BY <2>1, <2>3 DEF Ran
<1>4. CASE /\ i.t = "rect" /\ g.n = h.n /\ g.resized = h.resized
           /\ g.dirty = Append(h.dirty, i.at) /\ g.fb = Paint(h.fb, i)
  <2>1. i.at \in SUBSET (1 .. h.n)
    BY <1>4
  <2>2. \A t : Damaged(g, t) <=> (Damaged(h, t) \/ t \in i.at)
    <3>1. \A a \in SUBSET (1 .. h.n) :
            g.dirty = Append(h.dirty, a) => \A t : Damaged(g, t) <=> (Damaged(h, t) \/ t \in a)
      BY DamageGrows
    <3> QED
      BY <1>4, <2>1, <3>1
  <2>3. \A t \in 1 .. h.n : t \in i.at \/ g.fb[t] = h.fb[t]
    <3>1. DOMAIN h.fb = 1 .. h.n
      BY DEF Decoder, Pics
    <3> QED
      BY <1>4, <3>1 DEF Paint
  <2>4. g.resized => \A t \in 1 .. g.n : Damaged(g, t)
    BY <1>4, <2>2 DEF Ran
  <2>5. ASSUME ~g.resized PROVE g.n = k.n
    BY <1>4, <2>5 DEF Ran
  <2>6. ASSUME ~g.resized, NEW t \in 1 .. g.n PROVE Damaged(g, t) \/ g.fb[t] = k.fb[t]
    BY <1>4, <2>2, <2>3, <2>6 DEF Ran
  <2>7. ASSUME ~g.resized, NEW j \in 1 .. m + 1, q[j].t = "rect" PROVE \A t \in q[j].at : Damaged(g, t)
    BY <1>1, <1>4, <2>2, <2>7 DEF Ran
  <2> QED
    BY <2>4, <2>5, <2>6, <2>7 DEF Ran
<1> QED
  BY <1>2, <1>3, <1>4 DEF Stepped

\* All that was read.
LEMMA FedRuns ==
  ASSUME NEW k, Decoder(k), k.dirty = <<>>, ~k.resized, NEW q \in Seq(Stream),
         NEW sz \in [0 .. Len(q) -> Sizes], sz[0] = k.n, Goes(q, sz), NEW n \in 0 .. Len(q)
  PROVE  LET h == Fed(k, q, n) IN Decoder(h) /\ h.n = sz[n] /\ Ran(k, q, n, h)
<1>1. PICK f : f[n] = Fed(k, q, n) /\ Reads(f, k, q, n)
  <2>1. n \in Nat
    OBVIOUS
  <2> QED
    BY <2>1, FedIs
<1> DEFINE Good(m) == Decoder(f[m]) /\ f[m].n = sz[m] /\ Ran(k, q, m, f[m])
           Bad == {m \in 0 .. n : ~Good(m)}
<1>2. Good(0)
  BY <1>1 DEF Ran, Reads
<1>3. ASSUME NEW m \in Nat, m + 1 \in 1 .. n, Good(m) PROVE Good(m + 1)
  <2>1. /\ m + 1 \in 1 .. Len(q) /\ (m + 1) - 1 = m /\ q[m + 1] \in Stream
    BY <1>3
  <2> DEFINE i == q[m + 1]
  <2>2. /\ sz[m + 1] = IF Setter(i) THEN i.n ELSE sz[m]
        /\ i.t = "rect" => i.at \in SUBSET (1 .. sz[m])
    BY <2>1 DEF Goes
  <2>3. f[m + 1] = StepReady(f[m], i)
    BY <1>1, <1>3, <2>1 DEF Reads
  <2>4. ItemOK(i)
    BY <2>1, StreamIs
  <2> HIDE DEF i
  <2>5. Stepped(f[m], i, f[m + 1])
    BY <1>3, <2>2, <2>3, <2>4, StepIs
  <2>6. Decoder(f[m + 1]) /\ f[m + 1].n = sz[m + 1]
    BY <1>3, <2>2, <2>5 DEF Stepped
  <2>7. Ran(k, q, m + 1, f[m + 1])
    BY <1>3, <2>2, <2>5, RanOn DEF i
  <2> QED
    BY <2>6, <2>7
<1> HIDE DEF Good
<1>4. ASSUME Bad # {} PROVE FALSE
  <2>1. Bad \subseteq Nat
    OBVIOUS
  <2>2. PICK m \in Bad : \A l \in Bad : m <= l
    <3> HIDE DEF Bad
    <3> QED
      BY <1>4, <2>1, Least
  <2>3. m \in 0 .. n /\ ~Good(m) /\ m # 0
    BY <1>2, <2>2
  <2>4. m - 1 \in Nat /\ m - 1 \in 0 .. n /\ (m - 1) + 1 = m /\ m \in 1 .. n /\ ~(m <= m - 1)
    BY <2>3
  <2>5. Good(m - 1)
    BY <2>2, <2>4
  <2>6. \A p \in Nat : p + 1 \in 1 .. n /\ Good(p) => Good(p + 1)
    BY <1>3
  <2>7. Good((m - 1) + 1)
    BY <2>4, <2>5, <2>6
  <2> QED
    BY <2>3, <2>4, <2>7
<1>5. Good(n)
  BY <1>4
<1> QED
  BY <1>1, <1>5 DEF Good

\* The commands change nothing of it.
LEMMA ToldKeeps ==
  ASSUME NEW k, Decoder(k), NEW q, Len(q) \in Nat, \A j \in 1 .. Len(q) : Command(q[j])
  PROVE  Decoder(Told(k, q)) /\ SamePicture(k, Told(k, q))
<1>1. PICK n \in Nat : n = Len(q)
  OBVIOUS
<1>2. PICK f : f[n] = Told(k, q) /\ Obeys(f, k, q, n)
  BY <1>1, ToldIs
<1> DEFINE Good(m) == Decoder(f[m]) /\ SamePicture(k, f[m])
           Bad == {m \in 0 .. n : ~Good(m)}
<1>3. Good(0)
  BY <1>2 DEF SamePicture, Obeys
<1>4. ASSUME NEW m \in 1 .. n, Good(m - 1) PROVE Good(m)
  <2>1. f[m] = Execute(f[m - 1], q[m]) /\ Command(q[m])
    BY <1>1, <1>2 DEF Obeys
  <2>2. Decoder(f[m]) /\ SamePicture(f[m - 1], f[m])
    BY <1>4, <2>1, ExecuteIs
  <2> QED
    BY <1>4, <2>2 DEF SamePicture
<1> HIDE DEF Good
<1>5. ASSUME Bad # {} PROVE FALSE
  <2>1. Bad \subseteq Nat
    OBVIOUS
  <2>2. PICK m \in Bad : \A l \in Bad : m <= l
    <3> HIDE DEF Bad
    <3> QED
      BY <1>5, <2>1, Least
  <2>3. m \in 0 .. n /\ ~Good(m) /\ m # 0
    BY <1>3, <2>2
  <2>4. m - 1 \in 0 .. n /\ m \in 1 .. n /\ ~(m <= m - 1)
    BY <2>3
  <2>5. Good(m - 1)
    BY <2>2, <2>4
  <2> QED
    BY <1>4, <2>3, <2>4, <2>5
<1>6. Good(n)
  BY <1>5
<1> QED
  BY <1>2, <1>6 DEF Good

\* Pixels adds the rectangles up.
LEMMA PixelsAre ==
  ASSUME NEW rects, NEW n \in Nat, NEW m \in Nat, m = Len(rects),
         \A i \in 1 .. m : rects[i].at \in SUBSET (1 .. n)
  PROVE  Pixels(rects) \in Nat
<1> DEFINE Advance(i, f) == IF i = 0 THEN 0 ELSE f[i - 1] + Cardinality(rects[i].at)
           IsRun(f, l) == f = [i \in 0 .. l |-> Advance(i, f)]
           Bad == {l \in 0 .. m : ~\E f : f \in [0 .. l -> Nat] /\ IsRun(f, l)}
<1>1. Pixels(rects) = (CHOOSE f : IsRun(f, m))[m]
  BY DEF Pixels
<1>2. \A i \in 1 .. m : Cardinality(rects[i].at) \in Nat
  <2>1. IsFiniteSet(1 .. n)
    BY FS_Interval
  <2> TAKE i \in 1 .. m
  <2>2. IsFiniteSet(rects[i].at)
    BY <2>1, FS_Subset
  <2> QED
    BY <2>2, FS_CardinalityType
<1>3. Bad = {}
  <2>1. SUFFICES ASSUME Bad # {} PROVE FALSE
    OBVIOUS
  <2>2. Bad \subseteq Nat
    OBVIOUS
  <2>3. PICK l \in Bad : \A j \in Bad : l <= j
    <3> HIDE DEF Bad
    <3> QED
      BY <2>1, <2>2, Least
  <2>4. l \in 0 .. m /\ ~\E f : f \in [0 .. l -> Nat] /\ IsRun(f, l)
    BY <2>3
  <2>5. l # 0
    <3> DEFINE f == [i \in 0 .. 0 |-> 0]
    <3>1. f = [i \in 0 .. 0 |-> Advance(i, f)]
      OBVIOUS
    <3>2. f \in [0 .. 0 -> Nat]
      OBVIOUS
    <3>3. IsRun(f, 0)
      BY <3>1
    <3> HIDE DEF f, IsRun
    <3>4. ASSUME l = 0 PROVE FALSE
      <4>1. ~\E z : z \in [0 .. 0 -> Nat] /\ IsRun(z, 0)
        BY <2>4, <3>4, Zenon
      <4> QED
        BY <3>2, <3>3, <4>1, Zenon
    <3> QED
      BY <3>4
  <2>6. l - 1 \in 0 .. m /\ l - 1 \notin Bad
    <3> HIDE DEF Bad, IsRun
    <3>1. l - 1 \in 0 .. m /\ ~(l <= l - 1)
      BY <2>4, <2>5
    <3> QED
      BY <2>3, <3>1
  <2>7. PICK f : f \in [0 .. l - 1 -> Nat] /\ IsRun(f, l - 1)
    BY <2>6
  <2> DEFINE g == [i \in 0 .. l |-> IF i < l THEN f[i] ELSE f[l - 1] + Cardinality(rects[l].at)]
  <2>8. g \in [0 .. l -> Nat]
    <3>1. f[l - 1] \in Nat /\ Cardinality(rects[l].at) \in Nat
      BY <1>2, <2>4, <2>5, <2>7
    <3>2. \A i \in 0 .. l : i < l => f[i] \in Nat
      BY <2>4, <2>7
    <3> QED
      BY <3>1, <3>2
  <2>9. ASSUME NEW i \in 0 .. l PROVE g[i] = Advance(i, g)
    <3>1. CASE i = 0
      <4>1. f[0] = 0
        BY <2>4, <2>5, <2>7
      <4> QED
        BY <2>4, <2>5, <3>1, <4>1
    <3>2. CASE i # 0 /\ i < l
      <4>1. f[i] = f[i - 1] + Cardinality(rects[i].at)
        BY <2>4, <2>7, <3>2
      <4>2. g[i - 1] = f[i - 1] /\ g[i] = f[i]
        BY <2>4, <3>2
      <4> QED
        BY <3>2, <4>1, <4>2
    <3>3. CASE i = l
      <4>1. g[l] = f[l - 1] + Cardinality(rects[l].at) /\ g[l - 1] = f[l - 1]
        BY <2>4, <2>5
      <4> QED
        BY <2>5, <3>3, <4>1
    <3> QED
      BY <2>4, <3>1, <3>2, <3>3
  <2>10. IsRun(g, l)
    <3> HIDE DEF g
    <3>1. DOMAIN g = 0 .. l /\ g = [i \in 0 .. l |-> g[i]]
      BY DEF g
    <3> QED
      BY <2>9, <3>1
  <2> HIDE DEF g
  <2> QED
    BY <2>4, <2>8, <2>10
<1>4. PICK f : f \in [0 .. m -> Nat] /\ IsRun(f, m)
  BY <1>3
<1>5. PICK h : IsRun(h, m) /\ h = CHOOSE z : IsRun(z, m)
  <2> HIDE DEF IsRun
  <2> QED
    BY <1>4
<1> DEFINE Off == {l \in 0 .. m : h[l] \notin Nat}
<1>6. /\ h[0] = 0
      /\ \A i \in 1 .. m : h[i] = h[i - 1] + Cardinality(rects[i].at)
  BY <1>5
<1> HIDE DEF IsRun
<1>7. ASSUME Off # {} PROVE FALSE
  <2>1. Off \subseteq Nat
    OBVIOUS
  <2>2. PICK l \in Off : \A j \in Off : l <= j
    <3> HIDE DEF Off
    <3> QED
      BY <1>7, <2>1, Least
  <2>3. l \in 0 .. m /\ h[l] \notin Nat /\ l # 0
    BY <1>6, <2>2
  <2>4. l \in 1 .. m /\ l - 1 \in 0 .. m /\ ~(l <= l - 1)
    BY <2>3
  <2>5. h[l - 1] \in Nat
    BY <2>2, <2>4
  <2>6. h[l] = h[l - 1] + Cardinality(rects[l].at) /\ Cardinality(rects[l].at) \in Nat
    BY <1>2, <1>6, <2>4
  <2> QED
    BY <2>3, <2>5, <2>6
<1>8. h[m] \in Nat
  BY <1>7
<1> QED
  BY <1>1, <1>5, <1>8

\* The tile t shows the last rectangle over it, or else what was there.
Over(px, rects, t, v) ==
  \/ v = px[t] /\ \A i \in 1 .. Len(rects) : t \notin rects[i].at
  \/ \E i \in 1 .. Len(rects) : /\ t \in rects[i].at /\ v = rects[i].px[t]
                                /\ \A j \in i + 1 .. Len(rects) : t \notin rects[j].at

\* What Painted paints is the value of the last piece over a tile, or the one under them.
LEMMA PaintedIs ==
  ASSUME NEW px, NEW rects, Len(rects) \in Nat
  PROVE  /\ DOMAIN Painted(px, rects) = DOMAIN px
         /\ \A t \in DOMAIN px : Over(px, rects, t, Painted(px, rects)[t])
<1>1. DOMAIN Painted(px, rects) = DOMAIN px
  BY DEF Painted
<1>2. ASSUME NEW t \in DOMAIN px PROVE Over(px, rects, t, Painted(px, rects)[t])
  <2>1. CASE ~\E i \in 1 .. Len(rects) : Covers(rects, t, i)
    BY <2>1 DEF Painted, Over, Covers
  <2>2. CASE \E i \in 1 .. Len(rects) : Covers(rects, t, i)
    <3> DEFINE T == {i \in 1 .. Len(rects) : Covers(rects, t, i)}
               l == LastOver(rects, t)
    <3>1. T \subseteq 1 .. Len(rects) /\ T # {}
      BY <2>2
    <3>2. PICK m \in T : \A k \in T : k <= m
      <4> HIDE DEF T
      <4> QED
        BY <3>1, Greatest
    <3>3. Covers(rects, t, m) /\ \A j \in m + 1 .. Len(rects) : ~Covers(rects, t, j)
      <4>1. m \in 1 .. Len(rects) /\ Covers(rects, t, m)
        BY <3>2
      <4>2. ASSUME NEW j \in m + 1 .. Len(rects), Covers(rects, t, j) PROVE FALSE
        <5>1. j \in 1 .. Len(rects) /\ ~(j <= m)
          BY <4>1
        <5>2. j \in T
          BY <4>2, <5>1
        <5> QED
          BY <3>2, <5>1, <5>2
      <4> QED
        BY <4>1, <4>2
    <3>4. Covers(rects, t, l) /\ \A j \in l + 1 .. Len(rects) : ~Covers(rects, t, j)
      BY <3>3, Zenon DEF LastOver
    <3>5. Painted(px, rects)[t] = rects[l].px[t]
      BY <2>2 DEF Painted
    <3> HIDE DEF l, T
    <3>6. l \in 1 .. Len(rects) /\ t \in rects[l].at
      BY <3>4 DEF Covers
    <3>7. ASSUME NEW j \in l + 1 .. Len(rects) PROVE t \notin rects[j].at
      <4>1. j \in 1 .. Len(rects)
        BY <3>6
      <4> QED
        BY <3>4, <4>1 DEF Covers
    <3> QED
      BY <3>5, <3>6, <3>7 DEF Over
  <2> QED
    BY <2>1, <2>2
<1> QED
  BY <1>1, <1>2

\* It shows one picture only.
LEMMA OverOne ==
  ASSUME NEW px, NEW rects, Len(rects) \in Nat, NEW t, NEW v, NEW u,
         Over(px, rects, t, v), Over(px, rects, t, u)
  PROVE  v = u
<1>1. CASE \A i \in 1 .. Len(rects) : t \notin rects[i].at
  BY <1>1 DEF Over
<1>2. CASE ~\A i \in 1 .. Len(rects) : t \notin rects[i].at
  <2>1. PICK i \in 1 .. Len(rects) : /\ t \in rects[i].at /\ v = rects[i].px[t]
                                     /\ \A j \in i + 1 .. Len(rects) : t \notin rects[j].at
    BY <1>2 DEF Over
  <2>2. PICK k \in 1 .. Len(rects) : /\ t \in rects[k].at /\ u = rects[k].px[t]
                                     /\ \A j \in k + 1 .. Len(rects) : t \notin rects[j].at
    BY <1>2 DEF Over
  <2>3. k \notin i + 1 .. Len(rects) /\ i \notin k + 1 .. Len(rects)
    BY <2>1, <2>2
  <2>4. i = k
    BY <2>3
  <2> QED
    BY <2>1, <2>2, <2>4
<1> QED
  BY <1>1, <1>2

\* The damage on its way to the renderer: pieces of a picture of its size.
Pieces(n) == UNION {[at : {a}, px : [a -> Nat]] : a \in SUBSET (1 .. n)}
\* Damage that lies within its picture.
DamageOK(p) ==
  /\ p = [n |-> p.n, full |-> p.full, rects |-> p.rects]
  /\ p.n \in Sizes /\ p.rects \in Seq(Pieces(p.n))

\* A copy of a part of the client's picture is a piece of it.
LEMMA RectOf ==
  ASSUME NEW n \in Nat, NEW fb \in Pics(n), NEW a \in SUBSET (1 .. n)
  PROVE  /\ Rect(a, fb) \in Pieces(n) /\ Rect(a, fb).at = a
         /\ \A t \in a : Rect(a, fb).px[t] = fb[t]
<1> DEFINE p == [t \in a |-> fb[t]]  r == [at |-> a, px |-> p]
<1>1. p \in [a -> Nat] /\ \A t \in a : p[t] = fb[t]
  BY DEF Pics
<1>2. Rect(a, fb) = r
  BY DEF Rect
<1> HIDE DEF p
<1>3. r \in [at : {a}, px : [a -> Nat]]
  BY <1>1
<1>4. r \in Pieces(n)
  BY <1>3, Zenon DEF Pieces
<1> QED
  BY <1>1, <1>2, <1>4

\* A piece lies within the picture.
LEMMA PieceIs == ASSUME NEW n, NEW r \in Pieces(n) PROVE r.at \in SUBSET (1 .. n) /\ r.px \in [r.at -> Nat]
<1>1. PICK a \in SUBSET (1 .. n) : r \in [at : {a}, px : [a -> Nat]]
  BY DEF Pieces
<1> QED
  BY <1>1

\* There is a number of damaged parts.
LEMMA DirtyIs ==
  ASSUME NEW k, Decoder(k)
  PROVE  Len(k.dirty) \in Nat /\ \A i \in 1 .. Len(k.dirty) : k.dirty[i] \in SUBSET (1 .. k.n)
<1>1. k.dirty \in Seq(SUBSET (1 .. k.n))
  BY DEF Decoder
<1>2. \A S : \A q \in Seq(S) : Len(q) \in Nat /\ \A i \in 1 .. Len(q) : q[i] \in S
  OBVIOUS
<1> QED
  BY <1>1, <1>2, Zenon

\* Two lists, one after the other.
LEMMA JoinIs ==
  ASSUME NEW S, NEW q \in Seq(S), NEW r \in Seq(S), NEW m \in Nat, m = Len(q), NEW n \in Nat, n = Len(r)
  PROVE  /\ q \o r \in Seq(S) /\ Len(q \o r) = m + n
         /\ \A i \in 1 .. m : (q \o r)[i] = q[i]
         /\ \A i \in m + 1 .. m + n : (q \o r)[i] = r[i - m]
  OBVIOUS

\* The copies are of what is damaged.
LEMMA CopiesAre ==
  ASSUME NEW k, Decoder(k)
  PROVE  /\ Copies(k) \in Seq(Pieces(k.n)) /\ Len(Copies(k)) = Len(k.dirty)
         /\ \A i \in 1 .. Len(k.dirty) :
              Copies(k)[i].at = k.dirty[i] /\ \A t \in k.dirty[i] : Copies(k)[i].px[t] = k.fb[t]
<1>1. PICK m \in Nat : m = Len(k.dirty) /\ \A i \in 1 .. m : k.dirty[i] \in SUBSET (1 .. k.n)
  BY DirtyIs
<1>2. k.n \in Nat /\ k.fb \in Pics(k.n) /\ \A i \in 1 .. m : k.dirty[i] \in SUBSET (1 .. k.n)
  BY <1>1, SizesAre DEF Decoder
<1>3. \A i \in 1 .. m : /\ Rect(k.dirty[i], k.fb) \in Pieces(k.n)
                        /\ Rect(k.dirty[i], k.fb).at = k.dirty[i]
                        /\ \A t \in k.dirty[i] : Rect(k.dirty[i], k.fb).px[t] = k.fb[t]
  BY <1>2, RectOf
<1>4. Copies(k) = [i \in 1 .. m |-> Rect(k.dirty[i], k.fb)]
  BY <1>1 DEF Copies
<1>5. Copies(k) \in Seq(Pieces(k.n)) /\ Len(Copies(k)) = m
  BY <1>3, <1>4
<1> QED
  BY <1>1, <1>3, <1>4, <1>5

\* With the copies over it a picture is the client's where that was damaged, and elsewhere as
\* it was without them.
LEMMA CopiesOver ==
  ASSUME NEW k, Decoder(k), NEW rects \in Seq(Pieces(k.n)), NEW px, DOMAIN px = 1 .. k.n, NEW t \in 1 .. k.n
  PROVE  LET v == Painted(px, rects \o Copies(k))[t]
         IN  /\ Damaged(k, t) => v = k.fb[t]
             /\ ~Damaged(k, t) => v = Painted(px, rects)[t]
<1> DEFINE z == Copies(k)  y == rects \o z  v == Painted(px, y)[t]
<1>1. PICK m \in Nat, n \in Nat : m = Len(rects) /\ n = Len(k.dirty)
  BY DirtyIs
<1>2. /\ Len(z) = n /\ z \in Seq(Pieces(k.n))
      /\ \A i \in 1 .. n : z[i].at = k.dirty[i] /\ \A x \in k.dirty[i] : z[i].px[x] = k.fb[x]
  BY <1>1, CopiesAre
<1> HIDE DEF z
<1>3. /\ Len(y) = m + n
      /\ \A i \in 1 .. m : y[i] = rects[i]
      /\ \A i \in m + 1 .. m + n : y[i] = z[i - m]
  <2>1. rects \in Seq(Pieces(k.n)) /\ z \in Seq(Pieces(k.n)) /\ n = Len(z)
    BY <1>2
  <2> HIDE DEF y
  <2>2. /\ Len(rects \o z) = m + n
        /\ \A i \in 1 .. m : (rects \o z)[i] = rects[i]
        /\ \A i \in m + 1 .. m + n : (rects \o z)[i] = z[i - m]
    BY ONLY m \in Nat, n \in Nat, <1>1, <2>1, JoinIs
  <2> QED
    BY <2>2 DEF y
<1> HIDE DEF y
<1>4. Over(px, y, t, v)
  <2>1. Len(y) \in Nat /\ t \in DOMAIN px
    BY <1>3
  <2> QED
    BY <2>1, PaintedIs
<1>5. Over(px, rects, t, Painted(px, rects)[t])
  <2>1. Len(rects) \in Nat /\ t \in DOMAIN px
    BY <1>1
  <2> QED
    BY <2>1, PaintedIs
<1> HIDE DEF v
<1>6. \A i \in m + 1 .. m + n : /\ i - m \in 1 .. n /\ y[i].at = k.dirty[i - m]
                                /\ t \in y[i].at => y[i].px[t] = k.fb[t]
  <2> TAKE i \in m + 1 .. m + n
  <2>1. i - m \in 1 .. n
    OBVIOUS
  <2> QED
    BY <1>2, <1>3, <2>1
<1>7. ASSUME Damaged(k, t) PROVE v = k.fb[t]
  <2>1. PICK l \in 1 .. n : t \in k.dirty[l]
    BY <1>1, <1>7 DEF Damaged
  <2>2. m + l \in m + 1 .. m + n /\ (m + l) - m = l /\ m + l \in 1 .. Len(y)
    BY <1>3
  <2>3. t \in y[m + l].at
    BY <1>6, <2>1, <2>2
  <2>4. PICK i \in 1 .. Len(y) : /\ t \in y[i].at /\ v = y[i].px[t]
                                 /\ \A j \in i + 1 .. Len(y) : t \notin y[j].at
    BY <1>4, <2>2, <2>3 DEF Over
  <2>5. m + l \notin i + 1 .. Len(y)
    BY <2>3, <2>4
  <2>6. i \in m + 1 .. m + n
    BY <1>3, <2>2, <2>4, <2>5
  <2> QED
    BY <1>6, <2>4, <2>6
<1>8. ASSUME ~Damaged(k, t) PROVE v = Painted(px, rects)[t]
  <2>1. \A i \in m + 1 .. m + n : t \notin y[i].at
    BY <1>1, <1>6, <1>8 DEF Damaged
  <2>2. CASE \E i \in 1 .. Len(y) : /\ t \in y[i].at /\ v = y[i].px[t]
                                    /\ \A j \in i + 1 .. Len(y) : t \notin y[j].at
    <3>1. PICK i \in 1 .. Len(y) : /\ t \in y[i].at /\ v = y[i].px[t]
                                   /\ \A j \in i + 1 .. Len(y) : t \notin y[j].at
      BY <2>2
    <3>2. i \in 1 .. m
      BY <1>3, <2>1, <3>1
    <3>3. ASSUME NEW j \in i + 1 .. m PROVE t \notin rects[j].at
      <4>1. j \in i + 1 .. Len(y) /\ j \in 1 .. m
        BY <1>3, <3>2
      <4> QED
        BY <1>3, <3>1, <4>1
    <3>4. Over(px, rects, t, v)
      BY <1>1, <1>3, <3>1, <3>2, <3>3 DEF Over
    <3> QED
      BY <1>1, <1>5, <3>4, OverOne
  <2>3. CASE v = px[t] /\ \A i \in 1 .. Len(y) : t \notin y[i].at
    <3>1. ASSUME NEW i \in 1 .. m PROVE t \notin rects[i].at
      <4>1. i \in 1 .. Len(y)
        BY <1>3
      <4> QED
        BY <1>3, <2>3, <4>1
    <3>2. Over(px, rects, t, v)
      BY <1>1, <2>3, <3>1 DEF Over
    <3> QED
      BY <1>1, <1>5, <3>2, OverOne
  <2> QED
    BY <1>4, <2>2, <2>3 DEF Over
<1> QED
  BY <1>7, <1>8 DEF v, y, z

\* A copy of the whole is the client's picture.
LEMMA WholeOver ==
  ASSUME NEW k, Decoder(k), NEW px, DOMAIN px = 1 .. k.n, NEW t \in 1 .. k.n
  PROVE  LET rects == <<Rect(1 .. k.n, k.fb)>>
         IN  rects \in Seq(Pieces(k.n)) /\ Painted(px, rects)[t] = k.fb[t] /\ Pixels(rects) = k.n
<1> DEFINE a == 1 .. k.n  r == Rect(a, k.fb)  rects == <<r>>
<1>1. k.n \in Nat /\ k.fb \in Pics(k.n) /\ a \in SUBSET (1 .. k.n) /\ t \in a
  BY SizesAre DEF Decoder
<1>2. r \in Pieces(k.n) /\ r.at = a /\ r.px[t] = k.fb[t]
  BY <1>1, RectOf
<1>3. Cardinality(a) = k.n
  BY <1>1, FS_Interval
<1> HIDE DEF r, a
<1>4. rects \in Seq(Pieces(k.n)) /\ Len(rects) = 1 /\ rects[1] = r
  BY <1>2
<1>5. Pixels(rects) = 0 + Cardinality(r.at)
  BY PixelsOne
<1> HIDE DEF rects
<1>6. Over(px, rects, t, Painted(px, rects)[t])
  <2>1. Len(rects) \in Nat /\ t \in DOMAIN px
    BY <1>4
  <2> QED
    BY <2>1, PaintedIs
<1>7. Painted(px, rects)[t] = k.fb[t]
  BY <1>1, <1>2, <1>4, <1>6 DEF Over
<1>8. Pixels(rects) = k.n
  BY <1>1, <1>2, <1>3, <1>5
<1> QED
  BY <1>4, <1>7, <1>8 DEF rects, r, a

\* What is published is bounded, and shows the client's picture wherever it was damaged; the
\* rest shows what it showed, unless a resize has emptied the damage.
LEMMA PublishedIs ==
  ASSUME NEW k, Decoder(k), DamageOK(pending), ~k.resized => pending.n = k.n,
         k.resized => \A t \in 1 .. k.n : Damaged(k, t), Pixels(pending.rects) <= pending.n
  PROVE  LET p == Published(k)
         IN  /\ DamageOK(p) /\ p.n = k.n /\ Pixels(p.rects) <= p.n
             /\ \A px, t : DOMAIN px = 1 .. k.n /\ t \in 1 .. k.n =>
                  LET v == Painted(px, p.rects)[t]
                  IN  \/ v = k.fb[t]
                      \/ ~Damaged(k, t) /\ (~k.resized => v = Painted(px, pending.rects)[t])
<1> DEFINE b == IF k.resized THEN <<>> ELSE pending.rects
           base == IF k.resized THEN NoDamage(k.n) ELSE pending
           z == b \o Copies(k)
           more == [base EXCEPT !.rects = @ \o Copies(k)]
           y == <<Rect(1 .. k.n, k.fb)>>
           all == IF k.dirty # <<>> /\ Pixels(more.rects) > k.n THEN Whole(k) ELSE more
           p == Published(k)
<1>1. k.n \in Sizes /\ k.n \in Nat /\ k.n >= 1
  BY SizesAre DEF Decoder
<1>2. b \in Seq(Pieces(k.n))
  <2>1. \A S : <<>> \in Seq(S)
    OBVIOUS
  <2> QED
    BY <2>1 DEF DamageOK
<1>3. Copies(k) \in Seq(Pieces(k.n)) /\ Len(Copies(k)) = Len(k.dirty)
  BY CopiesAre
<1>4. z \in Seq(Pieces(k.n))
  BY <1>2, <1>3
<1>5. more.rects = z
  <2>1. base = [n |-> base.n, full |-> base.full, rects |-> base.rects] /\ base.rects = b
    BY DEF NoDamage, DamageOK
  <2> HIDE DEF base, b
  <2> QED
    BY <2>1
<1>6. p = [all EXCEPT !.n = k.n, !.full = @ \/ k.dirty = <<1 .. k.n>>]
  BY DEF Published
<1>7. all.rects = (IF k.dirty # <<>> /\ Pixels(z) > k.n THEN y ELSE z)
      /\ all = [n |-> all.n, full |-> all.full, rects |-> all.rects]
  <2>1. more = [n |-> more.n, full |-> more.full, rects |-> more.rects]
    <3>1. base = [n |-> base.n, full |-> base.full, rects |-> base.rects]
      <4>1. CASE k.resized
        BY <4>1 DEF NoDamage
      <4>2. CASE ~k.resized
        BY <4>2 DEF DamageOK
      <4> QED
        BY <4>1, <4>2
    <3>2. PICK bn, bf, br : base = [n |-> bn, full |-> bf, rects |-> br]
      BY <3>1, Zenon
    <3> HIDE DEF base
    <3>4. more = [[n |-> bn, full |-> bf, rects |-> br] EXCEPT !.rects = @ \o Copies(k)]
      BY <3>2, Zenon
    <3> HIDE DEF more
    <3>3. more = [n |-> bn, full |-> bf, rects |-> br \o Copies(k)]
      BY ONLY <3>4
    <3> QED
      BY <3>3
  <2> HIDE DEF more
  <2> QED
    BY <1>5, <2>1 DEF Whole
<1> HIDE DEF all, b, base, z, more
<1>8. p.n = k.n /\ p.rects = all.rects /\ p = [n |-> p.n, full |-> p.full, rects |-> p.rects]
  BY <1>6, <1>7
<1>9. y \in Seq(Pieces(k.n)) /\ Pixels(y) = k.n
  <2> DEFINE px == [x \in 1 .. k.n |-> 0]
  <2>1. DOMAIN px = 1 .. k.n /\ 1 \in 1 .. k.n
    BY <1>1
  <2> HIDE DEF px
  <2> QED
    BY <2>1, WholeOver
<1>10. DamageOK(p)
  BY <1>1, <1>4, <1>7, <1>8, <1>9 DEF DamageOK
<1>11. Pixels(p.rects) <= p.n
  <2>1. CASE k.dirty = <<>> /\ ~k.resized
    <3>1. Copies(k) = <<>> /\ b = pending.rects /\ pending.rects \in Seq(Pieces(k.n)) /\ pending.n = k.n
      BY <1>3, <2>1 DEF b, DamageOK
    <3>2. z = pending.rects
      BY <3>1 DEF z
    <3> QED
      BY <1>7, <1>8, <2>1, <3>1, <3>2
  <2>2. ASSUME k.dirty = <<>>, k.resized PROVE FALSE
    <3>1. Damaged(k, 1) /\ Len(k.dirty) = 0
      BY <1>1, <2>2
    <3> QED
      BY <3>1 DEF Damaged
  <2>3. CASE k.dirty # <<>>
    <3>1. Pixels(z) \in Nat
      <4>1. PICK m \in Nat : m = Len(z)
        BY <1>4
      <4>2. \A i \in 1 .. m : z[i].at \in SUBSET (1 .. k.n)
        BY <1>4, <4>1, PieceIs
      <4> QED
        BY <1>1, <4>1, <4>2, PixelsAre
    <3>2. CASE Pixels(z) > k.n
      BY <1>1, <1>7, <1>8, <1>9, <2>3, <3>2
    <3>3. CASE ~(Pixels(z) > k.n)
      <4>1. p.rects = z
        BY <1>7, <1>8, <3>3
      <4> QED
        BY <1>1, <1>8, <3>1, <3>3, <4>1
    <3> QED
      BY <3>2, <3>3
  <2> QED
    BY <2>1, <2>2, <2>3
<1>12. ASSUME NEW px, NEW t, DOMAIN px = 1 .. k.n, t \in 1 .. k.n
       PROVE  LET v == Painted(px, p.rects)[t]
              IN  \/ v = k.fb[t]
                  \/ ~Damaged(k, t) /\ (~k.resized => v = Painted(px, pending.rects)[t])
  <2>1. CASE p.rects = y
    <3>1. Painted(px, y)[t] = k.fb[t]
      BY <1>12, WholeOver
    <3> QED
      BY <2>1, <3>1
  <2>2. CASE p.rects = z
    <3>1. /\ Damaged(k, t) => Painted(px, z)[t] = k.fb[t]
          /\ ~Damaged(k, t) => Painted(px, z)[t] = Painted(px, b)[t]
      BY <1>2, <1>12, CopiesOver DEF z
    <3>2. ~k.resized => b = pending.rects
      BY DEF b
    <3> QED
      BY <2>2, <3>1, <3>2
  <2> QED
    BY <1>7, <1>8, <2>1, <2>2
<1> QED
  BY <1>8, <1>10, <1>11, <1>12

\* The server, the orders the client is given, and what is agreed between all of them.
ServerFields == {"n", "pic", "mod", "request", "region", "layouts", "can", "ext", "takes", "says"}
ServerOK(s) ==
  /\ DOMAIN s = ServerFields /\ s = [f \in ServerFields |-> s[f]]
  /\ s.n \in Sizes /\ s.pic \in Pics(s.n) /\ s.mod \in SUBSET (1 .. s.n)
  /\ s.layouts \in Seq([n : Sizes, ours : BOOLEAN, ok : BOOLEAN])
\* What the client is asked for, and the state each part is in.
Orders == [kind : {"refresh"}, n : {0}] \cup [kind : {"size"}, n : Sizes]
ClientOK == Decoder(client) /\ client.send = <<>> /\ client.dirty = <<>> /\ ~client.resized
PendingOK == DamageOK(pending) /\ pending.n = client.n /\ Pixels(pending.rects) <= pending.n
DeskOK ==
  desk = [n |-> desk.n, px |-> desk.px] /\ desk.n \in 0 .. MaxSize /\ (desk.n > 0 => DOMAIN desk.px = 1 .. desk.n)
UsedOK == used = [changes |-> used.changes, troubles |-> used.troubles] /\ used.changes \in Nat
WindowOK == window = [n |-> window.n, due |-> window.due] /\ window.n \in Sizes
\* The sizes on the way lead from the client's to the server's.
Items(ls) == [i \in 1 .. Len(ls) |-> Item(ls[i])]
Agrees(q, x, s) == \E d \in Sizes : Sized(q, x, d) /\ Sized(Items(s.layouts), d, s.n)
\* The server still has the tile t to send, or has none, or it is on its way.
Owed(q, s, t) ==
  \/ t > s.n \/ t \in s.mod
  \/ \E j \in 1 .. Len(q) : q[j].t = "rect" /\ t \in q[j].at
\* The renderer will have the tile t as the client has it, once it takes what is pending.
InStep(t) == Painted(Configured.px, pending.rects)[t] = client.fb[t]

\* The inductive invariant: of a tile the renderer does not have as the client does, the
\* server owes the picture; and that is kept only because rectangles fit the sizes the layouts
\* ahead of them lead to.
PictureInv ==
  /\ ServerOK(server) /\ down \in Seq(Stream) /\ up \in Seq(Wire) /\ cmds \in Seq(Orders)
  /\ ClientOK /\ PendingOK /\ DeskOK /\ UsedOK /\ WindowOK
  /\ live => Agrees(down, client.n, server)
  /\ live => \A t \in 1 .. client.n : InStep(t) \/ Owed(down, server, t)

\* Nothing to read leads nowhere, and one message where it says.
LEMMA SizedOne ==
  ASSUME NEW x \in Sizes
  PROVE  /\ <<>> \in Seq(Stream) /\ Sized(<<>>, x, x)
         /\ \A i \in Stream : (i.t = "rect" => i.at \in SUBSET (1 .. x)) =>
              <<i>> \in Seq(Stream) /\ Sized(<<i>>, x, IF Setter(i) THEN i.n ELSE x)
<1>1. <<>> \in Seq(Stream) /\ Sized(<<>>, x, x)
  <2> DEFINE sz == [j \in 0 .. 0 |-> x]
  <2>1. Len(<<>>) = 0 /\ <<>> \in Seq(Stream)
    OBVIOUS
  <2>2. sz \in [0 .. 0 -> Sizes] /\ sz[0] = x
    OBVIOUS
  <2> HIDE DEF sz
  <2>3. Goes(<<>>, sz)
    BY <2>1 DEF Goes
  <2> QED
    BY <2>1, <2>2, <2>3 DEF Sized
<1>2. ASSUME NEW i \in Stream, i.t = "rect" => i.at \in SUBSET (1 .. x)
      PROVE  <<i>> \in Seq(Stream) /\ Sized(<<i>>, x, IF Setter(i) THEN i.n ELSE x)
  <2> DEFINE e == IF Setter(i) THEN i.n ELSE x
             sz == [j \in 0 .. 1 |-> IF j = 0 THEN x ELSE e]
             q == <<i>>
  <2>1. Len(q) = 1 /\ q \in Seq(Stream) /\ q[1] = i
    OBVIOUS
  <2>2. e \in Sizes
    BY StreamIs DEF ItemOK, Setter
  <2>3. sz \in [0 .. 1 -> Sizes] /\ sz[0] = x /\ sz[1] = e
    BY <2>2
  <2> HIDE DEF sz, q
  <2>4. Goes(q, sz)
    <3>1. 1 .. Len(q) = {1} /\ 1 - 1 = 0
      BY <2>1
    <3>2. /\ sz[1] = IF Setter(q[1]) THEN q[1].n ELSE sz[0]
          /\ q[1].t = "rect" => q[1].at \in SUBSET (1 .. sz[0])
      BY <1>2, <2>1, <2>3
    <3> HIDE DEF e
    <3> QED
      BY <3>1, <3>2 DEF Goes
  <2> HIDE DEF e
  <2>5. Sized(q, x, e)
    BY <2>1, <2>3, <2>4 DEF Sized
  <2> QED
    BY <2>1, <2>5 DEF q, e
<1> QED
  BY <1>1, <1>2

\* Rectangles that fit a size leave it.
LEMMA SizedRects ==
  ASSUME NEW x \in Sizes, NEW q \in Seq(Stream),
         \A j \in 1 .. Len(q) : q[j].t = "rect" /\ q[j].at \in SUBSET (1 .. x)
  PROVE  Sized(q, x, x)
<1> DEFINE sz == [j \in 0 .. Len(q) |-> x]
<1>1. PICK m \in Nat : m = Len(q)
  OBVIOUS
<1>2. sz \in [0 .. Len(q) -> Sizes] /\ sz[0] = x /\ sz[Len(q)] = x /\ \A j \in 0 .. m : sz[j] = x
  BY <1>1
<1> HIDE DEF sz
<1>3. ASSUME NEW j \in 1 .. Len(q)
      PROVE  /\ sz[j] = IF Setter(q[j]) THEN q[j].n ELSE sz[j - 1]
             /\ q[j].t = "rect" => q[j].at \in SUBSET (1 .. sz[j - 1])
  <2>1. j \in 0 .. m /\ j - 1 \in 0 .. m
    BY <1>1
  <2>2. ~Setter(q[j])
    BY DEF Setter
  <2> QED
    BY <1>2, <2>1, <2>2
<1>4. Goes(q, sz)
  BY <1>3 DEF Goes
<1> QED
  BY <1>2, <1>4 DEF Sized

\* The layouts due.
Layouts == [n : Sizes, ours : BOOLEAN, ok : BOOLEAN]

\* A layout due, as a message.
LEMMA ItemIs ==
  ASSUME NEW l \in Layouts
  PROVE  /\ Item(l) \in Stream /\ Item(l).t = "layout" /\ Item(l).n = l.n
         /\ Setter(Item(l)) <=> ~(l.ours /\ ~l.ok)
<1>1. Item(l) \in [t : {"layout"}, n : Sizes, ours : BOOLEAN, ok : BOOLEAN]
  BY DEF Item, Layouts
<1>2. Item(l).t = "layout" /\ Item(l).n = l.n /\ Item(l).ours = l.ours /\ Item(l).ok = l.ok
  BY DEF Item
<1>3. Setter(Item(l)) <=> ~(l.ours /\ ~l.ok)
  BY <1>2 DEF Setter
<1> QED
  BY <1>1, <1>2, <1>3 DEF Stream

\* A layout more to send is a message more at the end of those due.
LEMMA ItemsAre ==
  ASSUME NEW ls \in Seq(Layouts)
  PROVE  /\ Items(ls) \in Seq(Stream) /\ Len(Items(ls)) = Len(ls)
         /\ \A l \in Layouts : Items(Append(ls, l)) = Items(ls) \o <<Item(l)>>
<1>1. PICK m \in Nat : m = Len(ls)
  OBVIOUS
<1>2. \A i \in 1 .. m : ls[i] \in Layouts /\ Item(ls[i]) \in Stream
  BY <1>1, ItemIs
<1>3. Items(ls) = [i \in 1 .. m |-> Item(ls[i])]
  BY <1>1 DEF Items
<1>4. Items(ls) \in Seq(Stream) /\ Len(Items(ls)) = m
  BY <1>2, <1>3
<1>5. ASSUME NEW l \in Layouts PROVE Items(Append(ls, l)) = Items(ls) \o <<Item(l)>>
  <2> DEFINE a == Append(ls, l)  q == Items(ls)  i1 == Item(l)  p == q \o <<i1>>
  <2>1. Len(a) = m + 1 /\ a[m + 1] = l /\ \A i \in 1 .. m : a[i] = ls[i]
    BY <1>1
  <2>2. i1 \in Stream /\ q \in Seq(Stream) /\ Len(q) = m /\ \A i \in 1 .. m : q[i] = Item(ls[i])
    BY <1>3, <1>4, ItemIs
  <2> HIDE DEF a, q
  <2>3. Items(a) = [i \in 1 .. m + 1 |-> Item(a[i])]
    BY <2>1 DEF Items
  <2>4. \A i \in 1 .. m + 1 : Item(a[i]) = IF i <= m THEN Item(ls[i]) ELSE i1
    BY <2>1
  <2> HIDE DEF i1
  <2>5. p \in Seq(Stream) /\ Len(p) = m + 1 /\ (\A i \in 1 .. m : p[i] = Item(ls[i])) /\ p[m + 1] = i1
    BY <2>2
  <2>6. p = [i \in 1 .. m + 1 |-> p[i]]
    BY <2>5
  <2> HIDE DEF p
  <2>7. \A i \in 1 .. m + 1 : Item(a[i]) = p[i]
    BY <2>4, <2>5
  <2>8. Items(a) = p
    BY <2>3, <2>6, <2>7, Zenon
  <2> QED
    BY <2>8 DEF p, a, q, i1
<1> QED
  BY <1>1, <1>4, <1>5

\* A server that has stated one layout more agrees at the size it has then.
LEMMA AgreesOn ==
  ASSUME NEW q \in Seq(Stream), NEW x, NEW s, ServerOK(s), Agrees(q, x, s), NEW l \in Layouts, NEW s1,
         s1.layouts = Append(s.layouts, l), s1.n = IF l.ours /\ ~l.ok THEN s.n ELSE l.n
  PROVE  Agrees(q, x, s1)
<1>1. s.layouts \in Seq(Layouts) /\ s.n \in Sizes
  BY DEF ServerOK, Layouts
<1>2. PICK d \in Sizes : Sized(q, x, d) /\ Sized(Items(s.layouts), d, s.n)
  BY DEF Agrees
<1>3. Items(s1.layouts) = Items(s.layouts) \o <<Item(l)>> /\ Items(s.layouts) \in Seq(Stream)
  BY <1>1, ItemsAre
<1>4. Item(l) \in Stream /\ Item(l).t = "layout" /\ Item(l).n = l.n /\ (Setter(Item(l)) <=> ~(l.ours /\ ~l.ok))
  BY ItemIs
<1>5. <<Item(l)>> \in Seq(Stream) /\ Sized(<<Item(l)>>, s.n, IF Setter(Item(l)) THEN Item(l).n ELSE s.n)
  BY <1>1, <1>4, SizedOne
<1>6. Sized(<<Item(l)>>, s.n, s1.n)
  BY <1>4, <1>5
<1>7. Sized(Items(s.layouts) \o <<Item(l)>>, d, s1.n)
  BY <1>2, <1>3, <1>5, <1>6, SizedJoins
<1> QED
  BY <1>2, <1>3, <1>7 DEF Agrees

\* A fresh connection agrees from the start, with everything owed.
LEMMA FreshIs ==
  ASSUME NEW s, DOMAIN s = ServerFields, s = [f \in ServerFields |-> s[f]], s.n \in Sizes, s.pic \in Pics(s.n)
  PROVE  ServerOK(Fresh(s)) /\ Fresh(s).n = s.n /\ Fresh(s).mod = 1 .. s.n /\ Agrees(<<>>, s.n, Fresh(s))
<1> DEFINE l == [n |-> s.n, ours |-> FALSE, ok |-> TRUE]
           ls == IF s.ext THEN <<l>> ELSE <<>>
           h == [s EXCEPT !.mod = 1 .. s.n, !.request = NoRequest, !.region = 0, !.layouts = ls, !.says = s.can]
<1>1. Fresh(s) = h
  BY DEF Fresh
<1>2. l \in Layouts /\ l.ours = FALSE /\ l.ok = TRUE /\ l.n = s.n
  BY DEF Layouts
<1> HIDE DEF l
<1>3. ls \in Seq(Layouts) /\ (ls = <<>> \/ ls = <<l>>)
  <2>1. <<>> \in Seq(Layouts) /\ <<l>> \in Seq(Layouts)
    BY <1>2
  <2> QED
    BY <2>1
<1> HIDE DEF ls
<1>4. /\ DOMAIN h = ServerFields /\ h = [f \in ServerFields |-> h[f]] /\ h.n = s.n /\ h.pic = s.pic
      /\ h.mod = 1 .. s.n /\ h.layouts = ls
  BY DEF ServerFields
<1> HIDE DEF h
<1>5. ServerOK(h)
  <2>1. h.mod \in SUBSET (1 .. h.n)
    BY <1>4
  <2> QED
    BY <1>3, <1>4, <2>1 DEF ServerOK, Layouts
<1>6. Items(<<>>) = <<>> /\ Items(<<l>>) = <<Item(l)>>
  BY DEF Items
<1>7. Sized(<<>>, s.n, s.n)
  BY SizedOne
<1>8. Sized(<<Item(l)>>, s.n, s.n)
  <2>1. Item(l) \in Stream /\ Item(l).t = "layout" /\ Item(l).n = s.n /\ Setter(Item(l))
    BY <1>2, ItemIs
  <2> QED
    BY <2>1, SizedOne
<1>9. Agrees(<<>>, s.n, h)
  BY <1>3, <1>4, <1>6, <1>7, <1>8 DEF Agrees
<1> QED
  BY <1>1, <1>4, <1>5, <1>9

\* A fresh client is one, with nothing published and nothing to send.
LEMMA FreshClientIs ==
  ASSUME NEW n \in Sizes, NEW u \in 0 .. MaxSize
  PROVE  LET h == FreshClient(n, u)
         IN  Decoder(h) /\ h.send = <<>> /\ h.dirty = <<>> /\ ~h.resized /\ h.n = n
<1> DEFINE h == FreshClient(n, u)
<1>1. /\ DOMAIN h = DecoderFields /\ h = [f \in DecoderFields |-> h[f]] /\ h.send = <<>>
      /\ h.n = n /\ h.fb = Black(n) /\ h.cont = FALSE /\ h.ext = FALSE
      /\ h.wanted = u /\ h.dirty = <<>> /\ h.resized = FALSE /\ h.outstanding = 1
  BY DEF FreshClient, DecoderFields
<1>2. Black(n) \in Pics(n)
  BY BlackIs, SizesAre
<1>3. \A S : <<>> \in Seq(S)
  OBVIOUS
<1> HIDE DEF h
<1>4. h.outstanding \in 0 .. 2 /\ h.cont \in BOOLEAN /\ h.ext \in BOOLEAN /\ h.resized \in BOOLEAN
  <2>1. h.outstanding \in 0 .. 2
    BY ONLY <1>1
  <2>2. h.cont \in BOOLEAN /\ h.ext \in BOOLEAN /\ h.resized \in BOOLEAN
    BY ONLY <1>1, Zenon
  <2> QED
    BY <2>1, <2>2
<1>5. h.dirty \in Seq(SUBSET (1 .. h.n)) /\ h.send \in Seq(Wire)
  BY <1>1, <1>3, Zenon
<1>6. Decoder(h)
  BY <1>1, <1>2, <1>4, <1>5 DEF Decoder
<1> QED
  BY <1>1, <1>6 DEF h

\* The renderer's buffer, of the size the damage is.
LEMMA ConfiguredIs ==
  ASSUME DeskOK, DamageOK(pending)
  PROVE  /\ Configured = [n |-> pending.n, px |-> Configured.px]
         /\ DOMAIN Configured.px = 1 .. pending.n
<1>1. pending.n \in Nat /\ pending.n > 0
  BY SizesAre DEF DamageOK
<1>2. CASE pending.n = desk.n
  <2>1. desk = [n |-> desk.n, px |-> desk.px] /\ DOMAIN desk.px = 1 .. desk.n
    BY <1>1, <1>2 DEF DeskOK
  <2>2. Configured = desk
    BY <1>2 DEF Configured
  <2> QED
    BY <1>2, <2>1, <2>2
<1>3. CASE pending.n # desk.n
  <2>1. Configured = [n |-> pending.n, px |-> Black(pending.n)]
    BY <1>3 DEF Configured
  <2>2. DOMAIN Black(pending.n) = 1 .. pending.n
    BY DEF Black
  <2> QED
    BY <2>1, <2>2
<1> QED
  BY <1>2, <1>3

\* What the worker reads, obeys and publishes.
LEMMA PumpKeeps == ASSUME PictureInv, Pump PROVE PictureInv'
<1>1. PICK n \in 0 .. Len(down) :
        LET done == Told(Fed(client, down, n), cmds) IN
          /\ down' = SubSeq(down, n + 1, Len(down))
          /\ up' = up \o done.send
          /\ pending' = Published(done)
          /\ client' = [done EXCEPT !.send = <<>>, !.dirty = <<>>, !.resized = FALSE]
  BY DEF Pump
<1>2. live /\ live' = live /\ cmds' = <<>> /\ UNCHANGED <<server, desk, window, used>>
  BY DEF Pump
<1>3. /\ ServerOK(server) /\ down \in Seq(Stream) /\ up \in Seq(Wire) /\ cmds \in Seq(Orders)
      /\ ClientOK /\ PendingOK /\ DeskOK /\ UsedOK /\ WindowOK
      /\ Agrees(down, client.n, server)
      /\ \A t \in 1 .. client.n : InStep(t) \/ Owed(down, server, t)
  BY <1>2 DEF PictureInv
<1> DEFINE h == Fed(client, down, n)  done == Told(h, cmds)
<1>4. PICK d \in Sizes : Sized(down, client.n, d) /\ Sized(Items(server.layouts), d, server.n)
  BY <1>3 DEF Agrees
<1>5. PICK sz \in [0 .. Len(down) -> Sizes] : sz[0] = client.n /\ sz[Len(down)] = d /\ Goes(down, sz)
  BY <1>4 DEF Sized
<1>6. Decoder(client) /\ client.send = <<>> /\ client.dirty = <<>> /\ ~client.resized
  BY <1>3 DEF ClientOK
<1>7. Decoder(h) /\ h.n = sz[n] /\ Ran(client, down, n, h)
  BY <1>3, <1>5, <1>6, FedRuns
<1>8. Decoder(done) /\ SamePicture(h, done)
  <2>1. Len(cmds) \in Nat /\ \A j \in 1 .. Len(cmds) : cmds[j] \in Orders
    BY <1>3
  <2>2. \A j \in 1 .. Len(cmds) : Command(cmds[j])
    BY <2>1 DEF Orders, Command
  <2> HIDE DEF h
  <2> QED
    BY <1>7, <2>1, <2>2, ToldKeeps
<1>9. /\ down' = SubSeq(down, n + 1, Len(down)) /\ up' = up \o done.send
      /\ pending' = Published(done)
      /\ client' = [done EXCEPT !.send = <<>>, !.dirty = <<>>, !.resized = FALSE]
  BY <1>1
<1> HIDE DEF done, h
<1>10. done.n = sz[n] /\ Ran(client, down, n, done)
  <2>1. done.n = h.n /\ done.fb = h.fb /\ done.dirty = h.dirty /\ done.resized = h.resized
    BY <1>8 DEF SamePicture
  <2>2. \A t : Damaged(done, t) <=> Damaged(h, t)
    BY <2>1 DEF Damaged
  <2> QED
    BY <1>7, <2>1, <2>2 DEF Ran
<1>11. ClientOK' /\ client'.n = done.n /\ client'.fb = done.fb
  <2> DEFINE k == [done EXCEPT !.send = <<>>, !.dirty = <<>>, !.resized = FALSE]
  <2>1. /\ DOMAIN k = DecoderFields /\ k = [f \in DecoderFields |-> k[f]] /\ k.send = <<>>
        /\ k.n = done.n /\ k.fb = done.fb /\ k.cont = done.cont /\ k.ext = done.ext
        /\ k.wanted = done.wanted /\ k.dirty = <<>> /\ k.resized = FALSE
        /\ k.outstanding = done.outstanding
    BY <1>8 DEF Decoder, DecoderFields
  <2> HIDE DEF k
  <2>2. \A S : <<>> \in Seq(S)
    OBVIOUS
  <2>3. k.dirty \in Seq(SUBSET (1 .. k.n)) /\ k.send \in Seq(Wire)
    BY <2>1, <2>2, Zenon
  <2>4. k.resized \in BOOLEAN
    BY ONLY <2>1, Zenon
  <2>5. Decoder(k)
    BY <1>8, <2>1, <2>3, <2>4 DEF Decoder
  <2>6. client' = k
    BY <1>9 DEF k
  <2> QED
    BY <2>1, <2>5, <2>6 DEF ClientOK
<1>12. /\ DamageOK(pending) /\ pending.n = client.n /\ Pixels(pending.rects) <= pending.n
  BY <1>3 DEF PendingOK
<1>13. ~done.resized => pending.n = done.n
  BY <1>10, <1>12 DEF Ran
<1>14. done.resized => \A t \in 1 .. done.n : Damaged(done, t)
  BY <1>10 DEF Ran
<1>15. /\ DamageOK(pending') /\ pending'.n = done.n /\ Pixels(pending'.rects) <= pending'.n
       /\ \A px, t : DOMAIN px = 1 .. done.n /\ t \in 1 .. done.n =>
            LET v == Painted(px, pending'.rects)[t]
            IN  \/ v = done.fb[t]
                \/ ~Damaged(done, t) /\ (~done.resized => v = Painted(px, pending.rects)[t])
  <2> DEFINE p == Published(done)
  <2>1. /\ DamageOK(p) /\ p.n = done.n /\ Pixels(p.rects) <= p.n
        /\ \A px, t : DOMAIN px = 1 .. done.n /\ t \in 1 .. done.n =>
             LET v == Painted(px, p.rects)[t]
             IN  \/ v = done.fb[t]
                 \/ ~Damaged(done, t) /\ (~done.resized => v = Painted(px, pending.rects)[t])
    BY ONLY <1>8, <1>12, <1>13, <1>14, PublishedIs
  <2>2. pending' = p
    BY <1>9
  <2> HIDE DEF p
  <2> QED
    BY <2>1, <2>2
<1>16. PendingOK'
  BY <1>11, <1>15 DEF PendingOK
<1>17. /\ down' \in Seq(Stream) /\ Sized(down', sz[n], d)
       /\ \A j \in n + 1 .. Len(down) : \E l \in 1 .. Len(down') : down'[l] = down[j]
  BY <1>3, <1>5, <1>9, SizedRest
<1>18. Agrees(down', client'.n, server')
  BY <1>2, <1>4, <1>10, <1>11, <1>17 DEF Agrees
<1>19. up' \in Seq(Wire)
  <2>1. done.send \in Seq(Wire)
    BY <1>8 DEF Decoder
  <2> QED
    BY <1>3, <1>9, <2>1
<1>20. ASSUME NEW t \in 1 .. client'.n PROVE InStep(t)' \/ Owed(down', server', t)
  <2> DEFINE px == Configured.px
  <2>1. DeskOK'
    BY <1>2, <1>3 DEF DeskOK
  <2>2. DOMAIN Configured'.px = 1 .. pending'.n
    <3>1. DeskOK' /\ DamageOK(pending')
      BY <1>15, <2>1
    <3>2. pending'.n \in Nat /\ pending'.n > 0
      BY <1>15, SizesAre DEF DamageOK
    <3>3. CASE pending'.n = desk'.n
      <4>1. Configured' = desk'
        BY <3>3 DEF Configured
      <4> QED
        BY <2>1, <3>2, <3>3, <4>1 DEF DeskOK
    <3>4. CASE pending'.n # desk'.n
      <4>1. Configured' = [n |-> pending'.n, px |-> Black(pending'.n)]
        BY <3>4 DEF Configured
      <4> QED
        BY <4>1 DEF Black
    <3> QED
      BY <3>3, <3>4
  <2>3. t \in 1 .. done.n
    BY <1>11
  <2> DEFINE v == Painted(Configured'.px, pending'.rects)[t]
  <2>4. \/ v = done.fb[t]
        \/ ~Damaged(done, t) /\ (~done.resized => v = Painted(Configured'.px, pending.rects)[t])
    <3>1. DOMAIN Configured'.px = 1 .. done.n
      BY <1>15, <2>2
    <3> QED
      BY <1>15, <2>3, <3>1
  <2>5. InStep(t)' <=> v = done.fb[t]
    BY <1>11 DEF InStep
  <2> HIDE DEF v
  <2>6. CASE v # done.fb[t]
    <3>1. ~Damaged(done, t)
      BY <2>4, <2>6
    <3>2. ~done.resized
      BY <1>14, <2>3, <3>1
    <3>3. Configured' = Configured
      BY <1>2, <1>13, <1>15, <3>2 DEF Configured
    <3>4. v = Painted(Configured.px, pending.rects)[t]
      BY <2>4, <2>6, <3>2, <3>3
    <3>5. done.fb[t] = client.fb[t] /\ done.n = client.n
      BY <1>10, <2>3, <3>1, <3>2 DEF Ran
    <3>6. ~InStep(t)
      BY <2>6, <3>4, <3>5 DEF InStep
    <3>7. Owed(down, server, t)
      BY <1>3, <2>3, <3>5, <3>6
    <3>8. CASE t > server.n \/ t \in server.mod
      BY <1>2, <3>8 DEF Owed
    <3>9. CASE \E j \in 1 .. Len(down) : down[j].t = "rect" /\ t \in down[j].at
      <4>1. PICK j \in 1 .. Len(down) : down[j].t = "rect" /\ t \in down[j].at
        BY <3>9
      <4>2. ~(j \in 1 .. n)
        BY <1>10, <3>1, <3>2, <4>1 DEF Ran
      <4>3. j \in n + 1 .. Len(down)
        BY <4>2
      <4>4. PICK l \in 1 .. Len(down') : down'[l] = down[j]
        BY <1>17, <4>3
      <4> QED
        BY <4>1, <4>4 DEF Owed
    <3> QED
      BY <3>7, <3>8, <3>9 DEF Owed
  <2> QED
    BY <2>5, <2>6
<1>21. cmds' \in Seq(Orders) /\ DeskOK' /\ UsedOK' /\ WindowOK' /\ ServerOK(server')
  <2>1. <<>> \in Seq(Orders)
    OBVIOUS
  <2> QED
    BY <1>2, <1>3, <2>1 DEF DeskOK, UsedOK, WindowOK
<1> QED
  BY <1>11, <1>16, <1>17, <1>18, <1>19, <1>20, <1>21 DEF PictureInv

\* A server that has marked its whole picture owes every tile of it.
LEMMA AllOwed ==
  ASSUME NEW n \in Sizes, NEW q, NEW s, s.mod = 1 .. s.n, s.n \in Sizes
  PROVE  \A t \in 1 .. n : Owed(q, s, t)
<1> TAKE t \in 1 .. n
<1>1. t > s.n \/ t \in 1 .. s.n
  BY SizesAre
<1> QED
  BY <1>1 DEF Owed

\* Nothing is damaged of a fresh picture.
LEMMA NoDamageIs == ASSUME NEW n \in Sizes
  PROVE LET p == NoDamage(n) IN DamageOK(p) /\ p.n = n /\ p.rects = <<>> /\ Pixels(p.rects) <= p.n
<1>1. NoDamage(n) = [n |-> n, full |-> FALSE, rects |-> <<>>]
  BY DEF NoDamage
<1>2. \A S : <<>> \in Seq(S)
  OBVIOUS
<1>3. DamageOK(NoDamage(n)) /\ NoDamage(n).n = n /\ NoDamage(n).rects = <<>>
  BY <1>1, <1>2 DEF DamageOK
<1>4. Pixels(<<>>) \in Nat /\ Pixels(<<>>) = 0
  <2> DEFINE IsSum(f) == f = [i \in 0 .. 0 |-> IF i = 0 THEN 0 ELSE f[i - 1] + Cardinality(<<>>[i].at)]
             g == [i \in 0 .. 0 |-> 0]
  <2>1. Pixels(<<>>) = (CHOOSE f : IsSum(f))[0]
    <3>1. Len(<<>>) = 0
      OBVIOUS
    <3> QED
      BY <3>1 DEF Pixels
  <2>2. IsSum(g)
    OBVIOUS
  <2>3. PICK f : IsSum(f) /\ f = CHOOSE h : IsSum(h)
    <3> HIDE DEF IsSum, g
    <3> QED
      BY <2>2
  <2>4. f[0] = 0
    BY <2>3
  <2> HIDE DEF IsSum
  <2> QED
    BY <2>1, <2>3, <2>4
<1> QED
  BY <1>3, <1>4, SizesAre

\* A fresh connection: nothing is published, and everything is owed.
LEMMA PictureStarts == ASSUME PictureInit PROVE PictureInv
<1>1. PICK can \in BOOLEAN, ext \in BOOLEAN : \E takes \in {FALSE, ext} :
        server = Fresh([n |-> 1, pic |-> Black(1), mod |-> {}, request |-> NoRequest, region |-> 0,
                        layouts |-> <<>>, can |-> can, ext |-> ext, takes |-> takes, says |-> FALSE])
  BY DEF PictureInit
<1>2. PICK takes : server = Fresh([n |-> 1, pic |-> Black(1), mod |-> {}, request |-> NoRequest, region |-> 0,
                        layouts |-> <<>>, can |-> can, ext |-> ext, takes |-> takes, says |-> FALSE])
  BY <1>1
<1>3. /\ down = <<>> /\ up = FirstRequest(1) /\ client = FreshClient(1, 0)
      /\ cmds = <<>> /\ pending = NoDamage(1) /\ desk = [n |-> 0, px |-> <<>>]
      /\ window = [n |-> 1, due |-> "no"] /\ live = TRUE
      /\ used = [changes |-> 0, troubles |-> 0]
  BY DEF PictureInit
<1> DEFINE s == [n |-> 1, pic |-> Black(1), mod |-> {}, request |-> NoRequest, region |-> 0,
                        layouts |-> <<>>, can |-> can, ext |-> ext, takes |-> takes, says |-> FALSE]
<1>4. DOMAIN s = ServerFields /\ s = [f \in ServerFields |-> s[f]] /\ s.n = 1 /\ s.pic = Black(1)
  BY DEF ServerFields
<1>5. 1 \in Sizes /\ Black(1) \in Pics(1) /\ 0 \in 0 .. MaxSize
  BY SizesAre, BlackIs
<1>6. server = Fresh(s)
  BY <1>2
<1> HIDE DEF s
<1>7. ServerOK(server) /\ server.n = 1 /\ server.mod = 1 .. server.n /\ Agrees(<<>>, 1, server)
  BY <1>4, <1>5, <1>6, FreshIs
<1>8. ClientOK /\ client.n = 1
  BY <1>3, <1>5, FreshClientIs DEF ClientOK
<1>9. PendingOK
  BY <1>3, <1>5, <1>8, NoDamageIs DEF PendingOK
<1>10. DeskOK /\ UsedOK /\ WindowOK
  BY <1>3, <1>5 DEF DeskOK, UsedOK, WindowOK
<1>11. down \in Seq(Stream) /\ cmds \in Seq(Orders)
  BY <1>3
<1>12. up \in Seq(Wire)
  <2>1. [t |-> "request", inc |-> FALSE, n |-> 1] \in Wire
    BY <1>5 DEF Wire
  <2> QED
    BY <1>3, <2>1 DEF FirstRequest
<1>13. \A t \in 1 .. client.n : Owed(down, server, t)
  BY <1>5, <1>7, <1>8, AllOwed
<1> QED
  BY <1>3, <1>7, <1>8, <1>9, <1>10, <1>11, <1>12, <1>13 DEF PictureInv

\* A connection that drops takes what was on its way with it.
LEMMA DropsKeeps == ASSUME PictureInv, Drops PROVE PictureInv'
<1>1. /\ live' = FALSE /\ down' = <<>> /\ up' = <<>> /\ used' = [used EXCEPT !.troubles = @ + 1]
      /\ UNCHANGED <<server, client, cmds, pending, desk, window>>
  BY DEF Drops, Trouble
<1>2. /\ ServerOK(server) /\ cmds \in Seq(Orders)
      /\ ClientOK /\ PendingOK /\ DeskOK /\ UsedOK /\ WindowOK
  BY DEF PictureInv
<1>3. down' \in Seq(Stream) /\ up' \in Seq(Wire)
  BY <1>1
<1>4. ClientOK' /\ PendingOK' /\ DeskOK' /\ WindowOK'
  BY <1>1, <1>2 DEF ClientOK, PendingOK, DeskOK, WindowOK
<1>5. UsedOK'
  BY <1>1, <1>2 DEF UsedOK
<1> QED
  BY <1>1, <1>2, <1>3, <1>4, <1>5 DEF PictureInv

\* The size that survives a lost connection is one.
LEMMA LastSizeIs == ASSUME cmds \in Seq(Orders) PROVE LastSize \in 0 .. MaxSize
<1>1. CASE ~\E i \in 1 .. Len(cmds) : IsSize(i)
  <2>1. 0 \in 0 .. MaxSize
    BY SizesAre
  <2> QED
    BY <1>1, <2>1 DEF LastSize
<1>2. CASE \E i \in 1 .. Len(cmds) : IsSize(i)
  <2> DEFINE T == {i \in 1 .. Len(cmds) : IsSize(i)}
             P(i) == IsSize(i) /\ \A j \in i + 1 .. Len(cmds) : ~IsSize(j)
             l == CHOOSE i \in 1 .. Len(cmds) : P(i)
  <2>1. T \subseteq 1 .. Len(cmds) /\ T # {} /\ Len(cmds) \in Nat
    BY <1>2
  <2>2. PICK m \in T : \A k \in T : k <= m
    <3> HIDE DEF T
    <3> QED
      BY <2>1, Greatest
  <2>3. m \in 1 .. Len(cmds) /\ IsSize(m)
    BY <2>2
  <2>4. ASSUME NEW j \in m + 1 .. Len(cmds) PROVE ~IsSize(j)
    <3>1. j \in 1 .. Len(cmds) /\ ~(j <= m)
      BY <2>3
    <3> QED
      BY <2>2, <3>1
  <2>5. P(m)
    BY <2>3, <2>4
  <2>6. LastSize = cmds[l].n
    BY <1>2 DEF LastSize
  <2> HIDE DEF P
  <2>7. l \in 1 .. Len(cmds) /\ P(l)
    BY <2>3, <2>5, Zenon
  <2>8. IsSize(l)
    BY <2>7 DEF P
  <2> HIDE DEF l
  <2>9. cmds[l].n \in Sizes
    BY <2>7, <2>8 DEF IsSize, Orders
  <2> QED
    BY <2>6, <2>9 DEF Sizes
<1> QED
  BY <1>1, <1>2

\* A connection that comes back starts anew.
LEMMA ConnectKeeps == ASSUME PictureInv, Connect PROVE PictureInv'
<1>1. /\ live' = TRUE /\ server' = Fresh(server) /\ up' = FirstRequest(server.n) /\ down' = <<>>
      /\ client' = FreshClient(server.n, LastSize) /\ cmds' = <<>> /\ pending' = NoDamage(server.n)
      /\ window' = [window EXCEPT !.due = "connected"] /\ UNCHANGED <<desk, used>>
  BY DEF Connect, Dropped
<1>2. /\ ServerOK(server) /\ cmds \in Seq(Orders) /\ DeskOK /\ UsedOK /\ WindowOK
  BY DEF PictureInv
<1>3. server.n \in Sizes /\ LastSize \in 0 .. MaxSize
  BY <1>2, LastSizeIs DEF ServerOK
<1>4. ServerOK(server') /\ server'.n = server.n /\ server'.mod = 1 .. server.n
      /\ Agrees(<<>>, server.n, server')
  BY <1>1, <1>2, FreshIs DEF ServerOK
<1>5. ClientOK' /\ client'.n = server.n
  BY <1>1, <1>3, FreshClientIs DEF ClientOK
<1>6. PendingOK'
  BY <1>1, <1>3, <1>5, NoDamageIs DEF PendingOK
<1>7. DeskOK' /\ UsedOK' /\ WindowOK'
  BY <1>1, <1>2 DEF DeskOK, UsedOK, WindowOK
<1>8. down' \in Seq(Stream) /\ cmds' \in Seq(Orders)
  BY <1>1
<1>9. up' \in Seq(Wire)
  <2>1. [t |-> "request", inc |-> FALSE, n |-> server.n] \in Wire
    BY <1>3 DEF Wire
  <2> QED
    BY <1>1, <2>1 DEF FirstRequest
<1>10. \A t \in 1 .. client'.n : Owed(down', server', t)
  BY <1>3, <1>4, <1>5, AllOwed
<1> QED
  BY <1>1, <1>4, <1>5, <1>6, <1>7, <1>8, <1>9, <1>10 DEF PictureInv

\* The renderer shows what it takes.
LEMMA RenderKeeps == ASSUME PictureInv, RenderVncPasses PROVE PictureInv'
<1>1. /\ desk' = [Configured EXCEPT !.px = Painted(@, pending.rects)]
      /\ pending' = NoDamage(pending.n)
      /\ cmds' = (IF Partial THEN Append(cmds, Refresh) ELSE cmds)
      /\ UNCHANGED <<server, down, up, client, window, live, used>>
  BY DEF RenderVncPasses
<1>2. /\ ServerOK(server) /\ down \in Seq(Stream) /\ up \in Seq(Wire) /\ cmds \in Seq(Orders)
      /\ ClientOK /\ PendingOK /\ DeskOK /\ UsedOK /\ WindowOK
      /\ live => Agrees(down, client.n, server)
      /\ live => \A t \in 1 .. client.n : InStep(t) \/ Owed(down, server, t)
  BY DEF PictureInv
<1>3. DamageOK(pending) /\ pending.n = client.n /\ pending.n \in Sizes
  BY <1>2 DEF PendingOK, DamageOK
<1>4. PICK n, px : n = pending.n /\ px = Configured.px /\ Configured = [n |-> n, px |-> px] /\ DOMAIN px = 1 .. n
  BY <1>2, <1>3, ConfiguredIs
<1> DEFINE new == Painted(px, pending.rects)
<1>5. desk' = [n |-> n, px |-> new]
  <2>1. desk' = [[n |-> n, px |-> px] EXCEPT !.px = Painted(@, pending.rects)]
    BY <1>1, <1>4
  <2> QED
    BY ONLY <2>1
<1>6. DOMAIN new = 1 .. n
  BY <1>4 DEF Painted
<1> HIDE DEF new
<1>7. DeskOK'
  <2>1. n \in 0 .. MaxSize
    BY <1>3, <1>4 DEF Sizes
  <2> QED
    BY <1>5, <1>6, <2>1 DEF DeskOK
<1>8. DamageOK(pending') /\ pending'.n = n /\ pending'.rects = <<>> /\ Pixels(pending'.rects) <= pending'.n
  BY <1>1, <1>3, <1>4, NoDamageIs
<1>9. PendingOK'
  BY <1>1, <1>3, <1>4, <1>8 DEF PendingOK
<1>10. Configured'.px = new
  <2>1. Configured' = desk'
    BY <1>5, <1>8 DEF Configured
  <2> QED
    BY <1>5, <2>1
<1>11. ASSUME NEW t \in 1 .. client.n PROVE InStep(t)' <=> InStep(t)
  <2>1. t \in DOMAIN new
    BY <1>3, <1>4, <1>6
  <2>2. Painted(new, <<>>)[t] = new[t]
    <3>1. Len(<<>>) = 0
      OBVIOUS
    <3>2. Over(new, <<>>, t, Painted(new, <<>>)[t])
      BY <2>1, <3>1, PaintedIs
    <3> QED
      BY <3>1, <3>2 DEF Over
  <2>3. new[t] = Painted(Configured.px, pending.rects)[t]
    BY <1>4 DEF new
  <2>4. Painted(Configured'.px, pending'.rects)[t] = Painted(Configured.px, pending.rects)[t]
    BY <1>8, <1>10, <2>2, <2>3
  <2> QED
    BY <1>1, <2>4 DEF InStep
<1>12. cmds' \in Seq(Orders)
  <2>1. Refresh \in Orders
    BY DEF Refresh, Orders
  <2> QED
    BY <1>1, <1>2, <2>1
<1>13. ClientOK' /\ UsedOK' /\ WindowOK'
  BY <1>1, <1>2 DEF ClientOK, UsedOK, WindowOK
<1>14. live' => \A t \in 1 .. client'.n : InStep(t)' \/ Owed(down', server', t)
  BY <1>1, <1>2, <1>11
<1> QED
  BY <1>1, <1>2, <1>7, <1>9, <1>12, <1>13, <1>14 DEF PictureInv

\* So do the actions that touch none of it.
LEMMA WindowKeeps ==
  ASSUME PictureInv, UNCHANGED <<server, down, up, client, pending, desk, live>>,
         WindowOK', UsedOK', cmds' \in Seq(Orders)
  PROVE  PictureInv'
<1>1. /\ ServerOK(server) /\ down \in Seq(Stream) /\ up \in Seq(Wire) /\ cmds \in Seq(Orders)
      /\ ClientOK /\ PendingOK /\ DeskOK
      /\ live => Agrees(down, client.n, server)
      /\ live => \A t \in 1 .. client.n : InStep(t) \/ Owed(down, server, t)
  BY DEF PictureInv
<1>2. ClientOK' /\ PendingOK' /\ DeskOK'
  BY <1>1 DEF ClientOK, PendingOK, DeskOK
<1>3. \A t : InStep(t)' <=> InStep(t)
  BY DEF InStep, Configured
<1> QED
  BY <1>1, <1>2, <1>3 DEF PictureInv

\* The window takes another size: nothing of the picture moves.
LEMMA WindowChangesKeeps == ASSUME PictureInv, WindowChanges PROVE PictureInv'
<1>1. UsedOK /\ WindowOK /\ cmds \in Seq(Orders)
  BY DEF PictureInv
<1>2. PICK n \in Sizes : window' = [n |-> n, due |-> IF window.due = "connected" THEN window.due ELSE "pause"]
  BY DEF WindowChanges
<1>3. used' = [used EXCEPT !.troubles = @ + 1] /\ UNCHANGED <<server, down, up, client, cmds, pending, desk, live>>
  BY DEF WindowChanges, Trouble
<1>4. WindowOK'
  BY <1>2 DEF WindowOK
<1>5. UsedOK'
  BY <1>1, <1>3 DEF UsedOK
<1> QED
  BY <1>1, <1>3, <1>4, <1>5, WindowKeeps

\* The window asks for its size: an order more for the worker, and no more.
LEMMA FitWindowKeeps == ASSUME PictureInv, FitWindow PROVE PictureInv'
<1>1. UsedOK /\ WindowOK /\ cmds \in Seq(Orders)
  BY DEF PictureInv
<1>2. /\ window' = [window EXCEPT !.due = "no"]
      /\ \/ cmds' = cmds
         \/ cmds' = Append(Sizeless, [kind |-> "size", n |-> window.n])
      /\ UNCHANGED <<server, down, up, client, pending, desk, live, used>>
  BY DEF FitWindow
<1>3. WindowOK'
  BY <1>1, <1>2 DEF WindowOK
<1>4. UsedOK'
  BY <1>1, <1>2 DEF UsedOK
<1>5. cmds' \in Seq(Orders)
  <2> DEFINE T == {j \in 1 .. Len(cmds) : ~IsSize(j)}  m == [kind |-> "size", n |-> window.n]
  <2>1. IsFiniteSet(1 .. Len(cmds)) /\ T \in SUBSET (1 .. Len(cmds))
    <3>1. Len(cmds) \in Nat
      BY <1>1
    <3>2. \A n \in Nat : IsFiniteSet(1 .. n)
      <4> TAKE n \in Nat
      <4> QED
        BY FS_Interval
    <3> QED
      BY <3>1, <3>2
  <2>2. Sizeless = [i \in 1 .. Cardinality(T) |-> Refresh]
    BY DEF Sizeless
  <2> HIDE DEF T
  <2>3. Cardinality(T) \in Nat
    BY <2>1, FS_Subset, FS_CardinalityType
  <2>4. Refresh \in Orders /\ m \in Orders
    BY <1>1 DEF Refresh, Orders, WindowOK
  <2> HIDE DEF m
  <2>5. Sizeless \in Seq(Orders)
    BY <2>2, <2>3, <2>4
  <2>6. Append(Sizeless, m) \in Seq(Orders)
    BY <2>4, <2>5
  <2> QED
    BY <1>1, <1>2, <2>6 DEF m
<1> QED
  BY <1>2, <1>3, <1>4, <1>5, WindowKeeps

\* And what the server does, as long as it stays agreed and owes no less.
LEMMA ServerKeeps ==
  ASSUME PictureInv, UNCHANGED <<client, cmds, pending, desk, window, live>>,
         ServerOK(server'), UsedOK', down' \in Seq(Stream), up' \in Seq(Wire),
         live => Agrees(down', client.n, server'),
         live => \A t \in 1 .. client.n : Owed(down, server, t) => Owed(down', server', t)
  PROVE  PictureInv'
<1>1. /\ cmds \in Seq(Orders) /\ ClientOK /\ PendingOK /\ DeskOK /\ WindowOK
      /\ live => \A t \in 1 .. client.n : InStep(t) \/ Owed(down, server, t)
  BY DEF PictureInv
<1>2. ClientOK' /\ PendingOK' /\ DeskOK' /\ WindowOK'
  BY <1>1 DEF ClientOK, PendingOK, DeskOK, WindowOK
<1>3. \A t : InStep(t)' <=> InStep(t)
  BY DEF InStep, Configured
<1> QED
  BY <1>1, <1>2, <1>3 DEF PictureInv

\* What is drawn is owed.
LEMMA DrawKeeps == ASSUME PictureInv, Draw PROVE PictureInv'
<1>1. PICK t \in 1 .. server.n :
        server' = [server EXCEPT !.pic[t] = used.changes + 1, !.mod = @ \cup {t}]
  BY DEF Draw
<1>2. /\ used' = [used EXCEPT !.changes = @ + 1]
      /\ UNCHANGED <<down, up, client, cmds, pending, desk, window, live>>
  BY DEF Draw
<1>3. /\ ServerOK(server) /\ down \in Seq(Stream) /\ up \in Seq(Wire) /\ UsedOK
      /\ live => Agrees(down, client.n, server)
  BY DEF PictureInv
<1> DEFINE s == [server EXCEPT !.pic[t] = used.changes + 1, !.mod = @ \cup {t}]
<1>4. /\ DOMAIN s = ServerFields /\ s = [f \in ServerFields |-> s[f]] /\ s.n = server.n
      /\ s.pic = [server.pic EXCEPT ![t] = used.changes + 1]
      /\ s.mod = server.mod \cup {t} /\ s.layouts = server.layouts
  BY <1>3 DEF ServerOK, ServerFields
<1>5. server' = s
  BY <1>1
<1> HIDE DEF s
<1>6. s.pic \in Pics(s.n)
  <2>1. used.changes + 1 \in Nat
    BY <1>3 DEF UsedOK
  <2> QED
    BY <1>3, <1>4, <2>1 DEF ServerOK, Pics
<1>7. ServerOK(s)
  BY <1>3, <1>4, <1>6 DEF ServerOK
<1>8. UsedOK'
  BY <1>2, <1>3 DEF UsedOK
<1>9. live => Agrees(down', client.n, s)
  BY <1>2, <1>3, <1>4 DEF Agrees
<1>10. \A x : Owed(down, server, x) => Owed(down', s, x)
  BY <1>2, <1>4 DEF Owed
<1> QED
  BY <1>2, <1>3, <1>5, <1>7, <1>8, <1>9, <1>10, ServerKeeps

\* A new size of the server's is stated, and its whole picture owed.
LEMMA SizedToIs ==
  ASSUME NEW s, ServerOK(s), NEW n \in Sizes, NEW ours \in BOOLEAN
  PROVE  LET h == SizedTo(s, n, ours)
         IN  /\ ServerOK(h) /\ h.mod = 1 .. h.n
             /\ \A q \in Seq(Stream) : \A x : Agrees(q, x, s) => Agrees(q, x, h)
<1> DEFINE l == [n |-> n, ours |-> ours, ok |-> TRUE]
           p == [t \in 1 .. n |-> IF t \in DOMAIN s.pic THEN s.pic[t] ELSE 0]
           h == [s EXCEPT !.n = n, !.pic = p, !.mod = 1 .. n, !.layouts = Append(@, l)]
<1>1. SizedTo(s, n, ours) = h
  BY DEF SizedTo
<1>2. l \in Layouts /\ l.n = n /\ ~(l.ours /\ ~l.ok)
  BY DEF Layouts
<1>3. p \in Pics(n)
  BY DEF ServerOK, Pics
<1> HIDE DEF l, p
<1>4. /\ DOMAIN h = ServerFields /\ h = [f \in ServerFields |-> h[f]] /\ h.n = n /\ h.pic = p
      /\ h.mod = 1 .. n /\ h.layouts = Append(s.layouts, l)
  BY DEF ServerOK, ServerFields
<1> HIDE DEF h
<1>5. Append(s.layouts, l) \in Seq(Layouts)
  BY <1>2 DEF ServerOK, Layouts
<1>6. ServerOK(h)
  <2>1. h.mod \in SUBSET (1 .. h.n)
    BY <1>4
  <2> QED
    BY <1>3, <1>4, <1>5, <2>1 DEF ServerOK, Layouts
<1>7. ASSUME NEW q \in Seq(Stream), NEW x, Agrees(q, x, s) PROVE Agrees(q, x, h)
  BY <1>2, <1>4, <1>7, AgreesOn
<1> QED
  BY <1>1, <1>4, <1>6, <1>7

\* On its own accord.
LEMMA ResizesKeeps == ASSUME PictureInv, ResizesItself PROVE PictureInv'
<1>1. PICK n \in Sizes : server' = SizedTo(server, n, FALSE)
  BY DEF ResizesItself
<1>2. /\ used' = [used EXCEPT !.troubles = @ + 1]
      /\ UNCHANGED <<down, up, client, cmds, pending, desk, window, live>>
  BY DEF ResizesItself, Trouble
<1>3. /\ ServerOK(server) /\ down \in Seq(Stream) /\ up \in Seq(Wire) /\ UsedOK /\ ClientOK
      /\ live => Agrees(down, client.n, server)
  BY DEF PictureInv
<1>4. ServerOK(server') /\ server'.mod = 1 .. server'.n
      /\ \A q \in Seq(Stream) : \A x : Agrees(q, x, server) => Agrees(q, x, server')
  BY <1>1, <1>3, SizedToIs
<1>5. live => Agrees(down', client.n, server')
  BY <1>2, <1>3, <1>4
<1>6. UsedOK'
  BY <1>2, <1>3 DEF UsedOK
<1>7. client.n \in Sizes /\ server'.n \in Sizes
  BY <1>3, <1>4 DEF ClientOK, Decoder, ServerOK
<1>8. \A t \in 1 .. client.n : Owed(down', server', t)
  BY <1>4, <1>7, AllOwed
<1> QED
  BY <1>2, <1>3, <1>4, <1>5, <1>6, <1>8, ServerKeeps

\* As asked, or refused; and what is asked for adds to what is owed.
LEMMA ReceiveKeeps == ASSUME PictureInv, Receive PROVE PictureInv'
<1> DEFINE m == Head(up)
           refused == [n |-> server.n, ours |-> TRUE, ok |-> FALSE]
<1>1. /\ up # <<>> /\ up' = Tail(up)
      /\ \/ m.t = "request" /\ server' = Requested(server, m)
         \/ m.t = "continuous" /\ server' = [server EXCEPT !.region = m.n]
         \/ m.t = "size" /\ server' = SizedTo(server, m.n, TRUE)
         \/ m.t = "size" /\ server' = [server EXCEPT !.layouts = Append(@, refused)]
      /\ UNCHANGED <<down, client, cmds, pending, desk, window, live, used>>
  BY DEF Receive
<1>2. /\ ServerOK(server) /\ down \in Seq(Stream) /\ up \in Seq(Wire) /\ UsedOK /\ ClientOK
      /\ live => Agrees(down, client.n, server)
  BY DEF PictureInv
<1>3. up' \in Seq(Wire) /\ m \in Wire
  BY <1>1, <1>2
<1>4. m.n \in Sizes /\ (m.t = "request" => m.inc \in BOOLEAN)
  BY <1>3 DEF Wire
<1> HIDE DEF m
<1>5. UsedOK'
  BY <1>1, <1>2 DEF UsedOK
<1>6. client.n \in Sizes /\ server.n \in Sizes
  BY <1>2 DEF ClientOK, Decoder, ServerOK
<1>7. CASE m.t = "request" /\ server' = Requested(server, m)
  <2> DEFINE r == [kind |-> "asked", n |-> IF m.n > server.request.n THEN m.n ELSE server.request.n]
             o == IF m.inc THEN server.mod ELSE server.mod \cup ((1 .. m.n) \cap (1 .. server.n))
             s == [server EXCEPT !.request = r, !.mod = o]
  <2>1. Requested(server, m) = s
    BY DEF Requested
  <2>2. server.mod \subseteq o /\ o \in SUBSET (1 .. server.n)
    BY <1>2 DEF ServerOK
  <2> HIDE DEF r, o
  <2>3. /\ DOMAIN s = ServerFields /\ s = [f \in ServerFields |-> s[f]] /\ s.n = server.n
        /\ s.pic = server.pic /\ s.mod = o /\ s.layouts = server.layouts
    BY <1>2 DEF ServerOK, ServerFields
  <2> HIDE DEF s
  <2>4. ServerOK(s)
    BY <1>2, <2>2, <2>3 DEF ServerOK
  <2>5. live => Agrees(down', client.n, s)
    BY <1>1, <1>2, <2>3 DEF Agrees
  <2>6. \A x : Owed(down, server, x) => Owed(down', s, x)
    BY <1>1, <2>2, <2>3 DEF Owed
  <2>7. server' = s
    BY <1>7, <2>1
  <2> QED
    BY <1>1, <1>2, <1>3, <1>5, <2>4, <2>5, <2>6, <2>7, ServerKeeps
<1>8. CASE m.t = "continuous" /\ server' = [server EXCEPT !.region = m.n]
  <2> DEFINE s == [server EXCEPT !.region = m.n]
  <2>1. /\ DOMAIN s = ServerFields /\ s = [f \in ServerFields |-> s[f]] /\ s.n = server.n
        /\ s.pic = server.pic /\ s.mod = server.mod /\ s.layouts = server.layouts
    BY <1>2 DEF ServerOK, ServerFields
  <2>2. server' = s
    BY <1>8
  <2> HIDE DEF s
  <2>3. ServerOK(s)
    BY <1>2, <2>1 DEF ServerOK
  <2>4. live => Agrees(down', client.n, s)
    BY <1>1, <1>2, <2>1 DEF Agrees
  <2>5. \A x : Owed(down, server, x) => Owed(down', s, x)
    BY <1>1, <2>1 DEF Owed
  <2> QED
    BY <1>1, <1>2, <1>3, <1>5, <2>2, <2>3, <2>4, <2>5, ServerKeeps
<1>9. CASE m.t = "size" /\ server' = SizedTo(server, m.n, TRUE)
  <2>1. ServerOK(server') /\ server'.mod = 1 .. server'.n
        /\ \A q \in Seq(Stream) : \A x : Agrees(q, x, server) => Agrees(q, x, server')
    BY <1>2, <1>4, <1>9, SizedToIs
  <2>2. live => Agrees(down', client.n, server')
    BY <1>1, <1>2, <2>1
  <2>3. server'.n \in Sizes
    BY <2>1 DEF ServerOK
  <2>4. \A t \in 1 .. client.n : Owed(down', server', t)
    BY <1>6, <2>1, <2>3, AllOwed
  <2> QED
    BY <1>1, <1>2, <1>3, <1>5, <2>1, <2>2, <2>4, ServerKeeps
<1>10. CASE m.t = "size" /\ server' = [server EXCEPT !.layouts = Append(@, refused)]
  <2> DEFINE s == [server EXCEPT !.layouts = Append(@, refused)]
  <2>1. refused \in Layouts /\ refused.ours /\ ~refused.ok
    BY <1>6 DEF Layouts
  <2> HIDE DEF refused
  <2>2. /\ DOMAIN s = ServerFields /\ s = [f \in ServerFields |-> s[f]] /\ s.n = server.n
        /\ s.pic = server.pic /\ s.mod = server.mod /\ s.layouts = Append(server.layouts, refused)
    BY <1>2 DEF ServerOK, ServerFields
  <2>3. server' = s
    BY <1>10
  <2> HIDE DEF s
  <2>4. s.layouts \in Seq(Layouts)
    <3>1. server.layouts \in Seq(Layouts)
      BY <1>2 DEF ServerOK, Layouts
    <3>2. \A S : \A q \in Seq(S), e \in S : Append(q, e) \in Seq(S)
      OBVIOUS
    <3>3. Append(server.layouts, refused) \in Seq(Layouts)
      BY <2>1, <3>1, <3>2, Zenon
    <3> QED
      BY <2>2, <3>3, Zenon
  <2>5. ServerOK(s)
    BY <1>2, <2>2, <2>4 DEF ServerOK, Layouts
  <2>6. live => Agrees(down', client.n, s)
    BY <1>1, <1>2, <2>1, <2>2, AgreesOn
  <2>7. \A x : Owed(down, server, x) => Owed(down', s, x)
    BY <1>1, <2>2 DEF Owed
  <2> QED
    BY <1>1, <1>2, <1>3, <1>5, <2>3, <2>5, <2>6, <2>7, ServerKeeps
<1> QED
  BY <1>1, <1>7, <1>8, <1>9, <1>10

\* A finite set's list holds all of it.
LEMMA SetToSeqIs ==
  ASSUME NEW S, IsFiniteSet(S)
  PROVE  /\ SetToSeq(S) \in Seq(S)
         /\ \A x \in S : \E i \in 1 .. Len(SetToSeq(S)) : SetToSeq(S)[i] = x
<1> DEFINE n == Cardinality(S)  f == SetToSeq(S)
<1>1. n \in Nat /\ ExistsBijection(1 .. n, S)
  BY FS_CardinalityType
<1>2. \E g \in [1 .. n -> S] : IsInjective(g)
  BY <1>1 DEF ExistsBijection, Bijection, Injection
<1>3. f \in [1 .. n -> S] /\ IsInjective(f)
  BY <1>2, Zenon DEF SetToSeq
<1> HIDE DEF f
<1>4. f \in Injection(1 .. n, S)
  BY <1>3 DEF Injection
<1>5. IsFiniteSet(1 .. n) /\ Cardinality(1 .. n) = n
  <2> HIDE DEF n
  <2> QED
    BY <1>1, FS_Interval
<1>6. f \in Surjection(1 .. n, S)
  BY <1>4, <1>5, FS_Injection
<1>7. Len(f) = n /\ f \in Seq(S)
  <2> HIDE DEF n
  <2> QED
    BY <1>1, <1>3
<1> HIDE DEF n
<1>8. \A x \in S : \E i \in 1 .. n : f[i] = x
  BY <1>6 DEF Surjection
<1>9. f \in Seq(S) /\ \A x \in S : \E i \in 1 .. Len(f) : f[i] = x
  BY <1>7, <1>8
<1> QED
  BY <1>9, Zenon DEF f

\* An update: what was owed and is sent is on its way.
LEMMA UpdateKeeps == ASSUME PictureInv, Update PROVE PictureInv'
<1>1. PICK rects \in {<<ToSend>>, SetToSeq({{x} : x \in ToSend})} :
        down' = down \o <<[t |-> "header"]>> \o [i \in 1 .. Len(server.layouts) |-> Item(server.layouts[i])]
                \o (IF ToSend = {} THEN <<>> ELSE [i \in 1 .. Len(rects) |-> Tiles(rects[i])])
  BY DEF Update
<1>2. /\ live /\ server' = [server EXCEPT !.mod = @ \ ToSend, !.request = NoRequest, !.layouts = <<>>]
      /\ UNCHANGED <<up, client, cmds, pending, desk, window, live, used>>
  BY DEF Update
<1>3. /\ ServerOK(server) /\ down \in Seq(Stream) /\ up \in Seq(Wire) /\ UsedOK /\ ClientOK
      /\ Agrees(down, client.n, server)
  BY <1>2 DEF PictureInv
<1> DEFINE all == ToSend
           head == <<[t |-> "header"]>>
           items == Items(server.layouts)
           tiles == IF all = {} THEN <<>> ELSE [i \in 1 .. Len(rects) |-> Tiles(rects[i])]
           s == [server EXCEPT !.mod = @ \ all, !.request = NoRequest, !.layouts = <<>>]
<1>4. down' = ((down \o head) \o items) \o tiles /\ server' = s
  BY <1>1, <1>2 DEF Items
<1>5. all \in SUBSET server.mod /\ all \in SUBSET (1 .. server.n) /\ server.n \in Sizes /\ server.n \in Nat
  BY <1>3, SizesAre DEF ToSend, ServerOK
<1>6. /\ rects \in Seq(SUBSET all)
      /\ \A x \in all : \E i \in 1 .. Len(rects) : x \in rects[i]
  <2>1. CASE rects = <<all>>
    <3>1. rects \in Seq(SUBSET all) /\ Len(rects) = 1 /\ rects[1] = all /\ 1 \in 1 .. 1
      BY <2>1
    <3> QED
      BY <3>1
  <2>2. CASE rects = SetToSeq({{x} : x \in all})
    <3> DEFINE S == {{x} : x \in all}
    <3>1. IsFiniteSet(1 .. server.n)
      BY <1>5, FS_Interval
    <3>2. IsFiniteSet(SUBSET (1 .. server.n))
      BY <3>1, FS_SUBSET
    <3>3. S \in SUBSET (SUBSET (1 .. server.n)) /\ S \in SUBSET (SUBSET all) /\ \A x \in all : {x} \in S
      BY <1>5
    <3> HIDE DEF S
    <3>4. IsFiniteSet(S)
      BY <3>2, <3>3, FS_Subset
    <3>8. rects = SetToSeq(S)
      BY <2>2 DEF S
    <3>5. rects \in Seq(S) /\ \A x \in S : \E i \in 1 .. Len(rects) : rects[i] = x
      <4>1. /\ SetToSeq(S) \in Seq(S)
            /\ \A x \in S : \E i \in 1 .. Len(SetToSeq(S)) : SetToSeq(S)[i] = x
        BY <3>4, SetToSeqIs, Zenon
      <4> QED
        BY <3>8, <4>1, Zenon
    <3>6. rects \in Seq(SUBSET all)
      <4>1. S \subseteq SUBSET all
        BY <3>3
      <4>2. \A T, U : T \subseteq U => \A q \in Seq(T) : q \in Seq(U)
        OBVIOUS
      <4> QED
        BY <3>5, <4>1, <4>2, Zenon
    <3>7. ASSUME NEW x \in all PROVE \E i \in 1 .. Len(rects) : x \in rects[i]
      <4>1. PICK i \in 1 .. Len(rects) : rects[i] = {x}
        BY <3>3, <3>5
      <4> QED
        BY <4>1
    <3> QED
      BY <3>6, <3>7
  <2> QED
    BY <2>1, <2>2
<1> HIDE DEF all
<1>7. ASSUME NEW a \in SUBSET all
      PROVE  Tiles(a) \in Stream /\ Tiles(a).t = "rect" /\ Tiles(a).at = a
  <2> DEFINE p == [x \in a |-> server.pic[x]]
  <2>1. p \in [a -> Nat]
    BY <1>3, <1>5 DEF ServerOK, Pics
  <2>2. Tiles(a) = [t |-> "rect", at |-> a, px |-> p]
    BY DEF Tiles
  <2> HIDE DEF p
  <2>3. a \in SUBSET Sizes
    <3>1. server.n <= MaxSize /\ a \in SUBSET (1 .. server.n) /\ MaxSize \in Nat /\ server.n \in Nat
      BY <1>5, SizesAre
    <3> QED
      BY ONLY <3>1 DEF Sizes
  <2>4. Tiles(a) \in [t : {"rect"}, at : {a}, px : [a -> Nat]]
    BY <2>1, <2>2
  <2>5. Tiles(a) \in UNION {[t : {"rect"}, at : {b}, px : [b -> Nat]] : b \in SUBSET Sizes}
    BY <2>3, <2>4, Zenon
  <2> QED
    BY <2>2, <2>5 DEF Stream
<1>8. /\ tiles \in Seq(Stream)
      /\ \A j \in 1 .. Len(tiles) : tiles[j].t = "rect" /\ tiles[j].at \in SUBSET (1 .. server.n)
      /\ \A x \in all : \E j \in 1 .. Len(tiles) : tiles[j].t = "rect" /\ x \in tiles[j].at
  <2>1. CASE all = {}
    BY <2>1
  <2>2. CASE all # {}
    <3>1. PICK m \in Nat : m = Len(rects)
      BY <1>6
    <3>2. \A i \in 1 .. m : rects[i] \in SUBSET all
      BY <1>6, <3>1
    <3>3. \A i \in 1 .. m : /\ Tiles(rects[i]) \in Stream /\ Tiles(rects[i]).t = "rect"
                            /\ Tiles(rects[i]).at = rects[i]
      BY <1>7, <3>2
    <3>4. tiles = [i \in 1 .. m |-> Tiles(rects[i])]
      BY <2>2, <3>1
    <3> HIDE DEF tiles
    <3>5. tiles \in Seq(Stream) /\ Len(tiles) = m /\ \A i \in 1 .. m : tiles[i] = Tiles(rects[i])
      BY <3>3, <3>4
    <3>6. \A j \in 1 .. m : tiles[j].t = "rect" /\ tiles[j].at \in SUBSET (1 .. server.n)
      BY <1>5, <3>2, <3>3, <3>5
    <3>7. \A x \in all : \E j \in 1 .. m : tiles[j].t = "rect" /\ x \in tiles[j].at
      BY <1>6, <3>1, <3>3, <3>5
    <3> QED
      BY <3>5, <3>6, <3>7
  <2> QED
    BY <2>1, <2>2
<1> HIDE DEF tiles
<1>9. PICK d \in Sizes : Sized(down, client.n, d) /\ Sized(items, d, server.n)
  BY <1>3 DEF Agrees
<1>10. head \in Seq(Stream) /\ Sized(head, d, d)
  <2>1. [t |-> "header"] \in Stream /\ [t |-> "header"].t = "header"
    BY DEF Stream
  <2>2. ~Setter([t |-> "header"])
    BY DEF Setter
  <2> QED
    BY <2>1, <2>2, SizedOne
<1>11. items \in Seq(Stream)
  BY <1>3, ItemsAre DEF ServerOK, Layouts
<1>12. Sized(tiles, server.n, server.n)
  BY <1>5, <1>8, SizedRects
<1> HIDE DEF head, items
<1>13. down \o head \in Seq(Stream) /\ Sized(down \o head, client.n, d)
  BY <1>3, <1>9, <1>10, SizedJoins
<1> DEFINE front == (down \o head) \o items
<1>14. front \in Seq(Stream) /\ Sized(front, client.n, server.n)
  BY <1>9, <1>11, <1>13, SizedJoins
<1>15. down' \in Seq(Stream) /\ Sized(down', client.n, server.n)
  <2>1. front \o tiles \in Seq(Stream) /\ Sized(front \o tiles, client.n, server.n)
    <3> HIDE DEF front
    <3> QED
      BY <1>8, <1>12, <1>14, SizedJoins
  <2> QED
    BY <1>4, <2>1
<1>16. /\ DOMAIN s = ServerFields /\ s = [f \in ServerFields |-> s[f]] /\ s.n = server.n
       /\ s.pic = server.pic /\ s.mod = server.mod \ all /\ s.layouts = <<>>
  BY <1>3 DEF ServerOK, ServerFields
<1> HIDE DEF s
<1>17. ServerOK(s)
  <2>1. <<>> \in Seq(Layouts)
    OBVIOUS
  <2> QED
    BY <1>3, <1>16, <2>1 DEF ServerOK, Layouts
<1>18. Agrees(down', client.n, s)
  <2>1. Items(<<>>) = <<>>
    BY DEF Items
  <2>2. Sized(<<>>, server.n, server.n)
    BY <1>5, SizedOne
  <2> QED
    BY <1>5, <1>15, <1>16, <2>1, <2>2 DEF Agrees
<1>19. /\ \A j \in 1 .. Len(down) : \E i \in 1 .. Len(down') : down'[i] = down[j]
       /\ \A j \in 1 .. Len(tiles) : \E i \in 1 .. Len(down') : down'[i] = tiles[j]
  <2>1. PICK m0 \in Nat, m1 \in Nat, m2 \in Nat, m3 \in Nat :
          m0 = Len(down) /\ m1 = Len(head) /\ m2 = Len(items) /\ m3 = Len(tiles)
    BY <1>3, <1>8, <1>10, <1>11
  <2> DEFINE p == down \o head
  <2>2. p \in Seq(Stream) /\ Len(p) = m0 + m1 /\ \A j \in 1 .. m0 : p[j] = down[j]
    BY ONLY <1>3, <1>10, <2>1, JoinIs
  <2> HIDE DEF p
  <2>3. front = p \o items
    BY DEF p
  <2>4. /\ front \in Seq(Stream) /\ Len(front) = (m0 + m1) + m2
        /\ \A j \in 1 .. m0 + m1 : front[j] = p[j]
    BY ONLY <1>11, <2>1, <2>2, <2>3, JoinIs
  <2> HIDE DEF front
  <2>5. down' = front \o tiles
    BY <1>4 DEF front
  <2>9. PICK m4 \in Nat : m4 = (m0 + m1) + m2
    OBVIOUS
  <2>10. /\ Len(front \o tiles) = m4 + m3
         /\ \A j \in 1 .. m4 : (front \o tiles)[j] = front[j]
         /\ \A j \in m4 + 1 .. m4 + m3 : (front \o tiles)[j] = tiles[j - m4]
    <3>1. front \in Seq(Stream) /\ tiles \in Seq(Stream) /\ m4 = Len(front) /\ m3 = Len(tiles)
      BY <1>8, <2>1, <2>4, <2>9
    <3> QED
      BY ONLY m4 \in Nat, m3 \in Nat, <3>1, JoinIs
  <2>6. /\ Len(down') = ((m0 + m1) + m2) + m3
        /\ \A j \in 1 .. (m0 + m1) + m2 : down'[j] = front[j]
        /\ \A j \in ((m0 + m1) + m2) + 1 .. ((m0 + m1) + m2) + m3 : down'[j] = tiles[j - ((m0 + m1) + m2)]
    BY ONLY <2>5, <2>9, <2>10
  <2>7. ASSUME NEW j \in 1 .. m0 PROVE \E i \in 1 .. Len(down') : down'[i] = down[j]
    <3>1. j \in 1 .. m0 + m1 /\ j \in 1 .. (m0 + m1) + m2 /\ j \in 1 .. ((m0 + m1) + m2) + m3
      OBVIOUS
    <3>2. down'[j] = down[j]
      BY <2>2, <2>4, <2>6, <3>1
    <3> QED
      BY <2>6, <3>1, <3>2
  <2>8. ASSUME NEW j \in 1 .. m3 PROVE \E i \in 1 .. Len(down') : down'[i] = tiles[j]
    <3> DEFINE i == ((m0 + m1) + m2) + j
    <3>1. /\ i \in ((m0 + m1) + m2) + 1 .. ((m0 + m1) + m2) + m3 /\ i - ((m0 + m1) + m2) = j
          /\ i \in 1 .. ((m0 + m1) + m2) + m3
      OBVIOUS
    <3> HIDE DEF i
    <3>2. down'[i] = tiles[j]
      BY <2>6, <3>1
    <3> QED
      BY <2>6, <3>1, <3>2
  <2> QED
    BY <2>1, <2>7, <2>8
<1>20. ASSUME NEW t \in 1 .. client.n, Owed(down, server, t) PROVE Owed(down', s, t)
  <2>1. CASE t > server.n
    BY <1>16, <2>1 DEF Owed
  <2>2. CASE t \in server.mod /\ t \notin all
    BY <1>16, <2>2 DEF Owed
  <2>3. CASE t \in all
    <3>1. PICK j \in 1 .. Len(tiles) : tiles[j].t = "rect" /\ t \in tiles[j].at
      BY <1>8, <2>3
    <3>2. PICK i \in 1 .. Len(down') : down'[i] = tiles[j]
      BY <1>19
    <3> QED
      BY <3>1, <3>2 DEF Owed
  <2>4. CASE \E j \in 1 .. Len(down) : down[j].t = "rect" /\ t \in down[j].at
    <3>1. PICK j \in 1 .. Len(down) : down[j].t = "rect" /\ t \in down[j].at
      BY <2>4
    <3>2. PICK i \in 1 .. Len(down') : down'[i] = down[j]
      BY <1>19
    <3> QED
      BY <3>1, <3>2 DEF Owed
  <2> QED
    BY <1>20, <2>1, <2>2, <2>3, <2>4 DEF Owed
<1>21. UsedOK' /\ up' \in Seq(Wire)
  BY <1>2, <1>3 DEF UsedOK
<1>22. server' = s
  BY <1>4
<1> QED
  BY <1>2, <1>15, <1>17, <1>18, <1>20, <1>21, <1>22, ServerKeeps

\* That it can is one message more.
LEMMA SaysKeeps == ASSUME PictureInv, SaysItCan PROVE PictureInv'
<1> DEFINE s == [server EXCEPT !.says = FALSE]  i == [t |-> "can"]
<1>1. /\ live /\ server' = s /\ down' = Append(down, i)
      /\ UNCHANGED <<up, client, cmds, pending, desk, window, live, used>>
  BY DEF SaysItCan
<1>2. /\ ServerOK(server) /\ down \in Seq(Stream) /\ up \in Seq(Wire) /\ UsedOK
      /\ Agrees(down, client.n, server)
  BY <1>1 DEF PictureInv
<1>3. /\ DOMAIN s = ServerFields /\ s = [f \in ServerFields |-> s[f]] /\ s.n = server.n
      /\ s.pic = server.pic /\ s.mod = server.mod /\ s.layouts = server.layouts
  BY <1>2 DEF ServerOK, ServerFields
<1> HIDE DEF s
<1>4. ServerOK(s)
  BY <1>2, <1>3 DEF ServerOK
<1>5. i \in Stream /\ i.t = "can" /\ ~Setter(i)
  BY DEF Stream, Setter
<1> HIDE DEF i
<1>6. PICK d \in Sizes : Sized(down, client.n, d) /\ Sized(Items(server.layouts), d, server.n)
  BY <1>2 DEF Agrees
<1>7. <<i>> \in Seq(Stream) /\ Sized(<<i>>, d, d)
  BY <1>5, SizedOne
<1>8. down' = down \o <<i>>
  BY <1>1, <1>2, <1>5
<1>9. down' \in Seq(Stream) /\ Sized(down', client.n, d)
  BY <1>2, <1>6, <1>7, <1>8, SizedJoins
<1>10. Agrees(down', client.n, s)
  BY <1>3, <1>6, <1>9 DEF Agrees
<1>11. \A t : Owed(down, server, t) => Owed(down', s, t)
  <2>1. PICK m \in Nat : m = Len(down)
    BY <1>2
  <2>2. Len(down') = m + 1 /\ \A j \in 1 .. m : down'[j] = down[j] /\ j \in 1 .. m + 1
    BY <1>1, <1>2, <2>1
  <2> QED
    BY <1>3, <2>1, <2>2 DEF Owed
<1>12. UsedOK' /\ up' \in Seq(Wire)
  BY <1>1, <1>2 DEF UsedOK
<1> QED
  BY <1>1, <1>4, <1>9, <1>10, <1>11, <1>12, ServerKeeps

\* The invariant says what the runs check.
LEMMA PictureInvHolds == ASSUME PictureInv PROVE DamageHeld
<1>1. /\ ServerOK(server) /\ down \in Seq(Stream)
      /\ ClientOK /\ PendingOK /\ DeskOK
      /\ live => Agrees(down, client.n, server)
      /\ live => \A t \in 1 .. client.n : InStep(t) \/ Owed(down, server, t)
  BY DEF PictureInv
<1>2. PictureTypeOK
  <2>1. /\ client.n \in Sizes /\ DOMAIN client.fb = 1 .. client.n
        /\ client.outstanding \in 0 .. 2 /\ client.wanted \in 0 .. MaxSize
    BY <1>1 DEF ClientOK, Decoder, Pics
  <2>2. server.n \in Sizes /\ server.mod \subseteq 1 .. server.n
    BY <1>1 DEF ServerOK
  <2>3. desk.n \in 0 .. MaxSize /\ (desk.n > 0 => DOMAIN desk.px = 1 .. desk.n)
    BY <1>1 DEF DeskOK
  <2>4. pending.n = client.n
    BY <1>1 DEF PendingOK
  <2>5. \A i \in 1 .. Len(pending.rects) : pending.rects[i].at \subseteq 1 .. pending.n
    <3>1. pending.rects \in Seq(Pieces(pending.n))
      BY <1>1 DEF PendingOK, DamageOK
    <3>2. \A i \in 1 .. Len(pending.rects) : pending.rects[i] \in Pieces(pending.n)
      BY <3>1
    <3> QED
      BY <3>2, PieceIs
  <2> QED
    BY <2>1, <2>2, <2>3, <2>4, <2>5 DEF PictureTypeOK
<1>3. DamageBounded
  BY <1>1 DEF PendingOK, DamageBounded
<1>4. NothingMissed
  <2>1. SUFFICES ASSUME live, NEW t \in 1 .. client.n, ~InStep(t) PROVE Coming(t)
    BY DEF NothingMissed, InStep
  <2>2. Owed(down, server, t)
    BY <1>1, <2>1
  <2>3. CASE t \in server.mod \/ \E j \in 1 .. Len(down) : down[j].t = "rect" /\ t \in down[j].at
    BY <2>3 DEF Coming
  <2>4. CASE t > server.n
    <3>1. ASSUME server.layouts = <<>>, \A j \in 1 .. Len(down) : down[j].t # "layout" PROVE FALSE
      <4>1. PICK d \in Sizes : Sized(down, client.n, d) /\ Sized(Items(server.layouts), d, server.n)
        BY <1>1, <2>1 DEF Agrees
      <4>2. client.n = d
        BY <1>1, <3>1, <4>1, SizedStays
      <4>3. Items(<<>>) = <<>> /\ <<>> \in Seq(Stream) /\ Len(<<>>) = 0
        BY DEF Items
      <4>4. Sized(<<>>, d, server.n)
        BY <3>1, <4>1, <4>3
      <4>5. \A j \in 1 .. Len(<<>>) : <<>>[j].t # "layout"
        BY <4>3
      <4>6. d = server.n
        BY <4>3, <4>4, <4>5, SizedStays
      <4>7. client.n \in Nat
        BY <1>1, SizesAre DEF ClientOK, Decoder
      <4> QED
        BY <2>1, <2>4, <4>2, <4>6, <4>7
    <3> QED
      BY <3>1 DEF Coming
  <2> QED
    BY <2>2, <2>3, <2>4 DEF Owed
<1> QED
  BY <1>2, <1>3, <1>4 DEF DamageHeld

\* VncSession.h promises that the damage on its way to the renderer is bounded by one copy of
\* the framebuffer, however long the renderer stays away; and the renderer needs that nothing
\* is lost of it, over resizes and connections that drop and come back: for any sizes, any
\* drawing and any number of them, each tile the renderer shows, or has still to take, is as
\* the decoder has it, unless the server owes it or it is on its way.
THEOREM DamageIsHeld == PictureSpec => []DamageHeld
<1>1. PictureInit => PictureInv
  BY PictureStarts
<1>2. PictureInv /\ [PictureNext]_pictureVars => PictureInv'
  <2>1. SUFFICES ASSUME PictureInv, [PictureNext]_pictureVars PROVE PictureInv'
    OBVIOUS
  <2>2. CASE UNCHANGED pictureVars
    <3>1. UNCHANGED <<server, down, up, client, pending, desk, live>> /\ UNCHANGED <<cmds, window, used>>
      BY <2>2 DEF pictureVars
    <3>2. WindowOK /\ UsedOK /\ cmds \in Seq(Orders)
      BY <2>1 DEF PictureInv
    <3>3. WindowOK' /\ UsedOK' /\ cmds' \in Seq(Orders)
      BY <3>1, <3>2 DEF WindowOK, UsedOK
    <3> QED
      BY <2>1, <3>1, <3>3, WindowKeeps
  <2>3. CASE PictureNext
    BY <2>1, <2>3, PumpKeeps, DropsKeeps, ConnectKeeps, RenderKeeps, WindowChangesKeeps, FitWindowKeeps,
       DrawKeeps, ResizesKeeps, ReceiveKeeps, UpdateKeeps, SaysKeeps DEF PictureNext
  <2> QED
    BY <2>1, <2>2, <2>3
<1>3. PictureInv => DamageHeld
  BY PictureInvHolds
<1> QED
  BY <1>1, <1>2, <1>3, PTL DEF PictureSpec
============================================================================
