------------------------------- MODULE AmberX -------------------------------
(***************************************************************************)
(* Forwarded X clients of one session, from their SSH channels to the      *)
(* built-in X server and back: the session's network thread (PumpAmberX),  *)
(* the controller and its reader thread, the framed pipe, and in the host  *)
(* process the pipe thread and the server thread.                          *)
(*                                                                         *)
(* A unit of data is one request or one reply; a channel's units are       *)
(* numbered.  X11Intake is in module Tunnel: here a first unit may be      *)
(* refused.                                                                *)
(***************************************************************************)
EXTENDS Naturals, Sequences, FiniteSets

CONSTANTS N,            \* channel ids one session uses (nextAmberxId)
          MaxChannels,  \* ChannelTable::kMaxChannels
          HighWater,    \* kTunnelHighWater, in units
          Budget,       \* frames one pass takes from the host
          MaxData       \* bound: requests of a client, by channel

ASSUME AmberXAssumption ==
  /\ {N, MaxChannels, HighWater, Budget} \subseteq Nat \ {0}
  /\ MaxData \in [1 .. N -> Nat]

VARIABLES
  st,       \* the controller: off, listening, hello, ready
  hst,      \* the host process: none, dialling, hello, proof, serving, gone
  down, up, \* the pipe, to the host and from it
  open,     \* m_channels
  q, ended, \* the reader thread's queue; why it ended, if it has
  next,     \* nextAmberxId
  budget,   \* frames the pass may still take; 0 = visiting the tunnels
  tun,      \* the session's tunnels with an amberxChannel
  ssh,      \* their SSH channels and the programs behind them
  chan,     \* the host's ChannelBufs
  events,   \* the events the server thread has not pulled
  cli       \* the X server's clients

session    == <<next, budget, tun, ssh>>
controller == <<st, open, q, ended>>
host       == <<hst, chan, events, cli>>
vars       == <<session, controller, host, down, up>>

Ids == 1 .. N
Frame(type, c) == [type |-> type, ch |-> c, n |-> 0]
Shuffled(c, units)   == [i \in 1 .. Len(units) |->
                          [type |-> "data", ch |-> c, n |-> units[Len(units) + 1 - i]]]  \* (faulty)
DataFrames(c, units) == [i \in 1 .. Len(units) |-> [type |-> "data", ch |-> c, n |-> units[i]]]
Event(type, c) == [type |-> type, ch |-> c]
\* The units of channel c in a queue of frames.
Units(frames, c) ==
  LET mine == {i \in 1 .. Len(frames) : frames[i].type = "data" /\ frames[i].ch = c}
      Nth(k) == CHOOSE i \in mine : Cardinality({j \in mine : j <= i}) = k
  IN  [k \in 1 .. Cardinality(mine) |-> frames[Nth(k)].n]
Taken(s, n) == SubSeq(s, 1, n)
Left(s, n)  == SubSeq(s, n + 1, Len(s))

NoTunnel == [life |-> "none", toChannel |-> <<>>, chanEof |-> FALSE]
NoBuf    == [there |-> FALSE, data |-> <<>>, closedByPeer |-> FALSE]
Init ==
  /\ st = "off" /\ hst = "none" /\ down = <<>> /\ up = <<>>
  /\ open = {} /\ q = <<>> /\ ended = FALSE /\ next = 1 /\ budget = 0
  /\ tun = [c \in Ids |-> NoTunnel]
  /\ ssh = [c \in Ids |-> [out |-> <<>>, said |-> 0, eof |-> FALSE, got |-> <<>>]]
  /\ chan = [c \in Ids |-> NoBuf]
  /\ events = <<>>
  /\ cli = [c \in Ids |-> [life |-> "none", ran |-> <<>>, wrote |-> 0, out |-> <<>>]]

Serving == hst = "serving"
\* WriteFrame: a broken pipe takes nothing.
PipeUp == st # "off" /\ hst # "gone"
Write(frames) == down' = IF PipeUp THEN down \o frames ELSE down

----------------------------------------------------------------------------
(* Start, the handshake, and what ends it: Kill takes the host with it.    *)

Listen ==
  /\ st = "off" /\ hst = "none"
  /\ st' = "listening" /\ hst' = "dialling"
  /\ UNCHANGED <<session, open, q, ended, chan, events, cli, down, up>>

\* WaitForClient returns with the host connected, and Hello goes out.
SendHello ==
  /\ st = "listening" /\ hst = "hello"
  /\ st' = "hello" /\ down' = Append(down, Frame("Hello", 0))
  /\ UNCHANGED <<session, host, open, q, ended, up>>

\* A controller that gets the right answer is done once its proof is sent.
TakeHelloAck ==
  /\ st = "hello" /\ up # <<>> /\ Head(up).type = "HelloAck"
  /\ up' = Tail(up) /\ Write(<<Frame("AuthProof", 0)>>)
  /\ st' = IF PipeUp THEN "ready" ELSE "off"
  /\ UNCHANGED <<session, host, open, q, ended>>

HostConnects ==
  /\ hst = "dialling" /\ st = "listening" /\ hst' = "hello"
  /\ UNCHANGED <<session, controller, chan, events, cli, down, up>>
TakeHello ==
  /\ hst = "hello" /\ down # <<>> /\ Head(down).type = "Hello"
  /\ hst' = "proof" /\ down' = Tail(down) /\ up' = Append(up, Frame("HelloAck", 0))
  /\ UNCHANGED <<session, controller, chan, events, cli>>
TakeProof ==
  /\ hst = "proof" /\ down # <<>> /\ Head(down).type = "AuthProof"
  /\ hst' = "serving" /\ down' = Tail(down)
  /\ UNCHANGED <<session, controller, chan, events, cli, up>>

\* Kill: the reader is joined, the pipe closed, and after 500 ms the job ends
\* the host whatever it does.
Killed ==
  /\ st' = "off" /\ hst' = (IF hst = "none" THEN "none" ELSE "gone")
  /\ open' = {} /\ q' = <<>> /\ ended' = FALSE
  /\ down' = <<>> /\ up' = <<>>
\* 10 s without the peer's next step, or the peer is gone.
StartFails == st \in {"listening", "hello"} /\ Killed /\ UNCHANGED <<session, chan, events, cli>>
\* The I/O loop is left: tunnels are freed, then Stop.
Leave ==
  /\ st = "ready" /\ budget = 0
  /\ tun' = [c \in Ids |-> [tun[c] EXCEPT !.life = IF @ = "live" THEN "over" ELSE @]]
  /\ Killed
  /\ UNCHANGED <<next, budget, ssh, chan, events, cli>>
\* The host crashes, fails the handshake, or sees its parent gone.
HostDies ==
  /\ hst \notin {"none", "gone"} /\ hst' = "gone"
  /\ UNCHANGED <<session, controller, chan, events, cli, down, up>>

----------------------------------------------------------------------------
(* The network thread.                                                     *)

\* The server opened an X11 channel.  The id stays in the table when the
\* write fails, and the next channel is refused for it.
NewChannel(c) ==
  /\ st = "ready" /\ next = c /\ budget = 0
  /\ c \notin open /\ Cardinality(open) < MaxChannels
  /\ open' = open \cup {c} /\ Write(<<Frame("open", c)>>)
  /\ IF PipeUp
     THEN tun' = [tun EXCEPT ![c].life = "live"] /\ next' = next + 1
     ELSE UNCHANGED <<tun, next>>
  /\ UNCHANGED <<budget, ssh, host, st, q, ended, up>>

EndAfter(t) == t.chanEof
Silent(c)   == <<>>                                             \* (faulty)
Goodbye(c)  == <<Frame("close", c)>>
\* One tunnel's part of a pass: read, send, write, and the end of it.  Its
\* toSock holds nothing between passes.
Visit(c, read, wrote, fails) ==
  LET t == tun[c]  s == ssh[c]
      atEof == t.chanEof \/ (s.out = <<>> /\ s.eof)
      drop == fails \/ (read > 0 /\ ~PipeUp)
      over == drop \/ EndAfter([t EXCEPT !.chanEof = atEof])
      frames == IF fails THEN <<>> ELSE DataFrames(c, Taken(s.out, read))
  IN  /\ st = "ready" /\ budget = 0 /\ t.life = "live"
      /\ read \in 0 .. Len(s.out) /\ (t.chanEof => read = 0)
      /\ wrote \in 0 .. (IF drop THEN 0 ELSE Len(t.toChannel))
      /\ fails => \/ read > 0 /\ Head(s.out) = 1     \* the cookie does not match
                  \/ s.eof                           \* an error of the channel's
      /\ ssh' = [ssh EXCEPT ![c].out = Left(@, read), ![c].got = @ \o Taken(t.toChannel, wrote)]
      /\ tun' = [tun EXCEPT ![c].chanEof = atEof, ![c].toChannel = Left(@, wrote),
                            ![c].life = IF over THEN "over" ELSE @]
      /\ open' = IF over THEN open \ {c} ELSE open
      /\ Write(frames \o (IF over THEN Goodbye(c) ELSE <<>>))
      /\ UNCHANGED <<next, budget, host, st, q, ended, up>>

Live == {c \in Ids : tun[c].life = "live"}
Backlogged == \E c \in Live : Len(tun[c].toChannel) >= HighWater
\* Nothing to route to, or nowhere to put it: the pass is over.
StartPolls ==
  /\ st = "ready" /\ budget = 0 /\ Live # {} /\ ~Backlogged
  /\ budget' = Budget
  /\ UNCHANGED <<next, tun, ssh, controller, host, down, up>>

Routed(f) ==
  CASE f.ch \in Live /\ f.type = "data"  -> [tun EXCEPT ![f.ch].toChannel = Append(@, f.n)]
    [] f.ch \in Live /\ f.type = "close" -> [tun EXCEPT ![f.ch].chanEof = TRUE]
    [] OTHER -> tun
JustAnError == tun                                              \* (faulty)
\* Every AmberX channel is at its end.
HostLost == [c \in Ids |-> [tun[c] EXCEPT !.chanEof = @ \/ c \in Live]]

Poll ==
  /\ budget > 0
  /\ IF q # <<>>
     THEN q' = Tail(q) /\ tun' = Routed(Head(q)) /\ budget' = budget - 1
     ELSE q' = q /\ tun' = (IF ended THEN HostLost ELSE tun) /\ budget' = 0
  /\ UNCHANGED <<next, ssh, st, open, ended, host, down, up>>

\* The reader thread.
Read ==
  /\ st = "ready" /\ ~ended
  /\ IF up # <<>> THEN q' = Append(q, Head(up)) /\ up' = Tail(up) /\ UNCHANGED ended
     ELSE hst = "gone" /\ ended' = TRUE /\ UNCHANGED <<q, up>>
  /\ UNCHANGED <<session, st, open, host, down>>

----------------------------------------------------------------------------
(* The host's pipe thread.                                                 *)

There == {c \in Ids : chan[c].there}
Accepts(c)  == ~chan[c].there /\ Cardinality(There) < MaxChannels
OpenBuf(c) == chan[c].there /\ ~chan[c].closedByPeer

\* What a frame does to the buffers and the events, or an error to the peer.
TakeFrame ==
  /\ Serving /\ down # <<>> /\ down' = Tail(down)
  /\ LET f == Head(down)  c == f.ch
     IN  \/ /\ f.type = "open" /\ Accepts(c)
            /\ chan' = [chan EXCEPT ![c] = [NoBuf EXCEPT !.there = TRUE]]
            /\ events' = Append(events, Event("open", c)) /\ UNCHANGED up
         \/ /\ f.type = "data" /\ OpenBuf(c)
            /\ chan' = [chan EXCEPT ![c].data = Append(@, f.n)] /\ UNCHANGED <<events, up>>
         \/ /\ f.type = "close" /\ chan[c].there
            /\ chan' = [chan EXCEPT ![c].closedByPeer = TRUE]
            /\ events' = Append(events, Event("close", c)) /\ UNCHANGED up
         \/ /\ \/ f.type = "open" /\ ~Accepts(c)
               \/ f.type = "data" /\ ~OpenBuf(c)
               \/ f.type = "close" /\ ~chan[c].there
            /\ up' = Append(up, Frame("error", c)) /\ UNCHANGED <<chan, events>>
  /\ UNCHANGED <<session, controller, hst, cli>>

----------------------------------------------------------------------------
(* The server thread.                                                      *)

\* amberwin_channel_close: the peer is told unless it closed first.
Closed(c) == [chan EXCEPT ![c] = NoBuf]
ToldPeer(c) == IF OpenBuf(c) THEN <<Frame("close", c)>> ELSE <<>>

\* drain_backend's events.  A client of a channel its peer closed is gone:
\* CloseDownConnection neither flushes it nor closes its channel.
TakeEvent ==
  /\ Serving /\ events # <<>> /\ events' = Tail(events)
  /\ LET c == Head(events).ch
     IN  \/ /\ Head(events).type = "open"
            /\ cli' = [cli EXCEPT ![c].life = "live"] /\ UNCHANGED <<chan, up>>
         \/ /\ Head(events).type = "open"          \* no client to be had
            /\ cli' = [cli EXCEPT ![c].life = "over"]
            /\ chan' = Closed(c) /\ up' = up \o ToldPeer(c)
         \/ /\ Head(events).type = "close"
            /\ cli' = [cli EXCEPT ![c].life = "over"] /\ UNCHANGED <<chan, up>>
  /\ UNCHANGED <<session, controller, hst, down>>

\* ReadRequestFromClient, and the request, which may be answered; a read that
\* finds nothing and the channel closed is the client's end.
ReadRequest(c) ==
  /\ Serving /\ cli[c].life = "live" /\ chan[c].data # <<>>
  /\ chan' = [chan EXCEPT ![c].data = Tail(@)]
  /\ \E replies \in 0 .. 1 :
       cli' = [cli EXCEPT ![c].ran = Append(@, Head(chan[c].data)), ![c].wrote = @ + replies,
                          ![c].out = IF replies = 0 THEN @ ELSE Append(@, cli[c].wrote + 1)]
  /\ UNCHANGED <<session, controller, hst, events, down, up>>
ReadEnd(c) ==
  /\ Serving /\ cli[c].life = "live" /\ chan[c].data = <<>> /\ chan[c].closedByPeer
  /\ cli' = [cli EXCEPT ![c].life = "over"]
  /\ UNCHANGED <<session, controller, hst, chan, events, down, up>>

\* FlushClient, of a client with nothing to read or with a full buffer; one
\* whose channel is closed is aborted.
Flush(c) ==
  /\ Serving /\ cli[c].life = "live" /\ cli[c].out # <<>>
  /\ IF OpenBuf(c)
     THEN /\ up' = up \o DataFrames(c, cli[c].out)
          /\ cli' = [cli EXCEPT ![c].out = <<>>] /\ UNCHANGED chan
     ELSE /\ cli' = [cli EXCEPT ![c].out = <<>>, ![c].life = "over"]
          /\ chan' = Closed(c) /\ UNCHANGED up
  /\ UNCHANGED <<session, controller, hst, events, down>>

NoFlush(c)    == ToldPeer(c)                                    \* (faulty)
FlushFirst(c) == (IF OpenBuf(c) THEN DataFrames(c, cli[c].out) ELSE <<>>) \o ToldPeer(c)
\* The X server is done with a client: a refused setup, a protocol error, a
\* KillClient.
CloseDownClient(c) ==
  /\ Serving /\ cli[c].life = "live"
  /\ up' = up \o FlushFirst(c) /\ chan' = Closed(c)
  /\ cli' = [cli EXCEPT ![c].life = "over", ![c].out = <<>>]
  /\ UNCHANGED <<session, controller, hst, events, down>>

----------------------------------------------------------------------------
(* The program at the far end of an SSH channel.                           *)

Says(c) ==
  /\ c < next /\ ~ssh[c].eof /\ ssh[c].said < MaxData[c]
  /\ ssh' = [ssh EXCEPT ![c].said = @ + 1, ![c].out = Append(@, ssh[c].said + 1)]
  /\ UNCHANGED <<next, budget, tun, controller, host, down, up>>
Exits(c) ==
  /\ c < next /\ ~ssh[c].eof /\ ssh' = [ssh EXCEPT ![c].eof = TRUE]
  /\ UNCHANGED <<next, budget, tun, controller, host, down, up>>

Visits(c) == \E read \in 0 .. MaxData[c], wrote \in 0 .. Len(tun[c].toChannel), fails \in BOOLEAN :
               Visit(c, read, wrote, fails)
NetworkThread == StartPolls \/ Poll \/ Leave \/ \E c \in Ids : NewChannel(c) \/ Visits(c)
StartUp == Listen \/ SendHello \/ TakeHelloAck \/ HostConnects \/ TakeHello \/ TakeProof \/ StartFails
ServerThread == TakeEvent \/ \E c \in Ids :
                  ReadRequest(c) \/ ReadEnd(c) \/ Flush(c) \/ CloseDownClient(c)
Next == NetworkThread \/ StartUp \/ ServerThread \/ Read \/ TakeFrame \/ HostDies
        \/ \E c \in Ids : Says(c) \/ Exits(c)
Spec == Init /\ [][Next]_vars

\* Threads are scheduled; the far end keeps reading, so a backlog is written
\* again and again.
Fairness ==
  /\ WF_vars(StartPolls) /\ WF_vars(Poll) /\ WF_vars(Read) /\ WF_vars(TakeFrame) /\ WF_vars(TakeEvent)
  /\ \A c \in Ids : /\ WF_vars(ReadRequest(c))
                    /\ SF_vars(\E read \in 0 .. MaxData[c], fails \in BOOLEAN :
                                 Visit(c, read, Len(tun[c].toChannel), fails))
FairSpec == Spec /\ Fairness

----------------------------------------------------------------------------
TypeOK ==
  /\ st \in {"off", "listening", "hello", "ready"}
  /\ hst \in {"none", "dialling", "hello", "proof", "serving", "gone"}
  /\ open \subseteq Ids /\ next \in 1 .. N + 1 /\ budget \in 0 .. Budget /\ ended \in BOOLEAN
  /\ \A c \in Ids :
       /\ tun[c].life \in {"none", "live", "over"} /\ tun[c].chanEof \in BOOLEAN
       /\ cli[c].life \in {"none", "live", "over"}
       /\ Len(ssh[c].out) + Len(chan[c].data) + Len(cli[c].ran) <= MaxData[c]

InFlight(c, type) == \E i \in 1 .. Len(down) : down[i] = Frame(type, c)
\* A channel whose whole way is up: nobody has given it up yet.
Whole(c) == /\ tun[c].life = "live" /\ hst = "serving"
            /\ cli[c].life # "over" /\ (chan[c].there \/ InFlight(c, "open"))

\* Every request is, once and in its place, somewhere between the program
\* that made it and the X server that runs it; after an end, what ran is a
\* beginning of what was asked.
RequestsInOrder == \A c \in Ids :
  /\ cli[c].ran = [i \in 1 .. Len(cli[c].ran) |-> i]
  /\ Whole(c) => cli[c].ran \o chan[c].data \o Units(down, c) \o ssh[c].out
                   = [i \in 1 .. ssh[c].said |-> i]

\* The same of the replies, and also after the X server gave the client up:
\* its last words (the reason of a refusal) are on their way before the close.
RepliesInOrder == \A c \in Ids :
  /\ ssh[c].got = [i \in 1 .. Len(ssh[c].got) |-> i]
  /\ tun[c].life = "live" /\ hst = "serving" /\ ~tun[c].chanEof =>
       ssh[c].got \o tun[c].toChannel \o Units(q, c) \o Units(up, c) \o cli[c].out
         = [i \in 1 .. cli[c].wrote |-> i]

\* The two channel tables agree up to what is in the pipe: a channel the host
\* takes data on is one the controller has open or has just closed, and the
\* controller's table holds the live tunnels and nothing else.
TablesAgree ==
  /\ Serving /\ st = "ready" =>
       \A c \in Ids : OpenBuf(c) => c \in open \/ InFlight(c, "close")
  /\ st = "ready" => Live \subseteq open
  /\ st = "ready" /\ hst # "gone" => open = Live

\* "data on a channel that is not open" and its like only ever name a channel
\* that the host gave up on its own while the frame was under way.
ErrorsAreCrossings ==
  [][\A c \in Ids : up' = Append(up, Frame("error", c)) => cli[c].life = "over"]_vars

\* When the X server is done with a client, its SSH channel ends.
GoneClientEndsTunnel == \A c \in Ids : (cli[c].life = "over") ~> (tun[c].life # "live")
\* When the SSH side is done with a channel, its X client ends.
GoneTunnelEndsClient == \A c \in Ids : (tun[c].life = "over") ~> (cli[c].life # "live" \/ ~Serving)
\* The host's loss ends every tunnel: the far programs see an end, not a hang.
LostHostEndsTunnels == (hst = "gone") ~> (Live = {})

\* Both streams of a channel arrive in order, through four threads and the pipe.
StreamsInOrder == RequestsInOrder /\ RepliesInOrder

\* The two processes never disagree on a channel but for what is under way.
TablesInStep == TypeOK /\ TablesAgree

\* Whoever is gone, the client, the tunnel or the host, is gone for the others in
\* time; what is still sent to it meanwhile is the only cause of an error frame.
EndsArePassedOn ==
  ErrorsAreCrossings /\ GoneClientEndsTunnel /\ GoneTunnelEndsClient /\ LostHostEndsTunnels

(* Statements of the repository that the code does not keep. *)

\* The host refuses a channel the controller opened only when as many clients
\* as the cap allows are there (Protocol.h:216, "The most channels one session
\* may have open at once").
RefusedOnlyWhenFull == \A c \in Live :
  Serving /\ events = <<>> /\ ~chan[c].there /\ ~InFlight(c, "open") /\ cli[c].life = "none"
    => Cardinality({d \in Ids : cli[d].life = "live"}) >= MaxChannels
=============================================================================
