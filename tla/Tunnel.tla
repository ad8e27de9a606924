------------------------------- MODULE Tunnel -------------------------------
(***************************************************************************)
(* Port forwards and X11 channels of one session (src/src/ssh/session.cpp: *)
(* AcceptForwards, SocksStep, X11Intake, PumpTunnels).  The network thread *)
(* pumps every tunnel once a pass; between any two of its calls the local  *)
(* program and the server go on sending, closing and reading.              *)
(*                                                                         *)
(* A unit is one message of a peer.  A SOCKS client waits for each reply   *)
(* before it goes on, as RFC 1928 asks of it.                              *)
(***************************************************************************)
EXTENDS Naturals, Sequences

CONSTANTS N,          \* tunnels
          HighWater,  \* kTunnelHighWater, in units
          Chunk,      \* what one read takes at most (buf)
          Room,       \* what a client's receive buffer holds
          MaxData     \* bound: units each peer sends

ASSUME TunnelAssumption ==
  /\ {N, HighWater, Chunk, Room} \subseteq Nat \ {0}
  /\ MaxData \in Nat

VARIABLES
  tun,      \* the FwdTunnel records
  client,   \* the program at each tunnel's socket
  server,   \* the far end of each tunnel's channel
  opening,  \* the tunnel whose channel libssh2 is opening, 0 = none
  cur, at,  \* the tunnel being pumped, 0 = none; the call that is next
  drop      \* PumpTunnels' local flag

vars == <<tun, client, server, opening, cur, at, drop>>

Tunnels  == 1 .. N
Unit(w)  == [what |-> w, n |-> 0]
Data(n)  == [what |-> "data", n |-> n]
AtMost(a, b) == IF a < b THEN a ELSE b
\* What one call may take of q.
Takes(q, limit) == 1 .. AtMost(Len(q), limit)
Front(q, n) == SubSeq(q, 1, n)
Rest(q, n)  == SubSeq(q, n + 1, Len(q))

\* FwdTunnel as AcceptForwards makes it for a listener of type L or D, and as
\* the I/O loop makes it for an X11 channel.  A target is pendingHost.
NoTunnel ==
  [life |-> "none", kind |-> "L", socks |-> 0, target |-> FALSE, dest |-> 0,
   buf |-> <<>>, setup |-> <<>>, ready |-> FALSE, toChannel |-> <<>>, toSock |-> <<>>,
   sockEof |-> FALSE, chanEof |-> FALSE]
Accepted(i, kind) ==
  CASE kind = "L" -> [NoTunnel EXCEPT !.life = "live", !.target = TRUE]
    [] kind = "D" -> [NoTunnel EXCEPT !.life = "live", !.kind = "D"]
    [] kind = "X" -> [NoTunnel EXCEPT !.life = "live", !.kind = "X", !.socks = 3, !.dest = i]

Quiet(kind) == [kind |-> kind, connected |-> FALSE, said |-> 0, out |-> <<>>, sent |-> 0,
                shut |-> FALSE, gone |-> FALSE, room |-> Room, got |-> <<>>]
Far == [out |-> <<>>, sent |-> 0, cookie |-> "none", eof |-> FALSE, closed |-> FALSE,
        got |-> <<>>, eofs |-> 0]

Init ==
  /\ tun = [i \in Tunnels |-> NoTunnel]
  /\ client \in [Tunnels -> {Quiet(k) : k \in {"L", "D", "X"}}]
  /\ server = [i \in Tunnels |-> Far]
  /\ opening = 0 /\ cur = 0 /\ at = "accept" /\ drop = FALSE

----------------------------------------------------------------------------
(* One tunnel's part of a pass.  x holds what the pass works on: the       *)
(* tunnel, its two peers, drop and opening.  Each call of the code is an   *)
(* operator that gives the outcomes it may have.                           *)

Dropped(x) == [x EXCEPT !.drop = TRUE]
Tell(x, w) == [x EXCEPT !.c.got = Append(@, Unit(w))]

\* SocksStep: greeting, then request.
Greeting(x) ==
  IF x.t.socks # 0 \/ x.t.buf = <<>> THEN x
  ELSE IF Head(x.t.buf).what # "hello" THEN Dropped(x)
  ELSE Tell([x EXCEPT !.t.buf = Tail(@), !.t.socks = 1], "method")
Request(x) ==
  IF x.drop \/ x.t.socks # 1 \/ x.t.buf = <<>> THEN x
  ELSE IF Head(x.t.buf).what # "ask" THEN Dropped(x)
  ELSE [x EXCEPT !.t.buf = Tail(@), !.t.socks = 2, !.t.target = TRUE]
SocksStep(x) == Request(Greeting(x))

\* The handshake's recv; n = 0 is the client's FIN, an error is "not now".
SocksRecv(x) ==
  IF x.t.socks >= 2 \/ x.t.chanEof THEN {x}
  ELSE IF x.c.out # <<>>
  THEN {SocksStep([x EXCEPT !.t.buf = @ \o Front(x.c.out, n), !.c.out = Rest(@, n)])
          : n \in Takes(x.c.out, Chunk)}
  ELSE {IF x.c.shut /\ ~x.c.gone THEN Dropped(x) ELSE x}

\* libssh2_channel_direct_tcpip_ex: libssh2 keeps one open of this kind in
\* progress per session and a call goes on with that one.
Asked(x) == IF x.opening = 0 THEN cur ELSE x.opening
OpenChannel(x) ==
  IF x.drop \/ x.t.dest # 0 \/ ~x.t.target THEN {x}
  ELSE LET open == [x EXCEPT !.t.dest = Asked(x), !.opening = 0]
       IN  {[x EXCEPT !.opening = Asked(x)],
            IF x.t.socks = 2 THEN Tell([open EXCEPT !.t.socks = 3], "ok") ELSE open,
            [Dropped(x) EXCEPT !.opening = 0]}

\* socket -> channel: read below the high-water mark, write, pass on the EOF.
NoMark(q)    == TRUE                                            \* (faulty)
BelowMark(q) == Len(q) < HighWater
RecvData(x) ==
  IF x.drop \/ x.t.dest = 0 \/ x.t.sockEof \/ ~BelowMark(x.t.toChannel) THEN {x}
  ELSE IF x.c.out # <<>>
  THEN {[x EXCEPT !.t.toChannel = @ \o Front(x.c.out, n), !.c.out = Rest(@, n)]
          : n \in Takes(x.c.out, Chunk)}
  ELSE {[x EXCEPT !.t.sockEof = x.c.shut /\ ~x.c.gone]}

Erase(q, n)     == Rest(q, n)
\* A full window or a busy transport is "not now", at any time.
WriteChannel(x) ==
  IF x.t.dest = 0 \/ x.t.toChannel = <<>> THEN {x}
  ELSE IF x.s.closed THEN {Dropped(x)}
  ELSE {x} \cup
       {[x EXCEPT !.t.toChannel = Erase(@, n), !.s.got = @ \o Front(x.t.toChannel, n)]
          : n \in 1 .. Len(x.t.toChannel)}
SendEof(x) ==
  IF x.t.dest # 0 /\ x.t.sockEof /\ x.t.toChannel = <<>>
  THEN [x EXCEPT !.t.sockEof = FALSE, !.s.eofs = AtMost(2, @ + 1)] ELSE x

\* X11Intake: a setup packet is kept until it is whole, its cookie checked and
\* replaced; a mismatch drops the channel.
AnyCookie(q)   == TRUE                                          \* (faulty)
CookieMatch(q) == q[2].what = "fake"
Intake(x, q) ==
  IF x.t.kind # "X" \/ x.t.ready THEN [x EXCEPT !.t.toSock = @ \o q]
  ELSE LET packet == x.t.setup \o q
       IN  IF Len(packet) < 2 THEN [x EXCEPT !.t.setup = packet]
           ELSE IF ~CookieMatch(packet) THEN Dropped([x EXCEPT !.t.setup = packet])
           ELSE [x EXCEPT !.t.setup = <<>>, !.t.ready = TRUE,
                          !.t.toSock = @ \o <<packet[1], Unit("real")>> \o Rest(packet, 2)]

\* channel -> socket.
ReadChannel(x) ==
  IF x.drop \/ x.t.dest = 0 \/ ~BelowMark(x.t.toSock) THEN {x}
  ELSE IF x.s.out # <<>>
  THEN {Intake([x EXCEPT !.s.out = Rest(@, n)], Front(x.s.out, n))
          : n \in Takes(x.s.out, Chunk)}
  ELSE {[x EXCEPT !.t.chanEof = @ \/ x.s.eof]}
SendSocket(x) ==
  IF x.t.toSock = <<>> THEN {x}
  ELSE IF x.c.gone THEN {Dropped(x)}
  ELSE IF x.c.room = 0 THEN {x}
  ELSE {[x EXCEPT !.t.toSock = Erase(@, n), !.c.got = @ \o Front(x.t.toSock, n),
           !.c.room = @ - n] : n \in Takes(x.t.toSock, x.c.room)}
EofAlone(t)   == t.chanEof                                      \* (faulty)
EofNever(t)   == FALSE                                          \* (faulty)
Drained(t)    == t.chanEof /\ t.toSock = <<>>
Finish(x) ==
  IF x.drop THEN [x EXCEPT !.t.life = "dropped"]
  ELSE IF Drained(x.t) THEN [x EXCEPT !.t.life = "closed"] ELSE x

----------------------------------------------------------------------------
(* The pass.                                                               *)

Here == [t |-> tun[cur], c |-> client[cur], s |-> server[cur], drop |-> drop,
         opening |-> opening]
Becomes(x) ==
  /\ tun' = [tun EXCEPT ![cur] = x.t] /\ client' = [client EXCEPT ![cur] = x.c]
  /\ server' = [server EXCEPT ![cur] = x.s] /\ opening' = x.opening

\* The first tunnel from i on that is in the list, 0 at its end.
From(i, f) == IF \E j \in i .. N : f[j].life = "live"
              THEN CHOOSE j \in i .. N :
                     f[j].life = "live" /\ \A k \in i .. j - 1 : f[k].life # "live"
              ELSE 0
Visit(j) == cur' = j /\ drop' = FALSE /\ at' = IF j = 0 THEN "accept" ELSE "socks"

\* AcceptForwards: every client that waits becomes a tunnel.
Accept ==
  /\ at = "accept"
  /\ tun' = [i \in Tunnels |-> IF tun[i].life = "none" /\ client[i].connected
                               THEN Accepted(i, client[i].kind) ELSE tun[i]]
  /\ Visit(From(1, tun')) /\ UNCHANGED <<client, server, opening>>

Socks ==
  /\ at = "socks" /\ \E x \in SocksRecv(Here) : Becomes(x) /\ drop' = x.drop
  /\ at' = "open" /\ UNCHANGED cur
Open ==
  /\ at = "open" /\ \E x \in OpenChannel(Here) : Becomes(x) /\ drop' = x.drop
  /\ at' = "up" /\ UNCHANGED cur
Up ==
  /\ at = "up"
  /\ \E x \in RecvData(Here) : \E y \in WriteChannel(x) :
       Becomes(SendEof(y)) /\ drop' = y.drop
  /\ at' = "down" /\ UNCHANGED cur
Down ==
  /\ at = "down"
  /\ \E x \in ReadChannel(Here) : \E y \in SendSocket(x) : Becomes(Finish(y))
  /\ Visit(From(cur + 1, tun'))

Pump == Accept \/ Socks \/ Open \/ Up \/ Down

----------------------------------------------------------------------------
(* The peers, while their connection lives.                                *)

Connected(i) == client[i].connected /\ tun[i].life \in {"none", "live"} /\ ~client[i].gone
Channel(i)   == tun[i].life = "live" /\ tun[i].dest # 0 /\ ~server[i].closed

Connects(i) ==
  /\ ~client[i].connected /\ client' = [client EXCEPT ![i].connected = TRUE]
  /\ UNCHANGED <<tun, server, opening, cur, at, drop>>

\* A SOCKS client greets, asks for a target the code can open or for one it
\* cannot, and sends its data once told "ok".
NextSaid(c) ==
  CASE c.kind = "D" /\ c.said = 0 -> {Unit("hello")}
    [] c.kind = "D" /\ c.said = 1 -> IF Len(c.got) >= 1 THEN {Unit("ask"), Unit("ask6")} ELSE {}
    [] c.kind = "D" /\ c.said = 2 /\ Len(c.got) < 2 -> {}
    [] OTHER -> {Data(n) : n \in {c.sent + 1} \cap 1 .. MaxData}
ClientSends(i) ==
  /\ Connected(i) /\ ~client[i].shut
  /\ \E u \in NextSaid(client[i]) :
       client' = [client EXCEPT ![i].out = Append(@, u), ![i].said = AtMost(2, @ + 1),
                                ![i].sent = u.n]
  /\ UNCHANGED <<tun, server, opening, cur, at, drop>>
ClientEnds(i) ==
  /\ Connected(i)
  /\ client' \in {[client EXCEPT ![i].shut = TRUE],
                  [client EXCEPT ![i].gone = TRUE, ![i].out = <<>>]}
  /\ UNCHANGED <<tun, server, opening, cur, at, drop>>
ClientReads(i) ==
  /\ Connected(i) /\ client[i].room < Room /\ client' = [client EXCEPT ![i].room = Room]
  /\ UNCHANGED <<tun, server, opening, cur, at, drop>>

\* An X11 client opens with its setup packet, here two units.
ServerSays(i) ==
  IF tun[i].kind = "X" /\ server[i].sent = 0 THEN {Unit("head")}
  ELSE IF tun[i].kind = "X" /\ server[i].sent = 1 THEN {Unit("fake"), Unit("bad")}
  ELSE {Data(n) : n \in {server[i].sent + 1} \cap 1 .. MaxData}
ServerSends(i) ==
  /\ Channel(i) /\ ~server[i].eof
  /\ \E u \in ServerSays(i) :
       server' = [server EXCEPT ![i].out = Append(@, u), ![i].sent = @ + 1,
                                ![i].cookie = IF u.what \in {"fake", "bad"} THEN u.what ELSE @]
  /\ UNCHANGED <<tun, client, opening, cur, at, drop>>
ServerEnds(i) ==
  /\ Channel(i)
  /\ server' \in {[server EXCEPT ![i].eof = TRUE],
                  [server EXCEPT ![i].eof = TRUE, ![i].closed = TRUE]}
  /\ UNCHANGED <<tun, client, opening, cur, at, drop>>

Peers(i) == \/ Connects(i) \/ ClientSends(i) \/ ClientEnds(i) \/ ServerSends(i)
            \/ ServerEnds(i) \/ ClientReads(i)

Next == Pump \/ \E i \in Tunnels : Peers(i)
Spec == Init /\ [][Next]_vars

\* The I/O loop goes on, and a client reads what it is sent or resets.  Nothing is
\* assumed of the server, nor of what either peer sends.
FairSpec == Spec /\ WF_vars(Pump) /\ \A i \in Tunnels : WF_vars(ClientReads(i))

----------------------------------------------------------------------------
Units == [what : {"hello", "ask", "ask6", "method", "ok", "head", "fake", "bad", "real",
                  "data"}, n : 0 .. MaxData]
TypeOK ==
  /\ cur \in 0 .. N /\ at \in {"accept", "socks", "open", "up", "down"}
  /\ (cur = 0) = (at = "accept") /\ opening \in 0 .. N /\ drop \in BOOLEAN
  /\ \A i \in Tunnels :
       /\ tun[i].life \in {"none", "live", "closed", "dropped"}
       /\ tun[i].socks \in 0 .. 3 /\ tun[i].dest \in 0 .. N
       /\ \A q \in {tun[i].buf, tun[i].setup, tun[i].toChannel, tun[i].toSock,
                    client[i].out, client[i].got, server[i].out, server[i].got} :
            q \in Seq(Units)
       /\ client[i].room \in 0 .. Room

\* What the server end of a forward receives is a prefix of what the local
\* program sent after the handshake: in order, once, whatever the write took,
\* and never a byte of the SOCKS handshake.
ToServerInOrder ==
  \A i \in Tunnels : \A k \in 1 .. Len(server[i].got) : server[i].got[k] = Data(k)

\* What a client hears, in order: the two SOCKS replies and only then the far
\* side's bytes.
Opening(kind) == CASE kind = "L" -> <<>>
                   [] kind = "D" -> <<Unit("method"), Unit("ok")>>
                   [] kind = "X" -> <<Unit("head"), Unit("real")>>
ToClientInOrder ==
  \A i \in Tunnels :
    LET c == client[i]  o == Opening(c.kind)
        at0 == IF c.kind = "X" THEN 0 ELSE Len(o)
    IN  \A k \in 1 .. Len(c.got) :
          c.got[k] = IF k <= Len(o) THEN o[k] ELSE Data(k - at0)

\* Nothing reaches the X display from a channel whose cookie was not checked,
\* and never the cookie the remote host was given.
CookieBeforeDisplay ==
  \A i \in Tunnels :
    tun[i].kind = "X" => /\ client[i].got # <<>> => server[i].cookie = "fake"
                         /\ \A k \in 1 .. Len(client[i].got) :
                              client[i].got[k].what \notin {"fake", "bad"}

\* A tunnel that closes because the far side is done has handed the client all
\* the far side sent.
NothingLostToClient ==
  \A i \in Tunnels :
    tun[i].life = "closed" /\ (tun[i].kind = "X" => tun[i].ready)
      => /\ server[i].out = <<>>
         /\ Len(client[i].got) = server[i].sent + (IF tun[i].kind = "D" THEN 2 ELSE 0)

\* A peer that stops reading costs one tunnel a bounded backlog: the mark and
\* one read, and the setup packet's first unit that a rewrite releases.
BacklogBounded ==
  \A i \in Tunnels : /\ Len(tun[i].toChannel) < HighWater + Chunk
                     /\ Len(tun[i].toSock) < HighWater + Chunk + 1

\* A tunnel whose far side is done ends, and its socket and channel are freed,
\* even if the far side never reads what the client still sends.
EndsAfterEof ==
  \A i \in Tunnels : (tun[i].life = "live" /\ server[i].eof) ~> (tun[i].life # "live")

\* Both streams of every tunnel arrive: in order, once, and to the far side's end.
StreamsWhole == TypeOK /\ ToServerInOrder /\ ToClientInOrder /\ NothingLostToClient

(* Statements of the repository that the code does not keep. *)

\* session.cpp:175, socksState is "'D': 0 greeting, 1 request, 2 open", and
\* docs/manual/manual.html:327, an L forward joins a local port to a remote one:
\* no byte of an L client is taken for a SOCKS handshake.
SocksOnlyForD ==
  \A i \in Tunnels : tun[i].kind = "L" => tun[i].buf = <<>>

\* session.cpp:173, pendingHost is the "direct-tcpip target while opening": a
\* tunnel's channel leads to the target of its own listener or request.
TunnelReachesItsTarget == \A i \in Tunnels : tun[i].dest \in {0, i}
=============================================================================
