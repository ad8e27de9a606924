----------------------------- MODULE TunnelProofs -----------------------------
(***************************************************************************)
(* Theorems about Tunnel, for any number of tunnels and any sizes: both    *)
(* streams of every tunnel arrive whole and in order, however the calls    *)
(* split them and whatever the peers do meanwhile; no X11 channel reaches  *)
(* the display before its cookie is checked; a backlog is bounded.         *)
(***************************************************************************)
EXTENDS Tunnel, SequenceTheorems, WellFoundedInduction, TLAPS

Kinds == {"L", "D", "X"}
Lives == {"none", "live", "closed", "dropped"}

TunnelRecs ==
  [life : Lives, kind : Kinds, socks : 0 .. 3, target : BOOLEAN, dest : 0 .. N,
   buf : Seq(Units), setup : Seq(Units), ready : BOOLEAN, toChannel : Seq(Units),
   toSock : Seq(Units), sockEof : BOOLEAN, chanEof : BOOLEAN]
ClientRecs ==
  [kind : Kinds, connected : BOOLEAN, said : 0 .. 2, out : Seq(Units), sent : Nat,
   shut : BOOLEAN, gone : BOOLEAN, room : 0 .. Room, got : Seq(Units)]
ServerRecs ==
  [out : Seq(Units), sent : Nat, cookie : {"none", "fake", "bad"}, eof : BOOLEAN,
   closed : BOOLEAN, got : Seq(Units), eofs : 0 .. 2]

\* What the channel was given, and with it what the client still has to give; what
\* the client was given, and with it all that is on its way from the far side.
Sent(t, s)          == s.got \o t.toChannel
UpStream(t, c, s)   == Sent(t, s) \o c.out
Heard(t, c)         == c.got \o t.toSock
DownStream(t, c, s) == (Heard(t, c) \o t.setup) \o s.out

\* The replies a client has been told, and what it hears at each place.
Told(t, c)      == IF c.kind # "D" THEN 0
                   ELSE CASE t.socks = 0 -> 0 [] t.socks \in {1, 2} -> 1 [] t.socks = 3 -> 2
Word(t, c, s, k) ==
  CASE c.kind = "L" -> Data(k)
    [] c.kind = "D" /\ k = 1 -> Unit("method")
    [] c.kind = "D" /\ k = 2 -> Unit("ok")
    [] c.kind = "D" /\ k > 2 -> Data(k - 2)
    [] c.kind = "X" /\ k = 1 -> Unit("head")
    [] c.kind = "X" /\ k = 2 -> Unit(IF t.ready THEN "real" ELSE s.cookie)
    [] c.kind = "X" /\ k > 2 -> Data(k)

\* The tunnel's record and its client's are of one kind.
KindInv(t, c) ==
  /\ t.life = "none" => t = NoTunnel
  /\ t.life # "none" => t.kind = c.kind
  /\ t.dest = 0 => c.kind # "X" \/ t.life = "none"

\* How far the SOCKS handshake is, in what the client said and was told.  What is
\* taken of a client and is no step of it dooms the tunnel in the same pass.
HandInv(t, c, s, d) ==
  /\ t.buf # <<>> /\ t.life = "live" => d
  /\ c.kind = "L" => t.socks = 0
  /\ c.kind = "X" => t.buf = <<>> /\ (t.life # "none" => t.socks = 3)
  /\ c.kind = "D" =>
       /\ t.target <=> t.socks >= 2
       /\ t.dest # 0 <=> t.socks = 3
       /\ t.socks < 3 => c.sent = 0
       /\ t.socks = 0 => c.said <= 1 /\ t.buf = <<>> /\ c.out \in {<<>>, <<Unit("hello")>>}
       /\ c.said = 0 => c.out = <<>> /\ t.socks = 0
       /\ t.socks = 1 => c.out \in {<<>>, <<Unit("ask")>>, <<Unit("ask6")>>}
       /\ t.socks = 1 /\ c.said = 1 => c.out = <<>>
       /\ t.socks >= 2 => c.said = 2
       /\ t.socks = 2 => c.out = <<>>
       /\ t.buf # <<>> => t.socks = 1 /\ c.said = 2
\* Before its channel is open a tunnel carries nothing.
IdleInv(t, c, s) ==
  t.dest = 0 => /\ t.toChannel = <<>> /\ t.toSock = <<>> /\ t.setup = <<>> /\ ~t.ready
                /\ s.got = <<>> /\ s.out = <<>> /\ s.sent = 0 /\ ~t.chanEof

\* Towards the server: what was written and will be is the client's data from the
\* first unit on, and with what the client still holds it is all of it.
Flowing(t, c) == ~c.gone /\ t.buf = <<>> /\ (c.kind = "D" => t.socks = 3)
UpInv(t, c, s) ==
  /\ c.gone => c.out = <<>>
  /\ \A k \in 1 .. Len(Sent(t, s)) : Sent(t, s)[k] = Data(k)
  /\ Flowing(t, c) => /\ Len(UpStream(t, c, s)) = c.sent
                      /\ \A k \in 1 .. Len(UpStream(t, c, s)) : UpStream(t, c, s)[k] = Data(k)

\* Towards the client: nothing is missing, and each unit has its place.
DownInv(t, c, s) ==
  /\ Len(DownStream(t, c, s)) = Told(t, c) + s.sent
  /\ \A k \in 1 .. Len(DownStream(t, c, s)) : DownStream(t, c, s)[k] = Word(t, c, s, k)
  /\ c.kind # "X" \/ t.ready => t.setup = <<>>
  /\ c.kind = "X" /\ ~t.ready => c.got = <<>> /\ t.toSock = <<>>
  /\ c.kind = "X" /\ t.ready => s.cookie = "fake" /\ s.sent >= 2

\* The far side's end is seen when nothing of it is left, and closing waits for
\* the client to have the rest.
EndInv(t, c, s) ==
  /\ t.chanEof => s.eof /\ s.out = <<>>
  /\ t.life = "closed" => t.chanEof /\ t.toSock = <<>>

BoundInv(t, d) ==
  /\ Len(t.toChannel) < HighWater + Chunk /\ Len(t.toSock) < HighWater + Chunk + 1
  /\ t.life = "live" /\ ~d => Len(t.setup) < 2

Sound(t, c, s, d) ==
  /\ t \in TunnelRecs /\ c \in ClientRecs /\ s \in ServerRecs
  /\ KindInv(t, c) /\ HandInv(t, c, s, d) /\ IdleInv(t, c, s)
  /\ UpInv(t, c, s) /\ DownInv(t, c, s) /\ EndInv(t, c, s) /\ BoundInv(t, d)

\* The tunnel being pumped is in the list, and a tunnel is doomed only while it is.
PassInv ==
  /\ cur \in 0 .. N /\ at \in {"accept", "socks", "open", "up", "down"}
  /\ (cur = 0) = (at = "accept") /\ opening \in 0 .. N /\ drop \in BOOLEAN
  /\ at \in {"accept", "socks"} => ~drop
  /\ cur # 0 => tun[cur].life = "live"
  /\ tun \in [Tunnels -> TunnelRecs] /\ client \in [Tunnels -> ClientRecs]
  /\ server \in [Tunnels -> ServerRecs]
Doomed(i) == drop /\ cur = i
Inv == PassInv /\ \A i \in Tunnels : Sound(tun[i], client[i], server[i], Doomed(i))

\* What the pass works on.
Passes == [t : TunnelRecs, c : ClientRecs, s : ServerRecs, drop : BOOLEAN, opening : 0 .. N]
Good(x) == Sound(x.t, x.c, x.s, x.drop)

----------------------------------------------------------------------------
(* Sequences cut and joined.                                               *)

\* A set of numbers that is not empty has a least one.
LEMMA Least == ASSUME NEW T, T \subseteq Nat, T # {} PROVE \E m \in T : \A k \in T : m <= k
<1> DEFINE R == OpToRel(<, Nat)
<1>1. IsWellFoundedOn(R, Nat)
  BY NatLessThanWellFounded, Zenon
<1>2. \A y, z \in Nat : y < z => <<y, z>> \in R
  BY Zenon DEF OpToRel
<1> HIDE DEF R
<1>3. PICK x \in T : \A y \in T : ~(<<y, x>> \in R)
  BY <1>1, WFMin, Zenon
<1>4. \A y \in T : y \in Nat /\ ~(y < x) /\ x \in Nat
  BY <1>2, <1>3
<1> QED
  BY <1>3, <1>4

\* What a call takes and what it leaves.
LEMMA Cut ==
  ASSUME NEW S, NEW q \in Seq(S), NEW n \in 1 .. Len(q)
  PROVE  /\ Front(q, n) \in Seq(S) /\ Len(Front(q, n)) = n
         /\ Rest(q, n) \in Seq(S) /\ Len(Rest(q, n)) = Len(q) - n
         /\ \A k \in 1 .. n : Front(q, n)[k] = q[k]
         /\ \A k \in 1 .. Len(q) - n : Rest(q, n)[k] = q[k + n]
         /\ Front(q, n) \o Rest(q, n) = q
<1>1. /\ Front(q, n) \in Seq(S) /\ Len(Front(q, n)) = n
      /\ \A k \in 1 .. n : Front(q, n)[k] = q[k]
  BY DEF Front
<1>2. /\ Rest(q, n) \in Seq(S) /\ Len(Rest(q, n)) = Len(q) - n
      /\ \A k \in 1 .. Len(q) - n : Rest(q, n)[k] = q[k + n]
  BY DEF Rest
<1>3. Front(q, n) \o Rest(q, n) = q
  <2>1. n \in Nat /\ n \in 0 .. Len(q) /\ Len(q) \in Len(q) .. Len(q) /\ Len(q) \in n .. Len(q)
        /\ 1 \in 1 .. Len(q) + 1
    BY LenProperties
  <2>2. SubSeq(q, 1, n) \o SubSeq(q, n + 1, Len(q)) = SubSeq(q, 1, Len(q))
    BY <2>1, ConcatAdjacentSubSeq
  <2> QED
    BY <2>2, SubSeqFull DEF Front, Rest
<1> QED
  BY <1>1, <1>2, <1>3

\* Sequences of units joined.
LEMMA Joins ==
  /\ \A p, q \in Seq(Units) : /\ p \o q \in Seq(Units) /\ Len(p \o q) = Len(p) + Len(q)
                              /\ Len(p) \in Nat /\ Len(q) \in Nat
                              /\ \A k \in 1 .. Len(p) : (p \o q)[k] = p[k]
                              /\ \A k \in 1 .. Len(q) : (p \o q)[Len(p) + k] = q[k]
  /\ \A p \in Seq(Units) : p \o <<>> = p /\ <<>> \o p = p
  OBVIOUS

\* What a sequence is in one that it leads.
LEMMA Leads ==
  \A p, q \in Seq(Units) : /\ Len(p) <= Len(p \o q) /\ Len(p) \in Nat
                            /\ \A k \in 1 .. Len(p) : (p \o q)[k] = p[k]
  OBVIOUS

LEMMA Assoc == \A p, q, r \in Seq(Units) : (p \o q) \o r = p \o (q \o r)
  OBVIOUS

\* Moving the front of the second of two sequences to the first changes nothing of
\* what they make together.
LEMMA Moved ==
  ASSUME NEW p \in Seq(Units), NEW q \in Seq(Units), NEW n \in 1 .. Len(q)
  PROVE  (p \o Front(q, n)) \o Rest(q, n) = p \o q
<1>1. Front(q, n) \in Seq(Units) /\ Rest(q, n) \in Seq(Units)
  BY Cut
<1>2. (p \o Front(q, n)) \o Rest(q, n) = p \o (Front(q, n) \o Rest(q, n))
  BY <1>1, Assoc
<1>3. Front(q, n) \o Rest(q, n) = q
  BY Cut
<1> QED
  BY <1>2, <1>3

\* A unit more at the end of the second of two.
LEMMA Extended ==
  ASSUME NEW p \in Seq(Units), NEW q \in Seq(Units), NEW e \in Units
  PROVE  /\ p \o Append(q, e) = Append(p \o q, e) /\ Append(q, e) \in Seq(Units)
         /\ Len(Append(q, e)) = Len(q) + 1
<1>1. Append(q, e) = q \o <<e>> /\ Append(p \o q, e) = (p \o q) \o <<e>>
      /\ <<e>> \in Seq(Units) /\ Append(q, e) \in Seq(Units)
      /\ Len(Append(q, e)) = Len(q) + 1
  OBVIOUS
<1>2. p \o (q \o <<e>>) = (p \o q) \o <<e>>
  BY <1>1, Assoc
<1> QED
  BY <1>1, <1>2

\* A unit of each kind.
LEMMA UnitIn ==
  /\ \A w \in {"hello", "ask", "ask6", "method", "ok", "head", "fake", "bad", "real"} :
       Unit(w) \in Units
  /\ \A n \in 0 .. MaxData : Data(n) \in Units
  BY TunnelAssumption DEF Unit, Data, Units

----------------------------------------------------------------------------
(* One call at a time.                                                     *)

\* The parts of what a pass works on.
LEMMA Parts ==
  ASSUME NEW x \in Passes
  PROVE  /\ x.t \in TunnelRecs /\ x.c \in ClientRecs /\ x.s \in ServerRecs
         /\ x.drop \in BOOLEAN /\ x.opening \in 0 .. N
  BY DEF Passes

\* The streams are sequences of units.
LEMMA Streams ==
  ASSUME NEW t \in TunnelRecs, NEW c \in ClientRecs, NEW s \in ServerRecs
  PROVE  /\ Sent(t, s) \in Seq(Units) /\ UpStream(t, c, s) \in Seq(Units)
         /\ Heard(t, c) \in Seq(Units) /\ DownStream(t, c, s) \in Seq(Units)
         /\ t.buf \in Seq(Units) /\ t.setup \in Seq(Units)
         /\ t.toChannel \in Seq(Units) /\ t.toSock \in Seq(Units)
         /\ c.out \in Seq(Units) /\ c.got \in Seq(Units)
         /\ s.out \in Seq(Units) /\ s.got \in Seq(Units)
<1>1. /\ t.buf \in Seq(Units) /\ t.setup \in Seq(Units)
      /\ t.toChannel \in Seq(Units) /\ t.toSock \in Seq(Units)
      /\ c.out \in Seq(Units) /\ c.got \in Seq(Units)
      /\ s.out \in Seq(Units) /\ s.got \in Seq(Units)
  BY DEF TunnelRecs, ClientRecs, ServerRecs
<1>2. \A p, q \in Seq(Units) : p \o q \in Seq(Units)
  OBVIOUS
<1> QED
  BY <1>1, <1>2 DEF Sent, UpStream, Heard, DownStream

\* A tunnel that goes on without having been doomed.
Live(x) == x.t.life = "live" /\ ~x.drop

\* The data a read takes of the client is the next data.
LEMMA RecvTakes ==
  ASSUME NEW x \in Passes, Good(x), x.t.life = "live", ~x.drop, x.t.dest # 0,
         BelowMark(x.t.toChannel), x.c.out # <<>>, NEW n \in Takes(x.c.out, Chunk),
         NEW y, y = [x EXCEPT !.t.toChannel = @ \o Front(x.c.out, n), !.c.out = Rest(@, n)]
  PROVE  y \in Passes /\ Good(y) /\ y.t.life = "live"
<1> DEFINE t == x.t
           c == x.c
           s == x.s
           f == Front(c.out, n)
           r == Rest(c.out, n)
           t2 == [t EXCEPT !.toChannel = @ \o f]
           c2 == [c EXCEPT !.out = r]
<1>1. t \in TunnelRecs /\ c \in ClientRecs /\ s \in ServerRecs
  BY Parts
<1>2. y.t = t2 /\ y.c = c2 /\ y.s = s /\ y.drop = x.drop /\ y.opening = x.opening
  BY DEF Passes
<1>3. /\ f \in Seq(Units) /\ r \in Seq(Units) /\ Len(f) = n /\ n \in 1 .. Len(c.out)
      /\ n <= Chunk /\ n \in Nat
  <2>1. c.out \in Seq(Units) /\ n \in 1 .. Len(c.out) /\ n <= Chunk
    BY <1>1, Streams, TunnelAssumption DEF Takes, AtMost
  <2> QED
    BY <2>1, Cut
<1> HIDE DEF f, r
<1>4. t.toChannel \in Seq(Units) /\ t.toChannel \o f \in Seq(Units)
      /\ Len(t.toChannel \o f) = Len(t.toChannel) + n
  <2>1. t.toChannel \in Seq(Units)
    BY <1>1, Streams
  <2> QED
    BY <1>3, <2>1, Joins
<1>5. /\ t2 \in TunnelRecs /\ t2.toChannel = t.toChannel \o f
      /\ t2.life = t.life /\ t2.kind = t.kind /\ t2.socks = t.socks /\ t2.target = t.target
      /\ t2.dest = t.dest /\ t2.buf = t.buf /\ t2.setup = t.setup /\ t2.ready = t.ready
      /\ t2.toSock = t.toSock /\ t2.chanEof = t.chanEof
  BY <1>1, <1>4 DEF TunnelRecs
<1>6. /\ c2 \in ClientRecs /\ c2.out = r /\ c2.kind = c.kind /\ c2.said = c.said
      /\ c2.sent = c.sent /\ c2.gone = c.gone /\ c2.got = c.got
  BY <1>1, <1>3 DEF ClientRecs
<1> HIDE DEF t2, c2
<1>7. y \in Passes
  BY <1>2, <1>5, <1>6 DEF Passes
<1>8. /\ KindInv(t, c) /\ HandInv(t, c, s, x.drop) /\ IdleInv(t, c, s) /\ UpInv(t, c, s)
      /\ DownInv(t, c, s) /\ EndInv(t, c, s) /\ BoundInv(t, x.drop)
  BY DEF Good, Sound
<1>9. Flowing(t, c)
  BY <1>8 DEF Flowing, UpInv, HandInv
<1>10. UpStream(t2, c2, s) = UpStream(t, c, s) /\ Sent(t2, s) = Sent(t, s) \o f
  <2>1. s.got \in Seq(Units)
    BY <1>1, Streams
  <2>2. s.got \o (t.toChannel \o f) = (s.got \o t.toChannel) \o f
    BY <1>3, <1>4, <2>1, Assoc
  <2>3. ((s.got \o t.toChannel) \o f) \o r = (s.got \o t.toChannel) \o c.out
    <3>1. s.got \o t.toChannel \in Seq(Units) /\ c.out \in Seq(Units)
      BY <1>1, Streams DEF Sent
    <3> QED
      BY <1>3, <3>1, Moved DEF f, r
  <2> QED
    BY <1>5, <1>6, <2>2, <2>3 DEF UpStream, Sent
<1>11. \A k \in 1 .. Len(Sent(t2, s)) : Sent(t2, s)[k] = Data(k)
  <2>1. \A k \in 1 .. Len(UpStream(t2, c2, s)) : UpStream(t2, c2, s)[k] = Data(k)
    BY <1>8, <1>9, <1>10 DEF UpInv
  <2>2. Sent(t2, s) \in Seq(Units) /\ r \in Seq(Units)
    BY <1>1, <1>3, <1>5, Streams
  <2> QED
    BY <1>6, <2>1, <2>2, Joins DEF UpStream
<1>12. UpInv(t2, c2, s)
  BY <1>5, <1>6, <1>8, <1>9, <1>10, <1>11 DEF UpInv, Flowing
<1>13. KindInv(t2, c2) /\ IdleInv(t2, c2, s) /\ EndInv(t2, c2, s)
  <2>1. KindInv(t2, c2)
    BY <1>5, <1>6, <1>8 DEF KindInv
  <2>2. IdleInv(t2, c2, s)
    BY <1>5 DEF IdleInv
  <2>3. EndInv(t2, c2, s)
    BY <1>5, <1>8 DEF EndInv
  <2> QED
    BY <2>1, <2>2, <2>3
<1>14. HandInv(t2, c2, s, x.drop)
  BY <1>5, <1>6, <1>8 DEF HandInv
<1>15. DownInv(t2, c2, s)
  <2>1. DownStream(t2, c2, s) = DownStream(t, c, s) /\ Told(t2, c2) = Told(t, c)
    BY <1>5, <1>6 DEF DownStream, Heard, Told
  <2>2. \A k : Word(t2, c2, s, k) = Word(t, c, s, k)
    BY <1>5, <1>6 DEF Word
  <2> QED
    BY <1>5, <1>6, <1>8, <2>1, <2>2 DEF DownInv
<1>16. BoundInv(t2, x.drop)
  BY <1>1, <1>3, <1>4, <1>5, <1>8, TunnelAssumption, LenProperties, SMTT(30)
  DEF BoundInv, BelowMark
<1> QED
  BY <1>1, <1>2, <1>5, <1>6, <1>7, <1>12, <1>13, <1>14, <1>15, <1>16 DEF Good, Sound

\* What a pass has in hand of the tunnel it pumps.
InPass(x) == x \in Passes /\ Good(x) /\ x.t.life = "live"

LEMMA GoodParts ==
  ASSUME NEW x, Good(x)
  PROVE  /\ KindInv(x.t, x.c) /\ HandInv(x.t, x.c, x.s, x.drop) /\ IdleInv(x.t, x.c, x.s)
         /\ UpInv(x.t, x.c, x.s) /\ DownInv(x.t, x.c, x.s) /\ EndInv(x.t, x.c, x.s)
         /\ BoundInv(x.t, x.drop)
  BY DEF Good, Sound

\* Dooming a tunnel changes nothing else of it.
LEMMA Dooms ==
  ASSUME NEW x, InPass(x)
  PROVE  /\ InPass(Dropped(x)) /\ Dropped(x).drop
         /\ Dropped(x).t = x.t /\ Dropped(x).c = x.c /\ Dropped(x).s = x.s
<1>1. x \in Passes /\ Good(x) /\ x.t.life = "live"
  BY DEF InPass
<1>2. /\ Dropped(x) \in Passes /\ Dropped(x).drop
      /\ Dropped(x).t = x.t /\ Dropped(x).c = x.c /\ Dropped(x).s = x.s
  BY <1>1 DEF Dropped, Passes
<1>3. HandInv(x.t, x.c, x.s, TRUE) /\ BoundInv(x.t, TRUE)
  BY <1>1, GoodParts DEF HandInv, BoundInv
<1>4. Dropped(x).drop = TRUE
  BY DEF Dropped, Passes, InPass
<1> QED
  BY <1>1, <1>2, <1>3, <1>4 DEF Good, Sound, InPass

Shut(t, b)    == [t EXCEPT !.sockEof = b]
Counted(s, e) == [s EXCEPT !.eofs = e]

\* No invariant looks at sockEof, at what the server did with the ends, or at
\* which tunnel is opening.
LEMMA Unseen ==
  ASSUME NEW x, InPass(x), NEW y \in Passes, y.drop = x.drop, y.c = x.c,
         NEW b \in BOOLEAN, NEW e \in 0 .. 2,
         y.t = Shut(x.t, b), y.s = Counted(x.s, e)
  PROVE  InPass(y)
<1>1. x.t \in TunnelRecs /\ x.c \in ClientRecs /\ x.s \in ServerRecs /\ Good(x)
      /\ x.t.life = "live"
  BY Parts DEF InPass
<1> DEFINE t == y.t
           c == y.c
           s == y.s
<1>2. /\ t \in TunnelRecs /\ t.toChannel = x.t.toChannel
      /\ t.life = x.t.life /\ t.kind = x.t.kind /\ t.socks = x.t.socks
      /\ t.target = x.t.target /\ t.dest = x.t.dest /\ t.buf = x.t.buf
      /\ t.setup = x.t.setup /\ t.ready = x.t.ready
      /\ t.toSock = x.t.toSock /\ t.chanEof = x.t.chanEof
  BY <1>1 DEF TunnelRecs, Shut
<1>3. /\ s \in ServerRecs /\ s.out = x.s.out /\ s.sent = x.s.sent /\ s.cookie = x.s.cookie
      /\ s.eof = x.s.eof /\ s.got = x.s.got
  BY <1>1 DEF ServerRecs, Counted
<1>4. c = x.c /\ c \in ClientRecs
  BY <1>1
<1> HIDE DEF t, c, s
<1>5. KindInv(t, c) /\ IdleInv(t, c, s) /\ EndInv(t, c, s) /\ BoundInv(t, y.drop)
  <2>1. KindInv(t, c)
    BY <1>1, <1>2, <1>4, GoodParts DEF KindInv
  <2>2. IdleInv(t, c, s)
    <3>1. IdleInv(x.t, x.c, x.s)
      BY <1>1, GoodParts
    <3> QED
      BY <1>2, <1>3, <3>1 DEF IdleInv
  <2>3. EndInv(t, c, s) /\ BoundInv(t, y.drop)
    BY <1>1, <1>2, <1>3, <1>4, GoodParts DEF EndInv, BoundInv
  <2> QED
    BY <2>1, <2>2, <2>3
<1>6. HandInv(t, c, s, y.drop)
  BY <1>1, <1>2, <1>3, <1>4, GoodParts DEF HandInv
<1>7. UpInv(t, c, s)
  <2>1. Sent(t, s) = Sent(x.t, x.s) /\ UpStream(t, c, s) = UpStream(x.t, x.c, x.s)
    BY <1>2, <1>3, <1>4 DEF Sent, UpStream
  <2>2. Flowing(t, c) <=> Flowing(x.t, x.c)
    BY <1>2, <1>4 DEF Flowing
  <2>3. UpInv(x.t, x.c, x.s)
    BY <1>1, GoodParts
  <2> QED
    BY <1>4, <2>1, <2>2, <2>3 DEF UpInv
<1>8. DownInv(t, c, s)
  <2>1. DownStream(t, c, s) = DownStream(x.t, x.c, x.s) /\ Told(t, c) = Told(x.t, x.c)
    BY <1>2, <1>3, <1>4 DEF DownStream, Heard, Told
  <2>2. \A k : Word(t, c, s, k) = Word(x.t, x.c, x.s, k)
    BY <1>2, <1>3, <1>4 DEF Word
  <2> QED
    BY <1>1, <1>2, <1>3, <1>4, <2>1, <2>2, GoodParts DEF DownInv
<1> QED
  BY <1>1, <1>2, <1>3, <1>4, <1>5, <1>6, <1>7, <1>8 DEF InPass, Good, Sound, t, c, s

\* A read of the socket.
LEMMA Receives == ASSUME NEW x, InPass(x), NEW y \in RecvData(x) PROVE InPass(y)
<1>1. x \in Passes /\ Good(x) /\ x.t.life = "live"
      /\ x.t \in TunnelRecs /\ x.c \in ClientRecs /\ x.s \in ServerRecs
  BY Parts DEF InPass
<1>2. CASE x.drop \/ x.t.dest = 0 \/ x.t.sockEof \/ ~BelowMark(x.t.toChannel)
  BY <1>2 DEF RecvData
<1>3. CASE ~x.drop /\ x.t.dest # 0 /\ BelowMark(x.t.toChannel) /\ ~x.t.sockEof /\ x.c.out # <<>>
  <2>1. PICK n \in Takes(x.c.out, Chunk) :
          y = [x EXCEPT !.t.toChannel = @ \o Front(x.c.out, n), !.c.out = Rest(@, n)]
    BY <1>3 DEF RecvData
  <2> QED
    BY <1>1, <1>3, <2>1, RecvTakes DEF InPass
<1>4. CASE ~x.drop /\ x.t.dest # 0 /\ BelowMark(x.t.toChannel) /\ ~x.t.sockEof /\ x.c.out = <<>>
  <2> DEFINE b == x.c.shut /\ ~x.c.gone
  <2>1. y = [x EXCEPT !.t.sockEof = b] /\ b \in BOOLEAN
    BY <1>1, <1>4 DEF RecvData, ClientRecs
  <2> HIDE DEF b
  <2>2. /\ y.t = Shut(x.t, b) /\ y.c = x.c /\ y.s = x.s /\ y.drop = x.drop
        /\ y \in Passes
    BY <1>1, <2>1 DEF Passes, TunnelRecs, Shut
  <2>3. y.s = Counted(x.s, x.s.eofs) /\ x.s.eofs \in 0 .. 2
    BY <1>1, <2>2 DEF ServerRecs, Counted
  <2> QED
    BY <2>1, <2>2, <2>3, Unseen
<1> QED
  BY <1>2, <1>3, <1>4

\* A write moves the front of the buffer to the channel.
LEMMA WriteTakes ==
  ASSUME NEW x, InPass(x), x.t.dest # 0, NEW n \in 1 .. Len(x.t.toChannel),
         NEW y, y = [x EXCEPT !.t.toChannel = Erase(@, n),
                              !.s.got = @ \o Front(x.t.toChannel, n)]
  PROVE  InPass(y)
<1> DEFINE t == x.t
           c == x.c
           s == x.s
           f == Front(t.toChannel, n)
           r == Rest(t.toChannel, n)
           t2 == [t EXCEPT !.toChannel = r]
           s2 == [s EXCEPT !.got = @ \o f]
<1>1. t \in TunnelRecs /\ c \in ClientRecs /\ s \in ServerRecs /\ Good(x) /\ t.life = "live"
      /\ x \in Passes
  BY Parts DEF InPass
<1>2. y.t = t2 /\ y.c = c /\ y.s = s2 /\ y.drop = x.drop /\ y.opening = x.opening
  BY <1>1 DEF Passes, Erase
<1>3. /\ f \in Seq(Units) /\ r \in Seq(Units) /\ Len(r) = Len(t.toChannel) - n
      /\ t.toChannel \in Seq(Units)
  BY <1>1, Streams, Cut
<1> HIDE DEF f, r
<1>4. s.got \in Seq(Units) /\ s.got \o f \in Seq(Units)
  BY <1>1, <1>3, Streams, Joins
<1>5. /\ t2 \in TunnelRecs /\ t2.toChannel = r
      /\ t2.life = t.life /\ t2.kind = t.kind /\ t2.socks = t.socks /\ t2.target = t.target
      /\ t2.dest = t.dest /\ t2.buf = t.buf /\ t2.setup = t.setup /\ t2.ready = t.ready
      /\ t2.toSock = t.toSock /\ t2.chanEof = t.chanEof
  BY <1>1, <1>3 DEF TunnelRecs
<1>6. /\ s2 \in ServerRecs /\ s2.out = s.out /\ s2.sent = s.sent /\ s2.cookie = s.cookie
      /\ s2.eof = s.eof /\ s2.got = s.got \o f
  BY <1>1, <1>4 DEF ServerRecs
<1> HIDE DEF t2, s2
<1>7. y \in Passes
  BY <1>1, <1>2, <1>5, <1>6 DEF Passes
<1>8. /\ KindInv(t, c) /\ HandInv(t, c, s, x.drop) /\ IdleInv(t, c, s) /\ UpInv(t, c, s)
      /\ DownInv(t, c, s) /\ EndInv(t, c, s) /\ BoundInv(t, x.drop)
  BY <1>1, GoodParts
<1>9. Sent(t2, s2) = Sent(t, s)
  <2>1. (s.got \o Front(t.toChannel, n)) \o Rest(t.toChannel, n) = s.got \o t.toChannel
    BY <1>3, <1>4, Moved
  <2> QED
    BY <1>5, <1>6, <2>1 DEF Sent, f, r
<1>10. UpInv(t2, c, s2)
  BY <1>5, <1>6, <1>8, <1>9 DEF UpInv, Flowing, UpStream
<1>11. KindInv(t2, c) /\ IdleInv(t2, c, s2) /\ EndInv(t2, c, s2)
  <2>1. KindInv(t2, c)
    BY <1>1, <1>5, <1>8 DEF KindInv
  <2>2. IdleInv(t2, c, s2)
    BY <1>5 DEF IdleInv
  <2>3. EndInv(t2, c, s2)
    BY <1>5, <1>6, <1>8 DEF EndInv
  <2> QED
    BY <2>1, <2>2, <2>3
<1>12. HandInv(t2, c, s2, x.drop)
  BY <1>5, <1>6, <1>8 DEF HandInv
<1>13. DownInv(t2, c, s2)
  <2>1. DownStream(t2, c, s2) = DownStream(t, c, s) /\ Told(t2, c) = Told(t, c)
    BY <1>5, <1>6 DEF DownStream, Heard, Told
  <2>2. \A k : Word(t2, c, s2, k) = Word(t, c, s, k)
    BY <1>5, <1>6 DEF Word
  <2> QED
    BY <1>5, <1>6, <1>8, <2>1, <2>2 DEF DownInv
<1>14. BoundInv(t2, x.drop)
  BY <1>3, <1>5, <1>8, LenProperties, TunnelAssumption, SMTT(30) DEF BoundInv
<1> QED
  BY <1>1, <1>2, <1>5, <1>6, <1>7, <1>10, <1>11, <1>12, <1>13, <1>14 DEF InPass, Good, Sound

LEMMA Writes == ASSUME NEW x, InPass(x), NEW y \in WriteChannel(x) PROVE InPass(y)
<1>1. CASE y = x
  BY <1>1
<1>2. CASE y = Dropped(x)
  BY <1>2, Dooms
<1>3. CASE /\ x.t.dest # 0
           /\ \E n \in 1 .. Len(x.t.toChannel) :
                y = [x EXCEPT !.t.toChannel = Erase(@, n),
                              !.s.got = @ \o Front(x.t.toChannel, n)]
  BY <1>3, WriteTakes
<1> QED
  BY <1>1, <1>2, <1>3 DEF WriteChannel

LEMMA Ends == ASSUME NEW x, InPass(x) PROVE InPass(SendEof(x))
<1>1. x \in Passes /\ x.t \in TunnelRecs /\ x.c \in ClientRecs /\ x.s \in ServerRecs
  BY Parts DEF InPass
<1>2. CASE SendEof(x) = x
  BY <1>2
<1>3. CASE SendEof(x) # x
  <2> DEFINE y == SendEof(x)
             e == AtMost(2, x.s.eofs + 1)
  <2>1. y = [x EXCEPT !.t.sockEof = FALSE, !.s.eofs = e]
    BY <1>3 DEF SendEof
  <2>2. e \in 0 .. 2
    BY <1>1 DEF AtMost, ServerRecs
  <2> HIDE DEF y, e
  <2>3. /\ y.t = [x.t EXCEPT !.sockEof = FALSE] /\ y.c = x.c
        /\ y.s = [x.s EXCEPT !.eofs = e] /\ y.drop = x.drop /\ y.opening = x.opening
    BY <1>1, <2>1 DEF Passes
  <2>4. y.t \in TunnelRecs /\ y.s \in ServerRecs
    BY <1>1, <2>2, <2>3 DEF TunnelRecs, ServerRecs
  <2>5. y \in Passes
    BY <1>1, <2>1, <2>3, <2>4 DEF Passes
  <2>6. y.t = Shut(x.t, FALSE) /\ y.s = Counted(x.s, e) /\ FALSE \in BOOLEAN
    BY <2>3 DEF Shut, Counted
  <2>7. InPass(y)
    BY <2>2, <2>3, <2>5, <2>6, Unseen
  <2> QED
    BY <2>7 DEF y
<1> QED
  BY <1>2, <1>3

\* What a read of the channel may leave of the tunnel, whatever the intake made of
\* it: the rest of the invariant does not look there.
ReadOnly(x, y) ==
  /\ y.c = x.c /\ y.s.got = x.s.got /\ (x.drop => y.drop)
  /\ y.t.life = x.t.life /\ y.t.kind = x.t.kind /\ y.t.socks = x.t.socks
  /\ y.t.target = x.t.target /\ y.t.dest = x.t.dest /\ y.t.buf = x.t.buf
  /\ y.t.toChannel = x.t.toChannel

LEMMA ReadKeeps ==
  ASSUME NEW x, InPass(x), x.t.dest # 0, NEW y \in Passes, ReadOnly(x, y),
         DownInv(y.t, y.c, y.s), EndInv(y.t, y.c, y.s), BoundInv(y.t, y.drop)
  PROVE  InPass(y)
<1> DEFINE t == y.t
           c == y.c
           s == y.s
<1>1. Good(x) /\ x.t.life = "live" /\ t \in TunnelRecs /\ c \in ClientRecs /\ s \in ServerRecs
  BY Parts DEF InPass
<1>2. /\ t.toChannel = x.t.toChannel
      /\ t.life = x.t.life /\ t.kind = x.t.kind /\ t.socks = x.t.socks
      /\ t.target = x.t.target /\ t.dest = x.t.dest /\ t.buf = x.t.buf
      /\ c = x.c /\ s.got = x.s.got /\ (x.drop => y.drop)
  BY DEF ReadOnly
<1>3. DownInv(t, c, s) /\ EndInv(t, c, s) /\ BoundInv(t, y.drop)
  OBVIOUS
<1> HIDE DEF t, c, s
<1>4. KindInv(t, c)
  BY <1>1, <1>2, GoodParts DEF KindInv
<1>5. IdleInv(t, c, s)
  BY <1>2 DEF IdleInv
<1>6. HandInv(t, c, s, y.drop)
  BY <1>1, <1>2, GoodParts DEF HandInv
<1>7. UpInv(t, c, s)
  <2>1. Sent(t, s) = Sent(x.t, x.s) /\ UpStream(t, c, s) = UpStream(x.t, x.c, x.s)
    BY <1>2 DEF Sent, UpStream
  <2>2. Flowing(t, c) <=> Flowing(x.t, x.c)
    BY <1>2 DEF Flowing
  <2>3. UpInv(x.t, x.c, x.s)
    BY <1>1, GoodParts
  <2> QED
    BY <1>2, <2>1, <2>2, <2>3 DEF UpInv
<1> QED
  BY <1>1, <1>2, <1>3, <1>4, <1>5, <1>6, <1>7 DEF InPass, Good, Sound, t, c, s

\* What a read took is passed on or kept: the stream is as it was.
LEMMA IntakePasses ==
  ASSUME NEW x, InPass(x), x.t.dest # 0, ~x.drop, BelowMark(x.t.toSock), x.s.out # <<>>,
         NEW n \in Takes(x.s.out, Chunk),
         NEW y, y = Intake([x EXCEPT !.s.out = Rest(@, n)], Front(x.s.out, n)),
         x.t.kind # "X" \/ x.t.ready
  PROVE  InPass(y)
<1> DEFINE t == x.t
           c == x.c
           s == x.s
           f == Front(s.out, n)
           r == Rest(s.out, n)
           t2 == [t EXCEPT !.toSock = @ \o f]
           s2 == [s EXCEPT !.out = r]
<1>1. t \in TunnelRecs /\ c \in ClientRecs /\ s \in ServerRecs /\ Good(x) /\ t.life = "live"
      /\ x \in Passes
  BY Parts DEF InPass
<1>2. y = [x EXCEPT !.s = s2, !.t = t2]
  BY <1>1 DEF Intake, Passes
<1>3. n \in 1 .. Len(s.out) /\ n <= Chunk /\ s.out \in Seq(Units)
  BY <1>1, Streams, TunnelAssumption DEF Takes, AtMost
<1>4. f \in Seq(Units) /\ r \in Seq(Units) /\ Len(f) = n
  BY <1>3, Cut
<1> HIDE DEF f, r
<1>5. t.toSock \in Seq(Units) /\ t.toSock \o f \in Seq(Units) /\ c.got \in Seq(Units)
      /\ Len(t.toSock \o f) = Len(t.toSock) + n /\ t.setup \in Seq(Units)
  <2>1. t.toSock \in Seq(Units) /\ c.got \in Seq(Units) /\ t.setup \in Seq(Units)
    BY <1>1, Streams
  <2> QED
    BY <1>4, <2>1, Joins
<1>6. /\ t2 \in TunnelRecs /\ t2.toSock = t.toSock \o f /\ t2.setup = t.setup
      /\ t2.ready = t.ready /\ t2.socks = t.socks /\ t2.life = t.life /\ t2.kind = t.kind
      /\ t2.target = t.target /\ t2.dest = t.dest /\ t2.buf = t.buf
      /\ t2.toChannel = t.toChannel /\ t2.chanEof = t.chanEof
  BY <1>1, <1>5 DEF TunnelRecs
<1>7. /\ s2 \in ServerRecs /\ s2.out = r /\ s2.got = s.got /\ s2.sent = s.sent
      /\ s2.cookie = s.cookie
  BY <1>1, <1>4 DEF ServerRecs
<1> HIDE DEF t2
<1>8. /\ y.t = t2 /\ y.c = c /\ y.s = s2 /\ y.drop = x.drop /\ y \in Passes
  BY <1>1, <1>2, <1>6, <1>7 DEF Passes
<1>9. t.setup = <<>> /\ ~t.chanEof /\ DownInv(t, c, s)
  <2>1. KindInv(t, c) /\ DownInv(t, c, s) /\ EndInv(t, c, s)
    BY <1>1, GoodParts
  <2> QED
    BY <1>1, <2>1 DEF KindInv, DownInv, EndInv
<1>10. DownInv(t2, c, s2)
  <2>1. DownStream(t2, c, s2) = DownStream(t, c, s)
    <3>1. DownStream(t, c, s) = (c.got \o t.toSock) \o s.out
      BY <1>5, <1>9, Joins DEF DownStream, Heard
    <3>2. DownStream(t2, c, s2) = (c.got \o (t.toSock \o f)) \o r
      <4>1. c.got \o (t.toSock \o f) \in Seq(Units)
        BY <1>5, Joins
      <4>2. (c.got \o (t.toSock \o f)) \o <<>> = c.got \o (t.toSock \o f)
        BY <4>1, Joins
      <4>3. /\ t2.toSock = t.toSock \o f /\ t2.setup = <<>> /\ s2.out = r
        BY <1>6, <1>7, <1>9
      <4> QED
        BY <4>2, <4>3 DEF DownStream, Heard
    <3>3. c.got \o (t.toSock \o f) = (c.got \o t.toSock) \o f
      <4>1. c.got \in Seq(Units) /\ t.toSock \in Seq(Units) /\ f \in Seq(Units)
        BY <1>4, <1>5
      <4> QED
        BY <4>1, Assoc
    <3>4. c.got \o t.toSock \in Seq(Units)
      BY <1>5, Joins
    <3>5. ((c.got \o t.toSock) \o f) \o r = (c.got \o t.toSock) \o s.out
      BY <1>3, <3>4, Moved DEF f, r
    <3> QED
      BY <3>1, <3>2, <3>3, <3>5
  <2>2. Told(t2, c) = Told(t, c)
    <3>1. t2.socks = t.socks
      BY <1>6
    <3> QED
      BY <3>1 DEF Told
  <2>3. \A k : Word(t2, c, s2, k) = Word(t, c, s, k)
    BY <1>6, <1>7 DEF Word
  <2>4. c.kind # "X" \/ t.ready
    <3>1. KindInv(t, c)
      BY <1>1, GoodParts
    <3> QED
      BY <1>1, <3>1 DEF KindInv
  <2> QED
    BY <1>6, <1>7, <1>9, <2>1, <2>2, <2>3, <2>4 DEF DownInv
<1>11. BoundInv(t2, x.drop)
  <2>1. BoundInv(t, x.drop)
    BY <1>1, GoodParts
  <2>2. Len(t.toSock) \in Nat /\ Len(t.toSock) < HighWater /\ n \in Nat
    BY <1>3, <1>5, LenProperties DEF BelowMark
  <2>3. HighWater \in Nat /\ Chunk \in Nat
    BY TunnelAssumption
  <2>4. Len(t.toSock \o f) < HighWater + Chunk + 1
    BY <1>3, <1>5, <2>2, <2>3
  <2> QED
    BY <1>6, <2>1, <2>4 DEF BoundInv
<1>12. ReadOnly(x, y)
  BY <1>1, <1>2, <1>6, <1>7, <1>8 DEF ReadOnly
<1>13. EndInv(y.t, y.c, y.s)
  BY <1>1, <1>6, <1>8, <1>9 DEF EndInv
<1> QED
  BY <1>8, <1>10, <1>11, <1>12, <1>13, ReadKeeps

\* A setup packet with another second unit.
Rewrite(p, u) == <<p[1], u>> \o Rest(p, 2)

LEMMA Rewritten ==
  ASSUME NEW p \in Seq(Units), Len(p) >= 2, NEW u \in Units
  PROVE  /\ Rewrite(p, u) \in Seq(Units) /\ Len(Rewrite(p, u)) = Len(p)
         /\ Rewrite(p, u)[1] = p[1] /\ Rewrite(p, u)[2] = u
         /\ \A k \in 3 .. Len(p) : Rewrite(p, u)[k] = p[k]
<1>1. /\ Rest(p, 2) \in Seq(Units) /\ Len(Rest(p, 2)) = Len(p) - 2
      /\ \A k \in 1 .. Len(p) - 2 : Rest(p, 2)[k] = p[k + 2]
  <2>1. 2 \in 1 .. Len(p)
    BY LenProperties
  <2>2. PICK n \in 1 .. Len(p) : n = 2
    BY <2>1
  <2>3. /\ Rest(p, n) \in Seq(Units) /\ Len(Rest(p, n)) = Len(p) - n
        /\ \A k \in 1 .. Len(p) - n : Rest(p, n)[k] = p[k + n]
    BY Cut
  <2> QED
    BY <2>2, <2>3
<1> DEFINE h == <<p[1], u>>
           r == Rest(p, 2)
<1>2. h \in Seq(Units) /\ Len(h) = 2 /\ h[1] = p[1] /\ h[2] = u
  OBVIOUS
<1> HIDE DEF h, r
<1>3. /\ h \o r \in Seq(Units) /\ Len(h \o r) = Len(h) + Len(r)
      /\ \A k \in 1 .. Len(h) : (h \o r)[k] = h[k]
      /\ \A k \in 1 .. Len(r) : (h \o r)[Len(h) + k] = r[k]
  BY <1>1, <1>2, Joins DEF r
<1>4. ASSUME NEW k \in 3 .. Len(p) PROVE (h \o r)[k] = p[k]
  <2>1. k - 2 \in 1 .. Len(p) - 2 /\ 2 + (k - 2) = k /\ (k - 2) + 2 = k
    OBVIOUS
  <2>2. r[k - 2] = p[(k - 2) + 2] /\ Len(r) = Len(p) - 2
    BY <1>1, <2>1 DEF r
  <2>3. (h \o r)[2 + (k - 2)] = r[k - 2]
    BY <1>2, <1>3, <2>1, <2>2
  <2> QED
    BY <2>1, <2>2, <2>3
<1>5. Rewrite(p, u) = h \o r /\ Len(r) = Len(p) - 2 /\ Len(p) \in Nat
  BY <1>1 DEF h, r, Rewrite
<1>6. (h \o r)[1] = p[1] /\ (h \o r)[2] = u
  BY <1>2, <1>3
<1>7. Len(h \o r) = Len(p) /\ h \o r \in Seq(Units)
  BY <1>2, <1>3, <1>5
<1> QED
  BY <1>4, <1>5, <1>6, <1>7

\* What follows two sequences of one length that differ in their first two units.
LEMMA Followed ==
  ASSUME NEW p \in Seq(Units), NEW q \in Seq(Units), NEW r \in Seq(Units),
         Len(p) >= 2, Len(q) = Len(p), \A k \in 3 .. Len(p) : q[k] = p[k]
  PROVE  /\ q \o r \in Seq(Units) /\ Len(q \o r) = Len(p \o r)
         /\ Len(p \o r) >= 2 /\ Len(p \o r) \in Nat
         /\ (p \o r)[1] = p[1] /\ (p \o r)[2] = p[2]
         /\ (q \o r)[1] = q[1] /\ (q \o r)[2] = q[2]
         /\ \A k \in 3 .. Len(p \o r) : (q \o r)[k] = (p \o r)[k]
  OBVIOUS

\* A setup packet that is not whole is kept; one that is whole is dropped or
\* released, its cookie replaced.
LEMMA IntakeKeeps ==
  ASSUME NEW x, InPass(x), x.t.dest # 0, ~x.drop, BelowMark(x.t.toSock), x.s.out # <<>>,
         NEW n \in Takes(x.s.out, Chunk),
         NEW y, y = Intake([x EXCEPT !.s.out = Rest(@, n)], Front(x.s.out, n)),
         x.t.kind = "X", ~x.t.ready
  PROVE  InPass(y)
<1> DEFINE t == x.t
           c == x.c
           s == x.s
           f == Front(s.out, n)
           r == Rest(s.out, n)
           s2 == [s EXCEPT !.out = r]
           x2 == [x EXCEPT !.s.out = Rest(@, n)]
           p == x2.t.setup \o f
<1>1. t \in TunnelRecs /\ c \in ClientRecs /\ s \in ServerRecs /\ Good(x) /\ t.life = "live"
      /\ x \in Passes
  BY Parts DEF InPass
<1>2. n \in 1 .. Len(s.out) /\ n <= Chunk /\ s.out \in Seq(Units)
  BY <1>1, Streams, TunnelAssumption DEF Takes, AtMost
<1>3. f \in Seq(Units) /\ r \in Seq(Units) /\ Len(f) = n
  BY <1>2, Cut
<1>4. /\ x2 \in Passes /\ x2.t = t /\ x2.c = c /\ x2.s = s2 /\ x2.drop = x.drop
      /\ s2 \in ServerRecs /\ s2.out = r /\ s2.got = s.got /\ s2.sent = s.sent
      /\ s2.cookie = s.cookie /\ s2.eof = s.eof
  <2>1. x2.t = t /\ x2.c = c /\ x2.s = s2 /\ x2.drop = x.drop /\ x2.opening = x.opening
    BY <1>1 DEF Passes
  <2>2. /\ s2 \in ServerRecs /\ s2.out = r /\ s2.got = s.got /\ s2.sent = s.sent
        /\ s2.cookie = s.cookie /\ s2.eof = s.eof
    BY <1>1, <1>3 DEF ServerRecs
  <2> HIDE DEF s2
  <2> QED
    BY <1>1, <2>1, <2>2 DEF Passes
<1>5. y = Intake(x2, f)
  OBVIOUS
<1> HIDE DEF f, r, s2, x2
<1>6. /\ t.setup \in Seq(Units) /\ p \in Seq(Units) /\ Len(p) = Len(t.setup) + n
      /\ p = t.setup \o f /\ Len(t.setup) \in Nat /\ Len(p) \in Nat
  <2>1. t.setup \in Seq(Units) /\ p = t.setup \o f
    BY <1>1, <1>4, Streams
  <2>2. t.setup \o f \in Seq(Units) /\ Len(t.setup \o f) = Len(t.setup) + n
        /\ Len(t.setup) \in Nat /\ n \in Nat
    BY <1>2, <1>3, <2>1, Joins
  <2> QED
    BY <2>1, <2>2
<1>7. KindInv(t, c) /\ DownInv(t, c, s) /\ EndInv(t, c, s) /\ BoundInv(t, x.drop)
  BY <1>1, GoodParts
<1>8. c.kind = "X" /\ c.got = <<>> /\ t.toSock = <<>> /\ ~t.chanEof /\ t.ready = FALSE
  BY <1>1, <1>7 DEF KindInv, DownInv, EndInv, TunnelRecs
\* All that the far side sent is in the packet and after it.
<1>9. DownStream(t, c, s) = p \o r
  <2>1. DownStream(t, c, s) = t.setup \o s.out
    BY <1>6, <1>8, Joins DEF DownStream, Heard
  <2>2. (t.setup \o f) \o r = t.setup \o s.out
    BY <1>2, <1>6, Moved DEF f, r
  <2> QED
    BY <1>6, <2>1, <2>2
<1>10. /\ Len(p \o r) = s.sent
       /\ \A k \in 1 .. Len(p \o r) : (p \o r)[k] = Word(t, c, s, k)
  BY <1>1, <1>7, <1>8, <1>9 DEF DownInv, Told, ServerRecs
<1>11. x2.t.kind = "X" /\ ~x2.t.ready /\ x2.t.toSock = <<>>
  BY <1>4, <1>8
<1>12. /\ Len(p) < 2 => y = [x2 EXCEPT !.t.setup = p]
       /\ ~(Len(p) < 2) /\ ~CookieMatch(p) => y = Dropped([x2 EXCEPT !.t.setup = p])
       /\ ~(Len(p) < 2) /\ CookieMatch(p) =>
            y = [x2 EXCEPT !.t.setup = <<>>, !.t.ready = TRUE,
                           !.t.toSock = @ \o <<p[1], Unit("real")>> \o Rest(p, 2)]
  BY <1>5, <1>11, Zenon DEF Intake
<1> HIDE DEF p
<1>13. s.sent \in Nat
  BY <1>1 DEF ServerRecs
<1>14. CASE Len(p) < 2 \/ ~CookieMatch(p)
  <2> DEFINE t2 == [t EXCEPT !.setup = p]
  <2>1. /\ t2 \in TunnelRecs /\ t2.toSock = t.toSock /\ t2.setup = p
        /\ t2.ready = t.ready /\ t2.socks = t.socks /\ t2.life = t.life /\ t2.kind = t.kind
        /\ t2.target = t.target /\ t2.dest = t.dest /\ t2.buf = t.buf
        /\ t2.toChannel = t.toChannel /\ t2.chanEof = t.chanEof
    BY <1>1, <1>6 DEF TunnelRecs
  <2>2. /\ y \in Passes /\ y.t = t2 /\ y.c = c /\ y.s = s2 /\ (x.drop => y.drop)
        /\ (~(Len(p) < 2) => y.drop)
    <3> DEFINE z == [x2 EXCEPT !.t.setup = p]
    <3>1. z \in Passes /\ z.t = t2 /\ z.c = c /\ z.s = s2
      BY <1>4, <2>1 DEF Passes
    <3>2. (y = z /\ Len(p) < 2) \/ y = Dropped(z)
      BY <1>12, <1>14
    <3> HIDE DEF z, t2
    <3>3. /\ Dropped(z) \in Passes /\ Dropped(z).t = t2 /\ Dropped(z).c = c
          /\ Dropped(z).s = s2 /\ Dropped(z).drop
      BY <3>1 DEF Dropped, Passes
    <3> QED
      BY <3>1, <3>2, <3>3
  <2> HIDE DEF t2
  <2>3. ReadOnly(x, y)
    BY <1>4, <2>1, <2>2 DEF ReadOnly
  <2>4. EndInv(y.t, y.c, y.s)
    BY <1>1, <1>8, <2>1, <2>2 DEF EndInv
  <2>5. BoundInv(y.t, y.drop)
    BY <1>6, <1>7, <2>1, <2>2 DEF BoundInv
  <2>6. DownInv(y.t, y.c, y.s)
    <3>1. DownStream(t2, c, s2) = p \o r
      BY <1>4, <1>6, <1>8, <2>1, Joins DEF DownStream, Heard
    <3>2. \A k : Word(t2, c, s2, k) = Word(t, c, s, k)
      BY <1>4, <2>1 DEF Word
    <3>3. Told(t2, c) = 0
      BY <1>8 DEF Told
    <3>4. Len(DownStream(t2, c, s2)) = Told(t2, c) + s2.sent
      BY <1>4, <1>10, <1>13, <3>1, <3>3
    <3>5. \A k \in 1 .. Len(DownStream(t2, c, s2)) : DownStream(t2, c, s2)[k] = Word(t2, c, s2, k)
      BY <1>10, <3>1, <3>2
    <3> QED
      <4>1. /\ c.kind = "X" /\ ~t2.ready /\ c.got = <<>> /\ t2.toSock = <<>>
            /\ y.t = t2 /\ y.c = c /\ y.s = s2
        BY <1>8, <2>1, <2>2
      <4>2. DownInv(t2, c, s2)
        BY <3>4, <3>5, <4>1 DEF DownInv
      <4> QED
        BY <4>1, <4>2
  <2> QED
    BY <2>2, <2>3, <2>4, <2>5, <2>6, ReadKeeps
<1>15. CASE ~(Len(p) < 2) /\ CookieMatch(p)
  <2> DEFINE q == Rewrite(p, Unit("real"))
             t2 == [t EXCEPT !.setup = <<>>, !.ready = TRUE, !.toSock = q]
  <2>1. Len(p) >= 2 /\ Unit("real") \in Units
    BY <1>6, <1>15, UnitIn
  <2>2. /\ q \in Seq(Units) /\ Len(q) = Len(p) /\ q[1] = p[1] /\ q[2] = Unit("real")
        /\ \A k \in 3 .. Len(p) : q[k] = p[k]
    BY <1>6, <2>1, Rewritten
  <2>3. y.t = t2 /\ y.c = x2.c /\ y.s = x2.s /\ y.drop = x2.drop /\ y.opening = x2.opening
        /\ y = [x2 EXCEPT !.t = y.t]
    <3> DEFINE h == <<p[1], Unit("real")>>
               e == Rest(p, 2)
    <3>1. <<>> \o h = h
      OBVIOUS
    <3>2. y = [x2 EXCEPT !.t.setup = <<>>, !.t.ready = TRUE, !.t.toSock = @ \o h \o e]
      BY <1>12, <1>15
    <3> HIDE DEF h, e
    <3>3. /\ y.t = [x2.t EXCEPT !.setup = <<>>, !.ready = TRUE, !.toSock = @ \o h \o e]
          /\ y.c = x2.c /\ y.s = x2.s /\ y.drop = x2.drop /\ y.opening = x2.opening
          /\ y = [x2 EXCEPT !.t = y.t]
      BY <1>1, <1>4, <3>2 DEF Passes, TunnelRecs
    <3>4. y.t = [t EXCEPT !.setup = <<>>, !.ready = TRUE, !.toSock = t.toSock \o h \o e]
      BY <1>1, <1>4, <3>3 DEF TunnelRecs
    <3>5. t.toSock \o h \o e = q
      BY <1>8, <3>1 DEF Rewrite, h, e
    <3> QED
      BY <3>3, <3>4, <3>5
  <2> HIDE DEF q
  <2>4. q \in Seq(Units) /\ <<>> \in Seq(Units)
    BY <2>2
  <2>5. /\ t2 \in TunnelRecs /\ t2.toSock = q /\ t2.setup = <<>> /\ t2.ready = TRUE
        /\ t2.socks = t.socks /\ t2.life = t.life /\ t2.kind = t.kind
        /\ t2.target = t.target /\ t2.dest = t.dest /\ t2.buf = t.buf
        /\ t2.toChannel = t.toChannel /\ t2.chanEof = t.chanEof
    BY <1>1, <2>4 DEF TunnelRecs
  <2> HIDE DEF t2
  <2>6. y \in Passes /\ y.t = t2 /\ y.c = c /\ y.s = s2 /\ y.drop = x.drop
    BY <1>4, <2>3, <2>5 DEF Passes
  <2>7. ReadOnly(x, y)
    BY <1>4, <2>5, <2>6 DEF ReadOnly
  <2>8. EndInv(y.t, y.c, y.s)
    BY <1>1, <1>8, <2>5, <2>6 DEF EndInv
  <2>9. BoundInv(y.t, y.drop)
    <3>1. HighWater \in Nat \ {0} /\ Chunk \in Nat
      BY TunnelAssumption
    <3>2. Len(q) < HighWater + Chunk + 1
      <4>1. Len(t.setup) < 2 /\ Len(t.setup) \in Nat
        BY <1>1, <1>6, <1>7 DEF BoundInv
      <4> QED
        BY <1>2, <1>6, <2>2, <3>1, <4>1, SMTT(30)
    <3>3. Len(t2.setup) = 0
      BY <2>5
    <3> QED
      BY <1>7, <2>5, <2>6, <3>2, <3>3 DEF BoundInv
  <2>10. /\ Len(q \o r) = Len(p \o r) /\ Len(p \o r) >= 2
         /\ (q \o r)[1] = (p \o r)[1] /\ (q \o r)[2] = Unit("real") /\ (p \o r)[2] = p[2]
         /\ \A k \in 3 .. Len(p \o r) : (q \o r)[k] = (p \o r)[k]
    <3>1. p \in Seq(Units) /\ q \in Seq(Units) /\ r \in Seq(Units) /\ Len(p) >= 2
      BY <1>3, <1>6, <2>1, <2>2
    <3>2. Len(q) = Len(p) /\ \A k \in 3 .. Len(p) : q[k] = p[k]
      BY <2>2
    <3>3. /\ Len(q \o r) = Len(p \o r) /\ Len(p \o r) >= 2
          /\ (p \o r)[1] = p[1] /\ (p \o r)[2] = p[2]
          /\ (q \o r)[1] = q[1] /\ (q \o r)[2] = q[2]
          /\ \A k \in 3 .. Len(p \o r) : (q \o r)[k] = (p \o r)[k]
      BY <3>1, <3>2, Followed, SMTT(30)
    <3> QED
      BY <2>2, <3>3
  <2>11. s.sent >= 2 /\ s.cookie = "fake"
    <3>1. s.sent >= 2
      BY <1>10, <2>10
    <3>2. p[2] = Word(t, c, s, 2)
      BY <1>10, <1>13, <2>10
    <3>3. Word(t, c, s, 2) = Unit(s.cookie)
      BY <1>8 DEF Word
    <3> QED
      BY <1>15, <3>1, <3>2, <3>3 DEF CookieMatch, Unit
  <2>12. DownInv(y.t, y.c, y.s)
    <3>1. DownStream(t2, c, s2) = q \o r
      <4>1. (q \o <<>>) = q /\ <<>> \o q = q
        BY <2>2, Joins
      <4> QED
        BY <1>4, <1>8, <2>5, <4>1 DEF DownStream, Heard
    <3>2. ASSUME NEW k \in 1 .. s.sent PROVE (q \o r)[k] = Word(t2, c, s2, k)
      <4>1. k \in 1 .. Len(p \o r) /\ (p \o r)[k] = Word(t, c, s, k)
        BY <1>10
      <4>2. CASE k = 1
        BY <1>8, <2>10, <4>1, <4>2 DEF Word
      <4>3. CASE k = 2
        BY <1>8, <2>5, <2>10, <4>3 DEF Word
      <4>4. CASE k > 2
        <5>1. k \in 3 .. Len(p \o r)
          BY <1>10, <1>13, <4>4
        <5> QED
          BY <1>8, <2>10, <4>1, <4>4, <5>1 DEF Word
      <4>5. k = 1 \/ k = 2 \/ k > 2
        BY <1>13
      <4> QED
        BY <4>2, <4>3, <4>4, <4>5
    <3>3. Told(t2, c) = 0
      BY <1>8 DEF Told
    <3>4. Len(q \o r) = s.sent
      BY <1>10, <2>10
    <3>5. Len(DownStream(t2, c, s2)) = Told(t2, c) + s2.sent
      BY <1>4, <1>13, <3>1, <3>3, <3>4
    <3>6. \A k \in 1 .. Len(DownStream(t2, c, s2)) : DownStream(t2, c, s2)[k] = Word(t2, c, s2, k)
      BY <3>1, <3>2, <3>4
    <3>7. s2.cookie = "fake" /\ s2.sent >= 2
      BY <1>4, <2>11
    <3> QED
      BY <1>8, <2>5, <2>6, <3>5, <3>6, <3>7, SMTT(30) DEF DownInv
  <2> QED
    BY <2>6, <2>7, <2>8, <2>9, <2>12, ReadKeeps
<1> QED
  BY <1>14, <1>15

\* A read of the channel.
LEMMA Reads == ASSUME NEW x, InPass(x), NEW y \in ReadChannel(x) PROVE InPass(y)
<1>1. x \in Passes /\ Good(x) /\ x.t.life = "live"
      /\ x.t \in TunnelRecs /\ x.c \in ClientRecs /\ x.s \in ServerRecs
  BY Parts DEF InPass
<1>2. CASE x.drop \/ x.t.dest = 0 \/ ~BelowMark(x.t.toSock)
  BY <1>2 DEF ReadChannel
<1>3. CASE ~x.drop /\ x.t.dest # 0 /\ BelowMark(x.t.toSock) /\ x.s.out # <<>>
  <2>1. PICK n \in Takes(x.s.out, Chunk) :
          y = Intake([x EXCEPT !.s.out = Rest(@, n)], Front(x.s.out, n))
    BY <1>3 DEF ReadChannel
  <2>2. CASE x.t.kind # "X" \/ x.t.ready
    BY <1>3, <2>1, <2>2, IntakePasses
  <2>3. CASE x.t.kind = "X" /\ ~x.t.ready
    BY <1>3, <2>1, <2>3, IntakeKeeps
  <2> QED
    BY <2>2, <2>3
<1>4. CASE ~x.drop /\ x.t.dest # 0 /\ BelowMark(x.t.toSock) /\ x.s.out = <<>>
  <2> DEFINE b == x.t.chanEof \/ x.s.eof
             t2 == [x.t EXCEPT !.chanEof = b]
  <2>1. y = [x EXCEPT !.t.chanEof = b] /\ b \in BOOLEAN
    BY <1>1, <1>4 DEF ReadChannel, TunnelRecs, ServerRecs
  <2> HIDE DEF b
  <2>2. /\ t2 \in TunnelRecs /\ t2.toSock = x.t.toSock /\ t2.setup = x.t.setup
        /\ t2.ready = x.t.ready /\ t2.socks = x.t.socks /\ t2.life = x.t.life
        /\ t2.kind = x.t.kind /\ t2.target = x.t.target /\ t2.dest = x.t.dest
        /\ t2.buf = x.t.buf /\ t2.toChannel = x.t.toChannel /\ t2.chanEof = b
    BY <1>1, <2>1 DEF TunnelRecs
  <2>3. y.t = t2 /\ y.c = x.c /\ y.s = x.s /\ y.drop = x.drop /\ y.opening = x.opening
        /\ y = [x EXCEPT !.t = t2]
    BY <1>1, <2>1 DEF Passes
  <2> HIDE DEF t2
  <2>4. y \in Passes
    BY <1>1, <2>2, <2>3 DEF Passes
  <2>5. ReadOnly(x, y)
    BY <2>2, <2>3 DEF ReadOnly
  <2>6. EndInv(y.t, y.c, y.s)
    <3>1. EndInv(x.t, x.c, x.s)
      BY <1>1, GoodParts
    <3> QED
      BY <1>1, <1>4, <2>2, <2>3, <3>1 DEF EndInv, b
  <2>7. BoundInv(y.t, y.drop)
    <3>1. BoundInv(x.t, x.drop)
      BY <1>1, GoodParts
    <3> QED
      BY <2>2, <2>3, <3>1 DEF BoundInv
  <2>8. DownInv(y.t, y.c, y.s)
    <3>1. DownStream(t2, x.c, x.s) = DownStream(x.t, x.c, x.s) /\ Told(t2, x.c) = Told(x.t, x.c)
      BY <2>2 DEF DownStream, Heard, Told
    <3>2. \A k : Word(t2, x.c, x.s, k) = Word(x.t, x.c, x.s, k)
      BY <2>2 DEF Word
    <3>3. DownInv(x.t, x.c, x.s)
      BY <1>1, GoodParts
    <3> QED
      BY <2>2, <2>3, <3>1, <3>2, <3>3 DEF DownInv
  <2> QED
    BY <1>4, <2>4, <2>5, <2>6, <2>7, <2>8, ReadKeeps
<1> QED
  BY <1>2, <1>3, <1>4

\* What is sent to the socket moves from the backlog to what the client heard.
LEMMA SendTakes ==
  ASSUME NEW x, InPass(x), NEW n \in Takes(x.t.toSock, x.c.room), x.c.room # 0,
         NEW y, y = [x EXCEPT !.t.toSock = Erase(@, n), !.c.got = @ \o Front(x.t.toSock, n),
                              !.c.room = @ - n]
  PROVE  InPass(y)
<1> DEFINE t == x.t
           c == x.c
           s == x.s
           f == Front(t.toSock, n)
           r == Rest(t.toSock, n)
           t2 == [t EXCEPT !.toSock = r]
           c2 == [c EXCEPT !.got = @ \o f, !.room = @ - n]
<1>1. t \in TunnelRecs /\ c \in ClientRecs /\ s \in ServerRecs /\ Good(x) /\ t.life = "live"
      /\ x \in Passes
  BY Parts DEF InPass
<1>2. y.t = t2 /\ y.c = c2 /\ y.s = s /\ y.drop = x.drop /\ y.opening = x.opening
      /\ y = [x EXCEPT !.t = t2, !.c = c2]
  BY <1>1 DEF Passes, Erase
<1>3. n \in 1 .. Len(t.toSock) /\ n <= c.room /\ n \in Nat /\ c.room \in 0 .. Room
      /\ Room \in Nat
  <2>1. Room \in Nat /\ c.room \in 0 .. Room /\ t.toSock \in Seq(Units)
    BY <1>1, Streams, TunnelAssumption DEF ClientRecs
  <2>2. Len(t.toSock) \in Nat
    BY <2>1, LenProperties
  <2> QED
    BY <2>1, <2>2 DEF Takes, AtMost
<1>4. /\ f \in Seq(Units) /\ r \in Seq(Units) /\ Len(r) = Len(t.toSock) - n
      /\ t.toSock \in Seq(Units)
  BY <1>1, <1>3, Streams, Cut
<1> HIDE DEF f, r
<1>5. c.got \in Seq(Units) /\ c.got \o f \in Seq(Units) /\ Len(t.toSock) \in Nat
      /\ t.toSock # <<>>
  BY <1>1, <1>3, <1>4, Streams, Joins
<1>6. /\ t2 \in TunnelRecs /\ t2.toChannel = t.toChannel
      /\ t2.life = t.life /\ t2.kind = t.kind /\ t2.socks = t.socks /\ t2.target = t.target
      /\ t2.dest = t.dest /\ t2.buf = t.buf /\ t2.setup = t.setup /\ t2.ready = t.ready
      /\ t2.toSock = r /\ t2.chanEof = t.chanEof
  BY <1>1, <1>4 DEF TunnelRecs
<1>7. c.room - n \in 0 .. Room
  BY <1>3
<1>8. /\ c2 \in ClientRecs /\ c2.out = c.out /\ c2.kind = c.kind /\ c2.said = c.said
      /\ c2.sent = c.sent /\ c2.gone = c.gone /\ c2.got = c.got \o f
  BY <1>1, <1>5, <1>7 DEF ClientRecs
<1> HIDE DEF t2, c2
<1>9. y \in Passes
  BY <1>1, <1>2, <1>6, <1>8 DEF Passes
<1>10. /\ KindInv(t, c) /\ HandInv(t, c, s, x.drop) /\ IdleInv(t, c, s) /\ UpInv(t, c, s)
       /\ DownInv(t, c, s) /\ EndInv(t, c, s) /\ BoundInv(t, x.drop)
  BY <1>1, GoodParts
<1>11. Heard(t2, c2) = Heard(t, c)
  <2>1. (c.got \o Front(t.toSock, n)) \o Rest(t.toSock, n) = c.got \o t.toSock
    BY <1>3, <1>4, <1>5, Moved
  <2> QED
    BY <1>6, <1>8, <2>1 DEF Heard, f, r
<1>12. UpInv(t2, c2, s)
  <2>1. Sent(t2, s) = Sent(t, s) /\ UpStream(t2, c2, s) = UpStream(t, c, s)
    BY <1>6, <1>8 DEF Sent, UpStream
  <2>2. Flowing(t2, c2) <=> Flowing(t, c)
    BY <1>6, <1>8 DEF Flowing
  <2> QED
    BY <1>8, <1>10, <2>1, <2>2 DEF UpInv
<1>13. KindInv(t2, c2)
  BY <1>1, <1>6, <1>8, <1>10 DEF KindInv
<1>14. IdleInv(t2, c2, s)
  BY <1>5, <1>6, <1>10 DEF IdleInv
<1>15. EndInv(t2, c2, s)
  BY <1>1, <1>6, <1>10 DEF EndInv
<1>16. HandInv(t2, c2, s, x.drop)
  BY <1>6, <1>8, <1>10 DEF HandInv
<1>17. DownInv(t2, c2, s)
  <2>1. DownStream(t2, c2, s) = DownStream(t, c, s)
    BY <1>6, <1>11 DEF DownStream
  <2>2. Told(t2, c2) = Told(t, c)
    BY <1>6, <1>8 DEF Told
  <2>3. \A k : Word(t2, c2, s, k) = Word(t, c, s, k)
    BY <1>6, <1>8 DEF Word
  <2>4. ~(c.kind = "X" /\ ~t.ready)
    BY <1>5, <1>10 DEF DownInv
  <2> QED
    BY <1>6, <1>8, <1>10, <2>1, <2>2, <2>3, <2>4 DEF DownInv
<1>18. BoundInv(t2, x.drop)
  <2>1. HighWater \in Nat /\ Chunk \in Nat
    BY TunnelAssumption
  <2> QED
    BY <1>3, <1>4, <1>5, <1>6, <1>10, <2>1 DEF BoundInv
<1> QED
  BY <1>1, <1>2, <1>6, <1>8, <1>9, <1>12, <1>13, <1>14, <1>15, <1>16, <1>17, <1>18
  DEF InPass, Good, Sound

LEMMA Sends == ASSUME NEW x, InPass(x), NEW y \in SendSocket(x) PROVE InPass(y)
<1>1. CASE y = x
  BY <1>1
<1>2. CASE y = Dropped(x)
  BY <1>2, Dooms
<1>3. CASE /\ x.c.room # 0
           /\ \E n \in Takes(x.t.toSock, x.c.room) :
                y = [x EXCEPT !.t.toSock = Erase(@, n),
                              !.c.got = @ \o Front(x.t.toSock, n), !.c.room = @ - n]
  BY <1>3, SendTakes
<1> QED
  BY <1>1, <1>2, <1>3 DEF SendSocket

\* How a pass leaves a tunnel: what was doomed is dropped, what is drained is closed.
LEMMA Finishes ==
  ASSUME NEW x, InPass(x), NEW y, y = Finish(x)
  PROVE  y \in Passes /\ Sound(y.t, y.c, y.s, FALSE)
<1> DEFINE l == IF x.drop THEN "dropped" ELSE IF Drained(x.t) THEN "closed" ELSE "live"
           t == x.t
           c == x.c
           s == x.s
           t2 == [t EXCEPT !.life = l]
<1>1. t \in TunnelRecs /\ c \in ClientRecs /\ s \in ServerRecs /\ Good(x) /\ t.life = "live"
      /\ x \in Passes /\ x.drop \in BOOLEAN
  BY Parts DEF InPass
<1>2. l \in Lives /\ l # "none" /\ (l = "closed" => Drained(t)) /\ (l = "live" => x.drop = FALSE)
  BY <1>1 DEF Lives
<1>3. y.t = t2 /\ y.c = c /\ y.s = s /\ y = [x EXCEPT !.t = t2]
  <2>1. CASE x.drop
    BY <1>1, <2>1 DEF Finish, Passes
  <2>2. CASE ~x.drop /\ Drained(x.t)
    BY <1>1, <2>2 DEF Finish, Passes
  <2>3. CASE ~x.drop /\ ~Drained(x.t)
    BY <1>1, <2>3 DEF Finish, Passes, TunnelRecs
  <2> QED
    BY <2>1, <2>2, <2>3
<1> HIDE DEF l
<1>4. /\ t2 \in TunnelRecs /\ t2.toChannel = t.toChannel
      /\ t2.life = l /\ t2.kind = t.kind /\ t2.socks = t.socks /\ t2.target = t.target
      /\ t2.dest = t.dest /\ t2.buf = t.buf /\ t2.setup = t.setup /\ t2.ready = t.ready
      /\ t2.toSock = t.toSock /\ t2.chanEof = t.chanEof
  BY <1>1, <1>2 DEF TunnelRecs
<1> HIDE DEF t2
<1>5. y \in Passes
  BY <1>1, <1>3, <1>4 DEF Passes
<1>6. /\ KindInv(t, c) /\ HandInv(t, c, s, x.drop) /\ IdleInv(t, c, s) /\ UpInv(t, c, s)
      /\ DownInv(t, c, s) /\ EndInv(t, c, s) /\ BoundInv(t, x.drop)
  BY <1>1, GoodParts
<1>7. KindInv(t2, c)
  BY <1>1, <1>2, <1>4, <1>6 DEF KindInv
<1>8. IdleInv(t2, c, s)
  BY <1>4, <1>6 DEF IdleInv
<1>9. EndInv(t2, c, s)
  BY <1>2, <1>4, <1>6 DEF EndInv, Drained
<1>10. HandInv(t2, c, s, FALSE)
  BY <1>1, <1>2, <1>4, <1>6 DEF HandInv
<1>11. UpInv(t2, c, s)
  <2>1. Sent(t2, s) = Sent(t, s) /\ UpStream(t2, c, s) = UpStream(t, c, s)
    BY <1>4 DEF Sent, UpStream
  <2>2. Flowing(t2, c) <=> Flowing(t, c)
    BY <1>4 DEF Flowing
  <2> QED
    BY <1>6, <2>1, <2>2 DEF UpInv
<1>12. DownInv(t2, c, s)
  <2>1. DownStream(t2, c, s) = DownStream(t, c, s) /\ Told(t2, c) = Told(t, c)
    BY <1>4 DEF DownStream, Heard, Told
  <2>2. \A k : Word(t2, c, s, k) = Word(t, c, s, k)
    BY <1>4 DEF Word
  <2> QED
    BY <1>4, <1>6, <2>1, <2>2 DEF DownInv
<1>13. BoundInv(t2, FALSE)
  BY <1>1, <1>2, <1>4, <1>6 DEF BoundInv
<1> QED
  BY <1>1, <1>3, <1>4, <1>5, <1>7, <1>8, <1>9, <1>10, <1>11, <1>12, <1>13 DEF Sound

\* Which tunnel libssh2 is opening is nothing to the tunnel pumped.
LEMMA Aims ==
  ASSUME NEW x, InPass(x), NEW o \in 0 .. N
  PROVE  InPass([x EXCEPT !.opening = o])
<1> DEFINE y == [x EXCEPT !.opening = o]
<1>1. x \in Passes /\ Good(x) /\ x.t.life = "live"
  BY DEF InPass
<1>2. y \in Passes /\ y.t = x.t /\ y.c = x.c /\ y.s = x.s /\ y.drop = x.drop
  BY <1>1 DEF Passes
<1> HIDE DEF y
<1>3. InPass(y)
  BY <1>1, <1>2 DEF InPass, Good, Sound
<1> QED
  BY <1>3 DEF y

\* What a step of the handshake, or the opening of the channel, leaves as it is.
Shook(x, y) ==
  /\ y.s = x.s /\ (x.drop => y.drop) /\ (y.t.dest = 0 => x.t.dest = 0)
  /\ y.t.life = x.t.life /\ y.t.kind = x.t.kind /\ y.t.ready = x.t.ready
  /\ y.t.setup = x.t.setup /\ y.t.toChannel = x.t.toChannel /\ y.t.toSock = x.t.toSock
  /\ y.t.chanEof = x.t.chanEof
  /\ y.c.kind = x.c.kind /\ y.c.said = x.c.said /\ y.c.sent = x.c.sent /\ y.c.gone = x.c.gone

LEMMA ShakeKeeps ==
  ASSUME NEW x, InPass(x), NEW y \in Passes, Shook(x, y),
         HandInv(y.t, y.c, y.s, y.drop), UpInv(y.t, y.c, y.s), DownInv(y.t, y.c, y.s)
  PROVE  InPass(y)
<1>1. Good(x) /\ x.t.life = "live" /\ y.t \in TunnelRecs /\ y.c \in ClientRecs
      /\ y.s \in ServerRecs
  BY Parts DEF InPass
<1>2. KindInv(y.t, y.c)
  BY <1>1, GoodParts DEF KindInv, Shook
<1>3. IdleInv(y.t, y.c, y.s)
  BY <1>1, GoodParts DEF IdleInv, Shook
<1>4. EndInv(y.t, y.c, y.s)
  BY <1>1, GoodParts DEF EndInv, Shook
<1>5. BoundInv(y.t, y.drop)
  BY <1>1, GoodParts DEF BoundInv, Shook
<1> QED
  BY <1>1, <1>2, <1>3, <1>4, <1>5 DEF InPass, Good, Sound, Shook

\* A SOCKS client that is told the next reply, while nothing comes from the far side.
LEMMA Answers ==
  ASSUME NEW t \in TunnelRecs, NEW c \in ClientRecs, NEW s \in ServerRecs,
         NEW t2 \in TunnelRecs, NEW c2 \in ClientRecs, NEW u \in Units,
         t.toSock = <<>>, t.setup = <<>>, s.out = <<>>, s.sent = 0,
         t2.toSock = <<>>, t2.setup = <<>>, c.kind = "D", c2.kind = "D",
         c2.got = Append(c.got, u), DownInv(t, c, s),
         Told(t2, c2) = Told(t, c) + 1, Word(t2, c2, s, Told(t, c) + 1) = u
  PROVE  DownInv(t2, c2, s)
<1>1. c.got \in Seq(Units) /\ c2.got \in Seq(Units)
  BY Streams
<1>2. DownStream(t, c, s) = c.got /\ DownStream(t2, c2, s) = c2.got
  BY <1>1, Joins DEF DownStream, Heard
<1>3. Len(c.got) = Told(t, c) /\ \A k \in 1 .. Len(c.got) : c.got[k] = Word(t, c, s, k)
  <2>1. Len(c.got) \in Nat
    BY <1>1, LenProperties
  <2>2. Len(c.got) = Told(t, c) + 0
    BY <1>2 DEF DownInv
  <2>3. t.socks \in 0 .. 3
    BY DEF TunnelRecs
  <2>4. Told(t, c) \in Nat
    BY <2>3 DEF Told
  <2> QED
    BY <1>2, <2>1, <2>2, <2>4 DEF DownInv
<1>4. /\ Len(c2.got) = Len(c.got) + 1 /\ c2.got[Len(c.got) + 1] = u /\ Len(c.got) \in Nat
      /\ \A k \in 1 .. Len(c.got) : c2.got[k] = c.got[k]
  BY <1>1
<1>5. \A k : Word(t2, c2, s, k) = Word(t, c, s, k)
  BY DEF Word
<1>6. \A k \in 1 .. Len(c2.got) : c2.got[k] = Word(t2, c2, s, k)
  <2> TAKE k \in 1 .. Len(c2.got)
  <2>1. k \in 1 .. Len(c.got) \/ k = Len(c.got) + 1
    BY <1>4
  <2>2. CASE k \in 1 .. Len(c.got)
    BY <1>3, <1>4, <1>5, <2>2
  <2>3. CASE k = Len(c.got) + 1
    BY <1>3, <1>4, <2>3
  <2> QED
    BY <2>1, <2>2, <2>3
<1>7. Len(c2.got) = Told(t2, c2) + s.sent
  BY <1>3, <1>4
<1> QED
  BY <1>2, <1>6, <1>7 DEF DownInv

\* A channel that has opened for an L tunnel.
LEMMA OpensPlain ==
  ASSUME NEW x, InPass(x), x.t.dest = 0, x.c.kind = "L", NEW a \in 1 .. N,
         NEW y, y = [x EXCEPT !.t.dest = a, !.opening = 0]
  PROVE  InPass(y)
<1>1. x \in Passes /\ Good(x) /\ x.t.life = "live"
      /\ x.t \in TunnelRecs /\ x.c \in ClientRecs /\ x.s \in ServerRecs
  BY Parts DEF InPass
<1> DEFINE t == x.t
           c == x.c
           s == x.s
           t2 == [t EXCEPT !.dest = a]
<1>2. /\ t2 \in TunnelRecs /\ t2.toChannel = t.toChannel
      /\ t2.life = t.life /\ t2.kind = t.kind /\ t2.socks = t.socks /\ t2.target = t.target
      /\ t2.dest = a /\ t2.buf = t.buf /\ t2.setup = t.setup /\ t2.ready = t.ready
      /\ t2.toSock = t.toSock /\ t2.chanEof = t.chanEof
  <2>1. a \in 0 .. N
    BY TunnelAssumption
  <2> QED
    BY <1>1, <2>1 DEF TunnelRecs
<1>3. y.t = t2 /\ y.c = c /\ y.s = s /\ y.drop = x.drop
      /\ y = [x EXCEPT !.t = t2, !.opening = 0]
  BY <1>1 DEF Passes
<1> HIDE DEF t2
<1>4. 0 \in 0 .. N /\ a # 0
  BY TunnelAssumption
<1>5. y \in Passes
  BY <1>1, <1>2, <1>3, <1>4 DEF Passes
<1>6. HandInv(t, c, s, x.drop) /\ UpInv(t, c, s) /\ DownInv(t, c, s)
  BY <1>1, GoodParts
<1>7. HandInv(t2, c, s, x.drop)
  BY <1>2, <1>6 DEF HandInv
<1>8. UpInv(t2, c, s)
  <2>1. Sent(t2, s) = Sent(t, s) /\ UpStream(t2, c, s) = UpStream(t, c, s)
    BY <1>2 DEF Sent, UpStream
  <2>2. Flowing(t2, c) <=> Flowing(t, c)
    BY <1>2 DEF Flowing
  <2> QED
    BY <1>6, <2>1, <2>2 DEF UpInv
<1>9. DownInv(t2, c, s)
  <2>1. DownStream(t2, c, s) = DownStream(t, c, s) /\ Told(t2, c) = Told(t, c)
    BY <1>2 DEF DownStream, Heard, Told
  <2>2. \A k : Word(t2, c, s, k) = Word(t, c, s, k)
    BY <1>2 DEF Word
  <2> QED
    BY <1>2, <1>6, <2>1, <2>2 DEF DownInv
<1>10. Shook(x, y)
  BY <1>2, <1>3, <1>4 DEF Shook
<1> QED
  BY <1>3, <1>5, <1>7, <1>8, <1>9, <1>10, ShakeKeeps

\* A channel that has opened for a SOCKS client, which is told so and sends its
\* data from here on.
LEMMA OpensSocks ==
  ASSUME NEW x, InPass(x), x.t.dest = 0, x.c.kind = "D", x.t.socks = 2, NEW a \in 1 .. N,
         NEW y, y = Tell([x EXCEPT !.t.dest = a, !.t.socks = 3, !.opening = 0], "ok")
  PROVE  InPass(y)
<1>1. x \in Passes /\ Good(x) /\ x.t.life = "live"
      /\ x.t \in TunnelRecs /\ x.c \in ClientRecs /\ x.s \in ServerRecs
  BY Parts DEF InPass
<1> DEFINE t == x.t
           c == x.c
           s == x.s
           t2 == [t EXCEPT !.dest = a, !.socks = 3]
           c2 == [c EXCEPT !.got = Append(@, Unit("ok"))]
<1>2. /\ t2 \in TunnelRecs /\ t2.toChannel = t.toChannel
      /\ t2.life = t.life /\ t2.kind = t.kind /\ t2.socks = 3 /\ t2.target = t.target
      /\ t2.dest = a /\ t2.buf = t.buf /\ t2.setup = t.setup /\ t2.ready = t.ready
      /\ t2.toSock = t.toSock /\ t2.chanEof = t.chanEof
  <2>1. a \in 0 .. N /\ 3 \in 0 .. 3
    BY TunnelAssumption
  <2> QED
    BY <1>1, <2>1 DEF TunnelRecs
<1>3. Append(c.got, Unit("ok")) \in Seq(Units) /\ Unit("ok") \in Units
  <2>1. Unit("ok") \in Units /\ c.got \in Seq(Units)
    BY <1>1, Streams, UnitIn
  <2> QED
    BY <2>1, Extended
<1>4. /\ c2 \in ClientRecs /\ c2.out = c.out /\ c2.kind = c.kind /\ c2.said = c.said
      /\ c2.sent = c.sent /\ c2.gone = c.gone /\ c2.got = Append(c.got, Unit("ok"))
  BY <1>1, <1>3 DEF ClientRecs
<1>5. y.t = t2 /\ y.c = c2 /\ y.s = s /\ y.drop = x.drop
      /\ y = [x EXCEPT !.t = t2, !.c = c2, !.opening = 0]
  BY <1>1 DEF Passes, Tell
<1> HIDE DEF t2, c2
<1>6. 0 \in 0 .. N /\ a # 0
  BY TunnelAssumption
<1>7. y \in Passes
  BY <1>1, <1>2, <1>4, <1>5, <1>6 DEF Passes
<1>8. /\ HandInv(t, c, s, x.drop) /\ UpInv(t, c, s) /\ DownInv(t, c, s)
      /\ IdleInv(t, c, s)
  BY <1>1, GoodParts
<1>9. /\ t.target /\ c.sent = 0 /\ c.said = 2 /\ c.out = <<>> /\ t.buf = <<>>
      /\ t.toChannel = <<>> /\ t.toSock = <<>> /\ t.setup = <<>>
      /\ s.got = <<>> /\ s.out = <<>> /\ s.sent = 0
  BY <1>8 DEF HandInv, IdleInv
<1>10. HandInv(t2, c2, s, x.drop)
  BY <1>2, <1>4, <1>6, <1>9 DEF HandInv
<1>11. UpInv(t2, c2, s)
  <2>1. Sent(t2, s) = <<>> /\ UpStream(t2, c2, s) = <<>>
    <3>1. <<>> \o <<>> = <<>>
      OBVIOUS
    <3> QED
      BY <1>2, <1>4, <1>9, <3>1 DEF Sent, UpStream
  <2>2. Len(<<>>) = 0
    OBVIOUS
  <2> QED
    BY <1>4, <1>9, <2>1, <2>2 DEF UpInv
<1>12. DownInv(t2, c2, s)
  <2>1. Told(t, c) = 1 /\ Told(t2, c2) = 2
    BY <1>2, <1>4 DEF Told
  <2>2. Word(t2, c2, s, 2) = Unit("ok")
    BY <1>4 DEF Word
  <2>3. /\ t2.toSock = <<>> /\ t2.setup = <<>> /\ c2.kind = "D" /\ 1 + 1 = 2
        /\ t2 \in TunnelRecs /\ c2 \in ClientRecs /\ c2.got = Append(c.got, Unit("ok"))
    BY <1>2, <1>4, <1>9
  <2> QED
    <3>1. PICK u \in Units : u = Unit("ok")
      BY <1>3
    <3>2. /\ Told(t2, c2) = Told(t, c) + 1 /\ Word(t2, c2, s, Told(t, c) + 1) = u
          /\ c2.got = Append(c.got, u) /\ c.kind = "D" /\ c2.kind = "D"
          /\ t2 \in TunnelRecs /\ c2 \in ClientRecs /\ t2.toSock = <<>> /\ t2.setup = <<>>
      BY <2>1, <2>2, <2>3, <3>1
    <3>3. /\ t \in TunnelRecs /\ c \in ClientRecs /\ s \in ServerRecs /\ DownInv(t, c, s)
          /\ t.toSock = <<>> /\ t.setup = <<>> /\ s.out = <<>> /\ s.sent = 0
      BY <1>1, <1>8, <1>9
    <3> QED
      BY <3>2, <3>3, Answers
<1>13. Shook(x, y)
  BY <1>2, <1>4, <1>5, <1>6 DEF Shook
<1> QED
  BY <1>5, <1>7, <1>10, <1>11, <1>12, <1>13, ShakeKeeps

\* An attempt to open the channel.
LEMMA Opens ==
  ASSUME NEW x, InPass(x), cur \in Tunnels, NEW y \in OpenChannel(x)
  PROVE  InPass(y)
<1>1. x \in Passes /\ Good(x) /\ x.t.life = "live" /\ x.opening \in 0 .. N
      /\ x.t \in TunnelRecs /\ x.c \in ClientRecs
  BY Parts DEF InPass
<1>2. Asked(x) \in 1 .. N /\ Asked(x) \in 0 .. N /\ 0 \in 0 .. N
  BY <1>1, TunnelAssumption DEF Asked, Tunnels
<1> DEFINE open == [x EXCEPT !.t.dest = Asked(x), !.opening = 0]
<1>3. CASE x.drop \/ x.t.dest # 0 \/ ~x.t.target
  BY <1>3 DEF OpenChannel
<1>4. CASE ~x.drop /\ x.t.dest = 0 /\ x.t.target
  <2>1. \/ y = [x EXCEPT !.opening = Asked(x)]
        \/ y = (IF x.t.socks = 2 THEN Tell([open EXCEPT !.t.socks = 3], "ok") ELSE open)
        \/ y = [Dropped(x) EXCEPT !.opening = 0]
    BY <1>4 DEF OpenChannel
  <2>2. CASE y = [x EXCEPT !.opening = Asked(x)]
    BY <1>2, <2>2, Aims
  <2>3. CASE y = [Dropped(x) EXCEPT !.opening = 0]
    BY <1>2, <2>3, Aims, Dooms
  <2>4. CASE y = (IF x.t.socks = 2 THEN Tell([open EXCEPT !.t.socks = 3], "ok") ELSE open)
    <3>1. KindInv(x.t, x.c) /\ HandInv(x.t, x.c, x.s, x.drop)
      BY <1>1, GoodParts
    <3>2. x.c.kind \in {"L", "D"} /\ (x.c.kind = "L" => x.t.socks = 0)
          /\ (x.c.kind = "D" => x.t.socks = 2)
      BY <1>1, <1>4, <3>1 DEF KindInv, HandInv, TunnelRecs, ClientRecs, Kinds
    <3>3. CASE x.c.kind = "L"
      <4>1. y = [x EXCEPT !.t.dest = Asked(x), !.opening = 0]
        BY <2>4, <3>2, <3>3
      <4> QED
        BY <1>2, <1>4, <3>3, <4>1, OpensPlain
    <3>4. CASE x.c.kind = "D"
      <4>1. [open EXCEPT !.t.socks = 3]
              = [x EXCEPT !.t.dest = Asked(x), !.t.socks = 3, !.opening = 0]
        BY <1>1 DEF Passes, TunnelRecs
      <4>2. y = Tell([x EXCEPT !.t.dest = Asked(x), !.t.socks = 3, !.opening = 0], "ok")
        BY <2>4, <3>2, <3>4, <4>1
      <4> QED
        BY <1>2, <1>4, <3>2, <3>4, <4>2, OpensSocks
    <3> QED
      BY <3>2, <3>3, <3>4
  <2> QED
    BY <2>1, <2>2, <2>3, <2>4
<1> QED
  BY <1>1, <1>3, <1>4

\* What the handshake's read takes.
Taking(x, n) == [x EXCEPT !.t.buf = @ \o Front(x.c.out, n), !.c.out = Rest(@, n)]
Held(t, q) == [t EXCEPT !.buf = q]
Emptied(c) == [c EXCEPT !.out = <<>>]

\* A sequence of one, and its parts.
LEMMA Single ==
  ASSUME NEW u \in Units, NEW n \in 1 .. Len(<<u>>)
  PROVE  /\ Front(<<u>>, n) = <<u>> /\ Rest(<<u>>, n) = <<>>
         /\ Head(<<u>>) = u /\ Tail(<<u>>) = <<>> /\ <<u>> # <<>>
<1>1. Len(<<u>>) = 1 /\ n = 1 /\ <<u>> \in Seq(Units)
  OBVIOUS
<1>2. Front(<<u>>, 1) = <<u>>
  BY <1>1, SubSeqFull DEF Front
<1>3. Rest(<<u>>, 1) = <<>>
  BY <1>1 DEF Rest
<1> QED
  BY <1>1, <1>2, <1>3

\* The listener types that have no handshake lose what is taken for one.
LEMMA TakesPlain ==
  ASSUME NEW x, InPass(x), ~x.drop, x.c.kind = "L", x.c.out # <<>>,
         NEW n \in 1 .. Len(x.c.out),
         NEW y, y = SocksStep(Taking(x, n))
  PROVE  InPass(y)
<1>1. x \in Passes /\ Good(x) /\ x.t.life = "live"
      /\ x.t \in TunnelRecs /\ x.c \in ClientRecs /\ x.s \in ServerRecs
  BY Parts DEF InPass
<1> DEFINE t == x.t
           c == x.c
           s == x.s
           f == Front(c.out, n)
           r == Rest(c.out, n)
           t2 == [t EXCEPT !.buf = f]
           c2 == [c EXCEPT !.out = r]
           z == Taking(x, n)
<1>2. /\ KindInv(t, c) /\ HandInv(t, c, s, x.drop) /\ UpInv(t, c, s) /\ DownInv(t, c, s)
  BY <1>1, GoodParts
<1>3. t.buf = <<>> /\ t.socks = 0 /\ t.kind = "L" /\ ~c.gone
  BY <1>1, <1>2 DEF KindInv, HandInv, UpInv
\* What it takes is the client's data, and no greeting.
<1>4. /\ f \in Seq(Units) /\ r \in Seq(Units) /\ Len(f) = n /\ f[1] = c.out[1]
      /\ c.out \in Seq(Units)
  <2>1. c.out \in Seq(Units)
    BY <1>1, Streams
  <2> QED
    BY <2>1, Cut
<1>5. c.out[1].what = "data"
  <2>1. \A k \in 1 .. Len(UpStream(t, c, s)) : UpStream(t, c, s)[k] = Data(k)
    BY <1>2, <1>3 DEF UpInv, Flowing
  <2>2. Sent(t, s) \in Seq(Units)
    BY <1>1, Streams
  <2>3. /\ UpStream(t, c, s)[Len(Sent(t, s)) + 1] = c.out[1]
        /\ Len(Sent(t, s)) + 1 \in 1 .. Len(UpStream(t, c, s))
    <3>1. /\ Len(Sent(t, s)) \in Nat /\ Len(c.out) \in Nat /\ 1 \in 1 .. Len(c.out)
          /\ Len(Sent(t, s) \o c.out) = Len(Sent(t, s)) + Len(c.out)
          /\ (Sent(t, s) \o c.out)[Len(Sent(t, s)) + 1] = c.out[1]
      BY <1>4, <2>2, Joins
    <3> QED
      BY <3>1 DEF UpStream
  <2>4. c.out[1] = Data(Len(Sent(t, s)) + 1)
    BY <2>1, <2>3
  <2> QED
    BY <2>4 DEF Data
<1> HIDE DEF f, r
<1>6. <<>> \o f = f /\ f # <<>> /\ Head(f).what # "hello"
  BY <1>4, <1>5
<1>7. /\ t2 \in TunnelRecs /\ t2.toChannel = t.toChannel
      /\ t2.life = t.life /\ t2.kind = t.kind /\ t2.socks = 0 /\ t2.target = t.target
      /\ t2.dest = t.dest /\ t2.buf = f /\ t2.setup = t.setup /\ t2.ready = t.ready
      /\ t2.toSock = t.toSock /\ t2.chanEof = t.chanEof
  BY <1>1, <1>3, <1>4 DEF TunnelRecs
<1>8. /\ c2 \in ClientRecs /\ c2.out = r /\ c2.kind = c.kind /\ c2.said = c.said
      /\ c2.sent = c.sent /\ c2.gone = c.gone /\ c2.got = c.got
  BY <1>1, <1>4 DEF ClientRecs
<1>9. z.t = t2 /\ z.c = c2 /\ z.s = s /\ z \in Passes
  <2>1. z.t = t2 /\ z.c = c2 /\ z.s = s /\ z.drop = x.drop /\ z.opening = x.opening
    BY <1>1, <1>3, <1>6 DEF Passes, TunnelRecs, Taking, f, r
  <2>2. z = [x EXCEPT !.t = z.t, !.c = z.c]
    BY <1>1 DEF Passes, Taking
  <2> HIDE DEF t2, c2, z
  <2> QED
    BY <1>1, <1>7, <1>8, <2>1, <2>2 DEF Passes
<1>10. y = Dropped(z)
  <2>1. y = SocksStep(z)
    OBVIOUS
  <2>2. Greeting(z) = Dropped(z)
    <3> HIDE DEF t2, c2, z
    <3> QED
      BY <1>6, <1>7, <1>9 DEF Greeting
  <2>3. Dropped(z).drop
    <3> HIDE DEF t2, c2, z
    <3> QED
      BY <1>9 DEF Dropped, Passes
  <2> HIDE DEF z
  <2> QED
    BY <2>1, <2>2, <2>3 DEF SocksStep, Request
<1> HIDE DEF t2, c2, z
<1>11. y \in Passes /\ y.t = t2 /\ y.c = c2 /\ y.s = s /\ y.drop = TRUE
  BY <1>9, <1>10 DEF Dropped, Passes
<1>12. HandInv(t2, c2, s, TRUE)
  BY <1>7, <1>8 DEF HandInv
<1>13. UpInv(t2, c2, s)
  <2>1. ~Flowing(t2, c2) /\ ~c2.gone
    BY <1>3, <1>6, <1>7, <1>8 DEF Flowing
  <2>2. Sent(t2, s) = Sent(t, s)
    BY <1>7 DEF Sent
  <2> QED
    BY <1>2, <2>1, <2>2 DEF UpInv
<1>14. DownInv(t2, c2, s)
  <2>1. DownStream(t2, c2, s) = DownStream(t, c, s)
    BY <1>7, <1>8 DEF DownStream, Heard
  <2>2. Told(t2, c2) = Told(t, c)
    BY <1>8 DEF Told
  <2>3. \A k : Word(t2, c2, s, k) = Word(t, c, s, k)
    BY <1>7, <1>8 DEF Word
  <2> QED
    BY <1>2, <1>7, <1>8, <2>1, <2>2, <2>3 DEF DownInv
<1>15. Shook(x, y)
  BY <1>7, <1>8, <1>11 DEF Shook
<1> QED
  BY <1>11, <1>12, <1>13, <1>14, <1>15, ShakeKeeps

\* What a SOCKS client has out at a step of the handshake is one unit, and the
\* step takes it.
LEMMA TakesUnit ==
  ASSUME NEW x, InPass(x), ~x.drop, x.c.kind = "D", x.t.buf = <<>>,
         NEW u \in Units, x.c.out = <<u>>, NEW n \in 1 .. Len(x.c.out)
  PROVE  LET z == Taking(x, n) IN
         /\ z \in Passes /\ z.t = Held(x.t, <<u>>) /\ z.c = Emptied(x.c)
         /\ z.s = x.s /\ z.drop = FALSE /\ z.opening = x.opening
<1> DEFINE z == Taking(x, n)
<1>1. x \in Passes /\ Good(x) /\ x.t.life = "live"
      /\ x.t \in TunnelRecs /\ x.c \in ClientRecs /\ x.s \in ServerRecs
  BY Parts DEF InPass
<1>2. /\ Front(x.c.out, n) = <<u>> /\ Rest(x.c.out, n) = <<>>
      /\ <<u>> \in Seq(Units) /\ <<>> \in Seq(Units) /\ <<>> \o <<u>> = <<u>>
  BY Single
<1>3. z = [x EXCEPT !.t.buf = @ \o <<u>>, !.c.out = <<>>]
  BY <1>2 DEF Taking
<1> HIDE DEF z
<1>4. /\ z.t = [x.t EXCEPT !.buf = x.t.buf \o <<u>>] /\ z.c = [x.c EXCEPT !.out = <<>>]
      /\ z.s = x.s /\ z.drop = x.drop /\ z.opening = x.opening
      /\ z = [x EXCEPT !.t = z.t, !.c = z.c]
  BY <1>1, <1>3 DEF Passes
<1>5. z.t = [x.t EXCEPT !.buf = <<u>>]
  BY <1>2, <1>4
<1>6. z.t \in TunnelRecs /\ z.c \in ClientRecs
  <2>1. \A q \in Seq(Units) : [x.t EXCEPT !.buf = q] \in TunnelRecs
    BY <1>1 DEF TunnelRecs
  <2>2. \A q \in Seq(Units) : [x.c EXCEPT !.out = q] \in ClientRecs
    BY <1>1 DEF ClientRecs
  <2>3. z.t \in TunnelRecs
    BY <1>2, <1>5, <2>1, Zenon
  <2>4. z.c \in ClientRecs
    BY <1>2, <1>4, <2>2, Zenon
  <2> QED
    BY <2>3, <2>4
<1>7. z \in Passes /\ z.drop = FALSE
  BY <1>1, <1>4, <1>6 DEF Passes
<1> QED
  BY <1>4, <1>5, <1>7 DEF Held, Emptied, z

\* The greeting of a SOCKS client is answered with the method.
LEMMA TakesHello ==
  ASSUME NEW x, InPass(x), ~x.drop, x.c.kind = "D", x.t.socks = 0, x.c.out # <<>>,
         NEW n \in 1 .. Len(x.c.out),
         NEW y, y = SocksStep(Taking(x, n))
  PROVE  InPass(y)
<1>1. x \in Passes /\ Good(x) /\ x.t.life = "live"
      /\ x.t \in TunnelRecs /\ x.c \in ClientRecs /\ x.s \in ServerRecs
  BY Parts DEF InPass
<1> DEFINE t == x.t
           c == x.c
           s == x.s
           u == Unit("hello")
           z == Taking(x, n)
           t2 == [t EXCEPT !.socks = 1]
           c2 == [c EXCEPT !.out = <<>>, !.got = Append(@, Unit("method"))]
<1>2. /\ KindInv(t, c) /\ HandInv(t, c, s, x.drop) /\ UpInv(t, c, s) /\ DownInv(t, c, s)
      /\ IdleInv(t, c, s)
  BY <1>1, GoodParts
<1>3. /\ t.buf = <<>> /\ c.out = <<u>> /\ c.said = 1 /\ c.sent = 0 /\ t.dest = 0 /\ ~t.target
  <2>1. c.said \in 0 .. 2
    BY <1>1 DEF ClientRecs
  <2> QED
    BY <1>2, <2>1 DEF HandInv
<1>4. /\ t.toChannel = <<>> /\ t.toSock = <<>> /\ t.setup = <<>>
      /\ s.got = <<>> /\ s.out = <<>> /\ s.sent = 0
  BY <1>2, <1>3 DEF IdleInv
<1>5. u \in Units /\ Unit("method") \in Units /\ <<>> \in Seq(Units) /\ <<u>> \in Seq(Units)
  BY UnitIn
<1>6. /\ z \in Passes /\ z.t = [t EXCEPT !.buf = <<u>>] /\ z.c = [c EXCEPT !.out = <<>>]
      /\ z.s = s /\ z.drop = FALSE /\ z.opening = x.opening
  <2>1. c.out = <<u>> /\ u \in Units /\ t.buf = <<>>
    BY <1>3, <1>5
  <2> HIDE DEF z, u, t2, c2
  <2>2. /\ z \in Passes /\ z.t = Held(t, <<u>>) /\ z.c = Emptied(c)
        /\ z.s = s /\ z.drop = FALSE /\ z.opening = x.opening
    BY <2>1, TakesUnit DEF z
  <2> QED
    BY <2>2 DEF Held, Emptied
<1>7. Append(c.got, Unit("method")) \in Seq(Units) /\ c.got \in Seq(Units)
  <2>1. c.got \in Seq(Units)
    BY <1>1, Streams
  <2> QED
    BY <1>5, <2>1, Extended
<1> HIDE DEF z
<1>8. /\ Head(<<u>>) = u /\ Tail(<<u>>) = <<>> /\ <<u>> # <<>>
  OBVIOUS
<1> DEFINE y2 == Tell([z EXCEPT !.t.buf = Tail(@), !.t.socks = 1], "method")
<1>9. Greeting(z) = y2
  <2>1. z.t.buf = <<u>> /\ z.t.socks = 0
    BY <1>1, <1>6 DEF TunnelRecs
  <2>2. Head(z.t.buf).what = "hello" /\ z.t.buf # <<>>
    BY <1>8, <2>1 DEF Unit
  <2> QED
    BY <2>1, <2>2 DEF Greeting
<1>10. y2.t = t2 /\ y2.c = c2 /\ y2.s = s /\ y2.drop = FALSE /\ y2.opening = x.opening
       /\ y2 = [z EXCEPT !.t = t2, !.c = c2]
  <2>1. y2.t = [z.t EXCEPT !.buf = Tail(z.t.buf), !.socks = 1]
        /\ y2.c = [z.c EXCEPT !.got = Append(z.c.got, Unit("method"))]
        /\ y2.s = z.s /\ y2.drop = z.drop /\ y2.opening = z.opening
        /\ y2 = [z EXCEPT !.t = y2.t, !.c = y2.c]
    BY <1>6 DEF Tell, Passes
  <2>2. z.t.buf = <<u>> /\ z.c.got = c.got
    BY <1>1, <1>6 DEF TunnelRecs, ClientRecs
  <2>3. y2.t = [[t EXCEPT !.buf = <<u>>] EXCEPT !.buf = <<>>, !.socks = 1]
    BY <1>6, <1>8, <2>1, <2>2
  <2>4. [[t EXCEPT !.buf = <<u>>] EXCEPT !.buf = <<>>, !.socks = 1]
          = [t EXCEPT !.buf = <<>>, !.socks = 1]
    BY <1>1 DEF TunnelRecs
  <2>5. [t EXCEPT !.buf = <<>>, !.socks = 1] = t2
    BY <1>1, <1>3 DEF TunnelRecs
  <2>6. y2.c = c2
    BY <1>1, <1>6, <2>1, <2>2 DEF ClientRecs
  <2> HIDE DEF y2, t2, c2
  <2> QED
    BY <1>6, <2>1, <2>3, <2>4, <2>5, <2>6
<1>11. /\ t2 \in TunnelRecs /\ t2.toChannel = t.toChannel
       /\ t2.life = t.life /\ t2.kind = t.kind /\ t2.socks = 1 /\ t2.target = t.target
       /\ t2.dest = t.dest /\ t2.buf = t.buf /\ t2.setup = t.setup /\ t2.ready = t.ready
       /\ t2.toSock = t.toSock /\ t2.chanEof = t.chanEof
  <2>1. 1 \in 0 .. 3
    OBVIOUS
  <2> QED
    BY <1>1, <2>1 DEF TunnelRecs
<1>12. /\ c2 \in ClientRecs /\ c2.out = <<>> /\ c2.kind = c.kind /\ c2.said = c.said
       /\ c2.sent = c.sent /\ c2.gone = c.gone /\ c2.got = Append(c.got, Unit("method"))
  <2>1. \A p, q \in Seq(Units) : [c EXCEPT !.out = p, !.got = q] \in ClientRecs
    BY <1>1 DEF ClientRecs
  <2>2. c2 \in ClientRecs
    BY <1>5, <1>7, <2>1, Zenon
  <2> QED
    BY <1>1, <2>2 DEF ClientRecs
<1> HIDE DEF y2, t2, c2
<1>13. y = y2
  <2>1. y2.t.buf = <<>>
    BY <1>3, <1>10, <1>11
  <2> QED
    BY <1>9, <2>1 DEF SocksStep, Request, z
<1>14. y \in Passes
  BY <1>6, <1>10, <1>11, <1>12, <1>13 DEF Passes
<1>15. HandInv(t2, c2, s, FALSE)
  BY <1>3, <1>11, <1>12 DEF HandInv
<1>16. UpInv(t2, c2, s)
  <2>1. ~Flowing(t2, c2)
    BY <1>11, <1>12 DEF Flowing
  <2>2. Sent(t2, s) = Sent(t, s)
    BY <1>11 DEF Sent
  <2> QED
    BY <1>2, <1>12, <2>1, <2>2 DEF UpInv
<1>17. DownInv(t2, c2, s)
  <2>1. Told(t, c) = 0 /\ Told(t2, c2) = 1
    BY <1>11, <1>12 DEF Told
  <2>2. Word(t2, c2, s, 1) = Unit("method")
    BY <1>12 DEF Word
  <2>3. /\ t2.toSock = <<>> /\ t2.setup = <<>> /\ c2.kind = "D" /\ 0 + 1 = 1
        /\ t2 \in TunnelRecs /\ c2 \in ClientRecs /\ c2.got = Append(c.got, Unit("method"))
    BY <1>4, <1>11, <1>12
  <2> QED
    <3>1. PICK v \in Units : v = Unit("method")
      BY <1>5
    <3>2. /\ Told(t2, c2) = Told(t, c) + 1 /\ Word(t2, c2, s, Told(t, c) + 1) = v
          /\ c2.got = Append(c.got, v) /\ c.kind = "D" /\ c2.kind = "D"
          /\ t2 \in TunnelRecs /\ c2 \in ClientRecs /\ t2.toSock = <<>> /\ t2.setup = <<>>
      BY <2>1, <2>2, <2>3, <3>1
    <3>3. /\ t \in TunnelRecs /\ c \in ClientRecs /\ s \in ServerRecs /\ DownInv(t, c, s)
          /\ t.toSock = <<>> /\ t.setup = <<>> /\ s.out = <<>> /\ s.sent = 0
      BY <1>1, <1>2, <1>4
    <3> QED
      BY <3>2, <3>3, Answers
<1>18. Shook(x, y)
  BY <1>10, <1>11, <1>12, <1>13 DEF Shook
<1> QED
  BY <1>10, <1>13, <1>14, <1>15, <1>16, <1>17, <1>18, ShakeKeeps

\* Its request is a target, or the end of the tunnel.
LEMMA TakesAsk ==
  ASSUME NEW x, InPass(x), ~x.drop, x.c.kind = "D", x.t.socks = 1, x.c.out # <<>>,
         NEW n \in 1 .. Len(x.c.out),
         NEW y, y = SocksStep(Taking(x, n))
  PROVE  InPass(y)
<1>1. x \in Passes /\ Good(x) /\ x.t.life = "live"
      /\ x.t \in TunnelRecs /\ x.c \in ClientRecs /\ x.s \in ServerRecs
  BY Parts DEF InPass
<1> DEFINE t == x.t
           c == x.c
           s == x.s
           z == Taking(x, n)
           c2 == [c EXCEPT !.out = <<>>]
<1>2. /\ KindInv(t, c) /\ HandInv(t, c, s, x.drop) /\ UpInv(t, c, s) /\ DownInv(t, c, s)
      /\ IdleInv(t, c, s)
  BY <1>1, GoodParts
<1>3. /\ t.buf = <<>> /\ c.said = 2 /\ c.sent = 0 /\ t.dest = 0 /\ ~t.target
      /\ c.out \in {<<Unit("ask")>>, <<Unit("ask6")>>}
  <2>1. c.said \in 0 .. 2
    BY <1>1 DEF ClientRecs
  <2> QED
    BY <1>1, <1>2, <2>1 DEF HandInv
<1>4. PICK w \in {"ask", "ask6"} : c.out = <<Unit(w)>>
  BY <1>3
<1> DEFINE u == Unit(w)
<1>5. u \in Units /\ <<>> \in Seq(Units) /\ <<u>> \in Seq(Units) /\ u.what = w
  BY UnitIn DEF Unit
<1>6. /\ z \in Passes /\ z.t = [t EXCEPT !.buf = <<u>>] /\ z.c = c2
      /\ z.s = s /\ z.drop = FALSE /\ z.opening = x.opening
  <2>1. c.out = <<u>> /\ u \in Units /\ t.buf = <<>>
    BY <1>3, <1>4, <1>5
  <2> HIDE DEF z, u, c2
  <2>2. /\ z \in Passes /\ z.t = Held(t, <<u>>) /\ z.c = Emptied(c)
        /\ z.s = s /\ z.drop = FALSE /\ z.opening = x.opening
    BY <2>1, TakesUnit DEF z
  <2> QED
    BY <2>2 DEF Held, Emptied, c2
<1> HIDE DEF z
<1>7. /\ Head(<<u>>) = u /\ Tail(<<u>>) = <<>> /\ <<u>> # <<>>
  OBVIOUS
<1>8. /\ c2 \in ClientRecs /\ c2.out = <<>> /\ c2.kind = c.kind /\ c2.said = c.said
      /\ c2.sent = c.sent /\ c2.gone = c.gone /\ c2.got = c.got
  <2>1. \A p \in Seq(Units) : [c EXCEPT !.out = p] \in ClientRecs
    BY <1>1 DEF ClientRecs
  <2>2. c2 \in ClientRecs
    BY <1>5, <2>1, Zenon
  <2> QED
    BY <1>1, <2>2 DEF ClientRecs
<1>9. z.t.buf = <<u>> /\ z.t.socks = 1
  BY <1>1, <1>6 DEF TunnelRecs
<1>10. y = Request(z)
  <2>1. Greeting(z) = z
    BY <1>9 DEF Greeting
  <2> QED
    BY <2>1 DEF SocksStep, z
<1>11. y = IF w # "ask" THEN Dropped(z)
           ELSE [z EXCEPT !.t.buf = Tail(@), !.t.socks = 2, !.t.target = TRUE]
  BY <1>5, <1>6, <1>7, <1>9, <1>10 DEF Request
\* What stays of the client and of the stream towards it.
<1> DEFINE Same(t2) == /\ t2 \in TunnelRecs /\ t2.toChannel = t.toChannel
                       /\ t2.life = t.life /\ t2.kind = t.kind /\ t2.dest = t.dest
                       /\ t2.setup = t.setup /\ t2.ready = t.ready
                       /\ t2.toSock = t.toSock /\ t2.chanEof = t.chanEof
                       /\ t2.socks \in {1, 2}
<1> HIDE DEF c2, u
<1>12. ASSUME NEW t2, Same(t2) PROVE UpInv(t2, c2, s) /\ DownInv(t2, c2, s)
  <2>1. ~Flowing(t2, c2)
    BY <1>8, <1>12 DEF Flowing
  <2>2. Sent(t2, s) = Sent(t, s)
    BY <1>12 DEF Sent
  <2>3. DownStream(t2, c2, s) = DownStream(t, c, s)
    BY <1>8, <1>12 DEF DownStream, Heard
  <2>4. Told(t2, c2) = Told(t, c)
    BY <1>8, <1>12 DEF Told
  <2>5. \A k : Word(t2, c2, s, k) = Word(t, c, s, k)
    BY <1>8, <1>12 DEF Word
  <2>6. UpInv(t2, c2, s)
    BY <1>2, <1>8, <2>1, <2>2 DEF UpInv
  <2>7. DownInv(t2, c2, s)
    BY <1>2, <1>8, <1>12, <2>3, <2>4, <2>5 DEF DownInv
  <2> QED
    BY <2>6, <2>7
<1>13. CASE w = "ask"
  <2> DEFINE t2 == [t EXCEPT !.socks = 2, !.target = TRUE]
  <2>1. /\ t2 \in TunnelRecs /\ t2.toChannel = t.toChannel
        /\ t2.life = t.life /\ t2.kind = t.kind /\ t2.socks = 2 /\ t2.target = TRUE
        /\ t2.dest = t.dest /\ t2.buf = t.buf /\ t2.setup = t.setup /\ t2.ready = t.ready
        /\ t2.toSock = t.toSock /\ t2.chanEof = t.chanEof
    <3>1. 2 \in 0 .. 3
      OBVIOUS
    <3> QED
      BY <1>1, <3>1 DEF TunnelRecs
  <2>2. /\ y.t = [z.t EXCEPT !.buf = Tail(z.t.buf), !.socks = 2, !.target = TRUE]
        /\ y.c = z.c /\ y.s = z.s /\ y.drop = z.drop /\ y.opening = z.opening
        /\ y = [z EXCEPT !.t = y.t]
    BY <1>6, <1>11, <1>13 DEF Passes
  <2>3. y.t = [[t EXCEPT !.buf = <<u>>] EXCEPT !.buf = <<>>, !.socks = 2, !.target = TRUE]
    BY <1>6, <1>7, <1>9, <2>2 DEF u
  <2>4. y.t = [t EXCEPT !.buf = <<>>, !.socks = 2, !.target = TRUE]
    BY <1>1, <2>3 DEF TunnelRecs
  <2>5. y.t = t2
    BY <1>1, <1>3, <2>4 DEF TunnelRecs
  <2> HIDE DEF t2
  <2>6. y \in Passes
    BY <1>6, <2>1, <2>2, <2>5 DEF Passes
  <2>7. UpInv(t2, c2, s) /\ DownInv(t2, c2, s)
    BY <1>12, <2>1
  <2>8. HandInv(t2, c2, s, FALSE)
    BY <1>3, <1>8, <2>1 DEF HandInv
  <2>9. Shook(x, y)
    BY <1>6, <1>8, <2>1, <2>2, <2>5 DEF Shook
  <2>10. y.t = t2 /\ y.c = c2 /\ y.s = s /\ y.drop = FALSE
    BY <1>6, <2>2, <2>5
  <2>11. HandInv(y.t, y.c, y.s, y.drop) /\ UpInv(y.t, y.c, y.s) /\ DownInv(y.t, y.c, y.s)
    BY <2>7, <2>8, <2>10
  <2> QED
    BY <2>6, <2>9, <2>11, ShakeKeeps
<1>14. CASE w = "ask6"
  <2> DEFINE t2 == [t EXCEPT !.buf = <<u>>]
  <2>1. /\ t2 \in TunnelRecs /\ t2.toChannel = t.toChannel
        /\ t2.life = t.life /\ t2.kind = t.kind /\ t2.socks = t.socks /\ t2.target = t.target
        /\ t2.dest = t.dest /\ t2.setup = t.setup /\ t2.ready = t.ready
        /\ t2.toSock = t.toSock /\ t2.chanEof = t.chanEof
    <3>1. \A q \in Seq(Units) : [t EXCEPT !.buf = q] \in TunnelRecs
      BY <1>1 DEF TunnelRecs
    <3>2. t2 \in TunnelRecs
      BY <1>5, <3>1, Zenon DEF u
    <3> QED
      BY <1>1, <3>2 DEF TunnelRecs
  <2>2. z.t = t2
    BY <1>6 DEF u
  <2> HIDE DEF t2
  <2>3. y.t = t2 /\ y.c = c2 /\ y.s = s /\ y.drop = TRUE /\ y \in Passes
    <3>1. y = Dropped(z)
      BY <1>11, <1>14
    <3> QED
      BY <1>6, <2>2, <3>1 DEF Dropped, Passes
  <2>4. UpInv(t2, c2, s) /\ DownInv(t2, c2, s)
    BY <1>12, <2>1
  <2>5. HandInv(t2, c2, s, TRUE)
    BY <1>3, <1>8, <2>1 DEF HandInv
  <2>6. Shook(x, y)
    BY <1>8, <2>1, <2>3 DEF Shook
  <2> QED
    BY <2>3, <2>4, <2>5, <2>6, ShakeKeeps
<1> QED
  BY <1>13, <1>14

\* The handshake's read of the socket.
LEMMA Handshakes ==
  ASSUME NEW x, InPass(x), ~x.drop, NEW y \in SocksRecv(x)
  PROVE  InPass(y)
<1>1. x \in Passes /\ Good(x) /\ x.t.life = "live"
      /\ x.t \in TunnelRecs /\ x.c \in ClientRecs
  BY Parts DEF InPass
<1>2. CASE x.t.socks >= 2 \/ x.t.chanEof
  BY <1>2 DEF SocksRecv
<1>3. CASE ~(x.t.socks >= 2 \/ x.t.chanEof) /\ x.c.out # <<>>
  <2>1. PICK n \in Takes(x.c.out, Chunk) :
          y = SocksStep(Taking(x, n))
    BY <1>3 DEF SocksRecv, Taking
  <2>2. n \in 1 .. Len(x.c.out)
    <3>1. x.c.out \in Seq(Units) /\ Chunk \in Nat
      BY <1>1, TunnelAssumption DEF ClientRecs
    <3> QED
      BY <3>1, LenProperties DEF Takes, AtMost
  <2>3. KindInv(x.t, x.c) /\ HandInv(x.t, x.c, x.s, x.drop)
    BY <1>1, GoodParts
  <2>4. /\ x.c.kind = "L" \/ x.c.kind = "D"
        /\ x.c.kind = "D" => x.t.socks = 0 \/ x.t.socks = 1
    BY <1>1, <1>3, <2>3 DEF KindInv, HandInv, TunnelRecs, ClientRecs, Kinds
  <2>5. CASE x.c.kind = "L"
    BY <1>3, <2>1, <2>2, <2>5, TakesPlain
  <2>6. CASE x.c.kind = "D" /\ x.t.socks = 0
    BY <1>3, <2>1, <2>2, <2>6, TakesHello
  <2>7. CASE x.c.kind = "D" /\ x.t.socks = 1
    BY <1>3, <2>1, <2>2, <2>7, TakesAsk
  <2> QED
    BY <2>4, <2>5, <2>6, <2>7
<1>4. CASE ~(x.t.socks >= 2 \/ x.t.chanEof) /\ x.c.out = <<>>
  <2>1. y = x \/ y = Dropped(x)
    BY <1>4 DEF SocksRecv
  <2> QED
    BY <2>1, Dooms
<1> QED
  BY <1>2, <1>3, <1>4

----------------------------------------------------------------------------
(* The peers.                                                              *)

\* Whatever a peer does, it sees and changes its own record; a peer's step that the
\* streams and the handshake do not look at leaves a tunnel sound.
LEMMA PeerUnseen ==
  ASSUME NEW t, NEW c, NEW s, NEW d, Sound(t, c, s, d),
         NEW c2 \in ClientRecs, NEW s2 \in ServerRecs,
         c2.kind = c.kind, c2.out = c.out, c2.said = c.said, c2.sent = c.sent,
         c2.gone = c.gone, c2.got = c.got,
         s2.out = s.out, s2.sent = s.sent, s2.cookie = s.cookie, s2.got = s.got,
         s.eof => s2.eof
  PROVE  Sound(t, c2, s2, d)
<1>1. /\ t \in TunnelRecs /\ KindInv(t, c) /\ HandInv(t, c, s, d) /\ IdleInv(t, c, s)
      /\ UpInv(t, c, s) /\ DownInv(t, c, s) /\ EndInv(t, c, s) /\ BoundInv(t, d)
  BY DEF Sound
<1>2. KindInv(t, c2)
  BY <1>1 DEF KindInv
<1>3. HandInv(t, c2, s2, d)
  BY <1>1 DEF HandInv
<1>4. IdleInv(t, c2, s2)
  BY <1>1 DEF IdleInv
<1>5. UpInv(t, c2, s2)
  <2>1. Sent(t, s2) = Sent(t, s) /\ UpStream(t, c2, s2) = UpStream(t, c, s)
    BY DEF Sent, UpStream
  <2>2. Flowing(t, c2) <=> Flowing(t, c)
    BY DEF Flowing
  <2> QED
    BY <1>1, <2>1, <2>2 DEF UpInv
<1>6. DownInv(t, c2, s2)
  <2>1. DownStream(t, c2, s2) = DownStream(t, c, s) /\ Told(t, c2) = Told(t, c)
    BY DEF DownStream, Heard, Told
  <2>2. \A k : Word(t, c2, s2, k) = Word(t, c, s, k)
    BY DEF Word
  <2> QED
    BY <1>1, <2>1, <2>2 DEF DownInv
<1>7. EndInv(t, c2, s2)
  BY <1>1 DEF EndInv
<1> QED
  BY <1>1, <1>2, <1>3, <1>4, <1>5, <1>6, <1>7 DEF Sound

\* A client that resets takes what it had not sent with it.
LEMMA ClientGone ==
  ASSUME NEW t, NEW c \in ClientRecs, NEW s, NEW d, Sound(t, c, s, d),
         NEW c2 \in ClientRecs, c2.kind = c.kind, c2.out = <<>>, c2.said = c.said,
         c2.sent = c.sent, c2.gone = TRUE, c2.got = c.got
  PROVE  Sound(t, c2, s, d)
<1>1. /\ t \in TunnelRecs /\ s \in ServerRecs
      /\ KindInv(t, c) /\ HandInv(t, c, s, d) /\ IdleInv(t, c, s)
      /\ UpInv(t, c, s) /\ DownInv(t, c, s) /\ EndInv(t, c, s) /\ BoundInv(t, d)
  BY DEF Sound
<1>2. KindInv(t, c2)
  BY <1>1 DEF KindInv
<1>3. HandInv(t, c2, s, d)
  BY <1>1 DEF HandInv
<1>4. IdleInv(t, c2, s) /\ EndInv(t, c2, s)
  BY <1>1 DEF IdleInv, EndInv
<1>5. UpInv(t, c2, s)
  BY <1>1 DEF UpInv, Flowing
<1>6. DownInv(t, c2, s)
  <2>1. DownStream(t, c2, s) = DownStream(t, c, s) /\ Told(t, c2) = Told(t, c)
    BY DEF DownStream, Heard, Told
  <2>2. \A k : Word(t, c2, s, k) = Word(t, c, s, k)
    BY DEF Word
  <2> QED
    BY <1>1, <2>1, <2>2 DEF DownInv
<1> QED
  BY <1>1, <1>2, <1>3, <1>4, <1>5, <1>6 DEF Sound

\* What a client heard is part of what was sent to it.
LEMMA HeardBound ==
  ASSUME NEW t \in TunnelRecs, NEW c \in ClientRecs, NEW s \in ServerRecs, DownInv(t, c, s)
  PROVE  /\ Len(c.got) \in Nat /\ Len(c.got) <= Told(t, c) + s.sent
         /\ \A k \in 1 .. Len(c.got) : c.got[k] = Word(t, c, s, k)
<1>1. /\ c.got \in Seq(Units) /\ t.toSock \in Seq(Units) /\ t.setup \in Seq(Units)
      /\ s.out \in Seq(Units) /\ Heard(t, c) \in Seq(Units)
  BY Streams
<1> DEFINE h == Heard(t, c)
           p == h \o t.setup
           w == DownStream(t, c, s)
<1>2. /\ Len(c.got) <= Len(h) /\ Len(c.got) \in Nat
      /\ \A k \in 1 .. Len(c.got) : h[k] = c.got[k]
  BY <1>1, Leads DEF Heard
<1>3. p \in Seq(Units) /\ Len(h) <= Len(p) /\ \A k \in 1 .. Len(h) : p[k] = h[k]
  <2> HIDE DEF h
  <2>1. h \in Seq(Units)
    BY <1>1 DEF h
  <2> QED
    BY <1>1, <2>1, Leads, Joins
<1>4. Len(p) <= Len(w) /\ \A k \in 1 .. Len(p) : w[k] = p[k]
  <2>1. w = p \o s.out
    BY DEF DownStream
  <2> HIDE DEF w, p
  <2> QED
    BY <1>1, <1>3, <2>1, Leads
<1>5. Len(h) \in Nat /\ Len(p) \in Nat /\ Len(w) \in Nat
  <2>1. w \in Seq(Units) /\ h \in Seq(Units)
    BY Streams
  <2> HIDE DEF w, h, p
  <2> QED
    BY <1>3, <2>1, LenProperties
<1> HIDE DEF w, h, p
<1>6. ASSUME NEW k \in 1 .. Len(c.got) PROVE c.got[k] = w[k] /\ k \in 1 .. Len(w)
  <2>1. k \in 1 .. Len(h) /\ k \in 1 .. Len(p) /\ k \in 1 .. Len(w)
    BY <1>2, <1>3, <1>4, <1>5
  <2> QED
    BY <1>2, <1>3, <1>4, <2>1
<1>7. Len(w) = Told(t, c) + s.sent /\ \A k \in 1 .. Len(w) : w[k] = Word(t, c, s, k)
  BY DEF DownInv, w
<1>8. Len(c.got) <= Len(w)
  BY <1>2, <1>3, <1>4, <1>5
<1> QED
  BY <1>2, <1>6, <1>7, <1>8

\* What a client has been told fixes where its handshake is.
LEMMA Heeds ==
  ASSUME NEW t \in TunnelRecs, NEW c \in ClientRecs, NEW s \in ServerRecs, NEW d,
         HandInv(t, c, s, d), IdleInv(t, c, s), DownInv(t, c, s), c.kind = "D"
  PROVE  /\ Len(c.got) >= 1 => t.socks >= 1
         /\ Len(c.got) >= 2 => t.socks = 3
<1>1. Len(c.got) \in Nat /\ Len(c.got) <= Told(t, c) + s.sent
  BY HeardBound
<1>2. t.socks \in 0 .. 3 /\ (t.socks < 3 => s.sent = 0)
  BY DEF TunnelRecs, HandInv, IdleInv
<1>3. t.socks = 0 => Told(t, c) = 0
  BY DEF Told
<1>4. t.socks \in {1, 2} => Told(t, c) = 1
  BY DEF Told
<1> QED
  BY <1>1, <1>2, <1>3, <1>4

\* Of the client only its kind decides how much it has been told.
LEMMA ToldByKind ==
  ASSUME NEW t, NEW c, NEW e, e.kind = c.kind PROVE Told(t, e) = Told(t, c)
  BY DEF Told

\* What a client says next keeps its tunnel sound.
LEMMA ClientSays ==
  ASSUME NEW t, NEW c, NEW s, NEW d, Sound(t, c, s, d), ~c.gone,
         NEW u \in NextSaid(c), NEW c2, c2 = [c EXCEPT !.out = Append(@, u),
                                   !.said = AtMost(2, @ + 1), !.sent = u.n]
  PROVE  c2 \in ClientRecs /\ Sound(t, c2, s, d)
<1>1. /\ t \in TunnelRecs /\ c \in ClientRecs /\ s \in ServerRecs
      /\ KindInv(t, c) /\ HandInv(t, c, s, d) /\ IdleInv(t, c, s)
      /\ UpInv(t, c, s) /\ DownInv(t, c, s) /\ EndInv(t, c, s) /\ BoundInv(t, d)
  BY DEF Sound
<1>2. c.said \in 0 .. 2 /\ c.sent \in Nat /\ MaxData \in Nat /\ c.kind \in Kinds
      /\ c.out \in Seq(Units)
  BY <1>1, TunnelAssumption DEF ClientRecs
<1> DEFINE Hello == c.kind = "D" /\ c.said = 0 /\ u = Unit("hello")
           Asks  == /\ c.kind = "D" /\ c.said = 1 /\ Len(c.got) >= 1
                    /\ u \in {Unit("ask"), Unit("ask6")}
           Gives == /\ c.kind = "D" => c.said = 2 /\ ~(Len(c.got) < 2)
                    /\ u = Data(c.sent + 1) /\ c.sent + 1 \in 1 .. MaxData
<1>3. Hello \/ Asks \/ Gives
  <2>1. CASE c.kind = "D" /\ c.said = 0
    BY <2>1 DEF NextSaid
  <2>2. CASE c.kind = "D" /\ c.said = 1
    BY <2>2 DEF NextSaid
  <2>3. CASE c.kind = "D" /\ c.said = 2 /\ Len(c.got) < 2
    BY <2>3 DEF NextSaid
  <2>4. CASE c.kind # "D" \/ (c.said = 2 /\ ~(Len(c.got) < 2))
    BY <2>4 DEF NextSaid
  <2> QED
    BY <1>2, <2>1, <2>2, <2>3, <2>4
<1>4. u \in Units /\ u.n \in Nat
  BY <1>2, <1>3, UnitIn DEF Unit, Data
<1>5. Append(c.out, u) \in Seq(Units) /\ AtMost(2, c.said + 1) \in 0 .. 2
  BY <1>2, <1>4, Extended DEF AtMost
<1>6. /\ c2 \in ClientRecs /\ c2.out = Append(c.out, u) /\ c2.kind = c.kind
      /\ c2.said = AtMost(2, c.said + 1)
      /\ c2.sent = u.n /\ c2.gone = c.gone /\ c2.got = c.got
  <2>1. \A q \in Seq(Units), m \in 0 .. 2, n \in Nat :
          [c EXCEPT !.out = q, !.said = m, !.sent = n] \in ClientRecs
    BY <1>1 DEF ClientRecs
  <2>2. c2 \in ClientRecs
    BY <1>4, <1>5, <2>1
  <2> QED
    BY <1>1, <2>2 DEF ClientRecs
<1>7. KindInv(t, c2)
  BY <1>1, <1>6 DEF KindInv
<1>8. IdleInv(t, c2, s) /\ EndInv(t, c2, s)
  BY <1>1, <1>6 DEF IdleInv, EndInv
<1>9. DownInv(t, c2, s)
  <2>1. DownStream(t, c2, s) = DownStream(t, c, s)
    BY <1>6 DEF DownStream, Heard
  <2>2. Told(t, c2) = Told(t, c)
    BY <1>6, ToldByKind
  <2>3. \A k : Word(t, c2, s, k) = Word(t, c, s, k)
    BY <1>6 DEF Word
  <2> QED
    BY <1>1, <1>6, <2>1, <2>2, <2>3 DEF DownInv
<1>10. Sent(t, s) \in Seq(Units) /\ \A k \in 1 .. Len(Sent(t, s)) : Sent(t, s)[k] = Data(k)
  BY <1>1, Streams DEF UpInv
<1>11. CASE Hello
  <2>1. c.out = <<>> /\ t.socks = 0
    BY <1>1, <1>11 DEF HandInv
  <2>2. c2.out = <<Unit("hello")>> /\ c2.said = 1 /\ c2.sent = 0
    BY <1>6, <1>11, <2>1 DEF AtMost, Unit
  <2>3. HandInv(t, c2, s, d)
    BY <1>1, <1>6, <1>11, <2>1, <2>2 DEF HandInv
  <2>4. UpInv(t, c2, s)
    BY <1>6, <1>10, <1>11, <2>1 DEF UpInv, Flowing
  <2> QED
    BY <1>1, <1>6, <1>7, <1>8, <1>9, <2>3, <2>4 DEF Sound
<1>12. CASE Asks
  <2>1. t.socks = 1 /\ c.out = <<>> /\ t.buf = <<>>
    <3>1. t.socks >= 1 /\ t.socks \in 0 .. 3
      BY <1>1, <1>12, Heeds DEF TunnelRecs
    <3>2. ~(t.socks >= 2)
      BY <1>1, <1>12 DEF HandInv
    <3>3. t.socks = 1
      BY <3>1, <3>2
    <3> QED
      BY <1>1, <1>12, <3>3 DEF HandInv
  <2>2. c2.out \in {<<Unit("ask")>>, <<Unit("ask6")>>} /\ c2.said = 2 /\ c2.sent = 0
    BY <1>6, <1>12, <2>1 DEF AtMost, Unit
  <2>3. HandInv(t, c2, s, d)
    BY <1>1, <1>6, <1>12, <2>1, <2>2 DEF HandInv
  <2>4. UpInv(t, c2, s)
    BY <1>6, <1>10, <1>12, <2>1 DEF UpInv, Flowing
  <2> QED
    BY <1>1, <1>6, <1>7, <1>8, <1>9, <2>3, <2>4 DEF Sound
<1>13. CASE Gives
  <2>1. c.kind = "D" => t.socks = 3
    <3>1. Len(c.got) \in Nat
      BY <1>1, HeardBound
    <3> QED
      BY <1>1, <1>13, <3>1, Heeds
  <2>2. c2.sent = c.sent + 1 /\ (c.kind = "D" => c2.said = 2)
    BY <1>6, <1>13 DEF AtMost, Data
  <2>3. HandInv(t, c2, s, d)
    BY <1>1, <1>6, <2>1, <2>2 DEF HandInv
  <2>4. UpInv(t, c2, s)
    <3>1. Flowing(t, c2) <=> Flowing(t, c)
      BY <1>6 DEF Flowing
    <3>2. CASE Flowing(t, c)
      <4>1. /\ UpStream(t, c2, s) = Append(UpStream(t, c, s), u)
            /\ UpStream(t, c, s) \in Seq(Units)
        <5>1. Sent(t, s) \o Append(c.out, u) = Append(Sent(t, s) \o c.out, u)
          BY <1>2, <1>4, <1>10, Extended
        <5>2. UpStream(t, c, s) \in Seq(Units)
          BY <1>1, Streams
        <5> QED
          BY <1>6, <5>1, <5>2 DEF UpStream
      <4> DEFINE w == UpStream(t, c, s)
      <4>2. Len(w) = c.sent /\ \A k \in 1 .. Len(w) : w[k] = Data(k)
        BY <1>1, <3>2 DEF UpInv
      <4> HIDE DEF w
      <4>3. /\ Len(Append(w, u)) = Len(w) + 1 /\ Append(w, u)[Len(w) + 1] = u
            /\ \A k \in 1 .. Len(w) : Append(w, u)[k] = w[k]
        BY <4>1 DEF w
      <4>4. \A k \in 1 .. Len(Append(w, u)) : Append(w, u)[k] = Data(k)
        BY <1>2, <1>13, <4>2, <4>3
      <4>5. Len(Append(w, u)) = c2.sent
        BY <2>2, <4>2, <4>3
      <4> QED
        BY <1>6, <1>10, <4>1, <4>4, <4>5 DEF UpInv, w
    <3>3. CASE ~Flowing(t, c)
      BY <1>6, <1>10, <3>1, <3>3 DEF UpInv
    <3> QED
      BY <3>2, <3>3
  <2> QED
    BY <1>1, <1>6, <1>7, <1>8, <1>9, <2>3, <2>4 DEF Sound
<1> QED
  BY <1>3, <1>11, <1>12, <1>13

\* What the far side says next has its place in the stream.
Saying(s, u) == [s EXCEPT !.out = Append(@, u), !.sent = @ + 1,
                          !.cookie = IF u.what \in {"fake", "bad"} THEN u.what ELSE @]
LEMMA FarSays ==
  ASSUME NEW t, NEW c, NEW s, NEW d, Sound(t, c, s, d), t.life = "live", t.dest # 0, ~s.eof,
         NEW u, NEW s2, s2 = Saying(s, u),
         \/ t.kind = "X" /\ s.sent = 0 /\ u = Unit("head")
         \/ t.kind = "X" /\ s.sent = 1 /\ u \in {Unit("fake"), Unit("bad")}
         \/ /\ t.kind = "X" => s.sent # 0 /\ s.sent # 1
            /\ s.sent + 1 \in 1 .. MaxData /\ u = Data(s.sent + 1)
  PROVE  s2 \in ServerRecs /\ Sound(t, c, s2, d)
<1>1. /\ t \in TunnelRecs /\ c \in ClientRecs /\ s \in ServerRecs
      /\ KindInv(t, c) /\ HandInv(t, c, s, d) /\ IdleInv(t, c, s)
      /\ UpInv(t, c, s) /\ DownInv(t, c, s) /\ EndInv(t, c, s) /\ BoundInv(t, d)
  BY DEF Sound
<1>2. s.sent \in Nat /\ MaxData \in Nat /\ s.out \in Seq(Units)
      /\ s.cookie \in {"none", "fake", "bad"} /\ c.kind = t.kind /\ c.kind \in Kinds
  BY <1>1, TunnelAssumption DEF ServerRecs, KindInv, TunnelRecs
<1> DEFINE m == IF u.what \in {"fake", "bad"} THEN u.what ELSE s.cookie
<1>3. u \in Units /\ m \in {"none", "fake", "bad"}
      /\ (s.sent = 1 /\ c.kind = "X" => u = Unit(m))
      /\ (~(s.sent = 1 /\ c.kind = "X") => m = s.cookie)
  <2>1. CASE t.kind = "X" /\ s.sent = 0 /\ u = Unit("head")
    BY <1>2, <2>1, UnitIn DEF Unit
  <2>2. CASE t.kind = "X" /\ s.sent = 1 /\ u \in {Unit("fake"), Unit("bad")}
    BY <1>2, <2>2, UnitIn DEF Unit
  <2>3. CASE /\ t.kind = "X" => s.sent # 0 /\ s.sent # 1
             /\ s.sent + 1 \in 1 .. MaxData /\ u = Data(s.sent + 1)
    <3>1. u \in Units /\ u.what = "data"
      BY <1>2, <2>3, UnitIn DEF Data
    <3> QED
      BY <1>2, <2>3, <3>1
  <2> QED
    BY <2>1, <2>2, <2>3
<1> HIDE DEF m
<1>4. Append(s.out, u) \in Seq(Units) /\ s.sent + 1 \in Nat
  BY <1>2, <1>3, Extended
<1>5. s2 = [s EXCEPT !.out = Append(s.out, u), !.sent = s.sent + 1, !.cookie = m]
  BY DEF m, Saying
<1>6. /\ s2 \in ServerRecs /\ s2.out = Append(s.out, u) /\ s2.sent = s.sent + 1
      /\ s2.cookie = m /\ s2.eof = s.eof /\ s2.got = s.got
  <2> DEFINE a == Append(s.out, u)
             n == s.sent + 1
  <2>1. a \in Seq(Units) /\ n \in Nat
    BY <1>4
  <2> HIDE DEF a, n
  <2>2. s2 \in ServerRecs
    <3>1. s2 = [s EXCEPT !.out = a, !.sent = n, !.cookie = m]
      BY <1>5 DEF a, n
    <3> QED
      BY <1>1, <1>3, <2>1, <3>1 DEF ServerRecs
  <2> QED
    BY <1>1, <1>5, <2>2 DEF ServerRecs
<1>7. HandInv(t, c, s2, d)
  BY <1>1 DEF HandInv
<1>8. IdleInv(t, c, s2)
  BY DEF IdleInv
<1>9. EndInv(t, c, s2)
  BY <1>1, <1>6 DEF EndInv
<1>10. UpInv(t, c, s2)
  <2>1. Sent(t, s2) = Sent(t, s) /\ UpStream(t, c, s2) = UpStream(t, c, s)
    BY <1>6 DEF Sent, UpStream
  <2> QED
    BY <1>1, <2>1 DEF UpInv
<1>11. DownInv(t, c, s2)
  <2> DEFINE w == DownStream(t, c, s)
             w2 == DownStream(t, c, s2)
             z == Told(t, c) + s.sent
  <2>1. w \in Seq(Units) /\ w2 = Append(w, u)
    <3>1. Heard(t, c) \o t.setup \in Seq(Units) /\ w \in Seq(Units)
      <4>1. Heard(t, c) \in Seq(Units) /\ t.setup \in Seq(Units) /\ w \in Seq(Units)
        BY <1>1, Streams
      <4> QED
        BY <4>1, Joins
    <3>2. (Heard(t, c) \o t.setup) \o Append(s.out, u)
            = Append((Heard(t, c) \o t.setup) \o s.out, u)
      BY <1>2, <1>3, <3>1, Extended
    <3> QED
      BY <1>6, <3>1, <3>2 DEF DownStream
  <2>2. Len(w) = z /\ \A k \in 1 .. Len(w) : w[k] = Word(t, c, s, k)
    BY <1>1 DEF DownInv
  <2> HIDE DEF w, w2
  <2>3. /\ Len(w2) = z + 1 /\ w2[z + 1] = u /\ Len(w) \in Nat
        /\ \A k \in 1 .. Len(w) : w2[k] = w[k]
    BY <2>1, <2>2
  <2>4. c.kind = "X" /\ t.ready => s.sent >= 2 /\ s.cookie = "fake"
    BY <1>1 DEF DownInv
  <2>5. c.kind = "X" => Told(t, c) = 0
    BY DEF Told
  <2>6. c.kind = "L" => Told(t, c) = 0
    BY DEF Told
  <2>7. c.kind = "D" => Told(t, c) = 2
    <3>1. c.kind = "D" => t.socks = 3
      BY <1>1 DEF HandInv
    <3> QED
      BY <3>1 DEF Told
  \* The words of before stand: a cookie is said once.
  <2>8. ASSUME NEW k \in 1 .. Len(w) PROVE Word(t, c, s2, k) = Word(t, c, s, k)
    <3>1. CASE c.kind # "X" \/ k # 2 \/ t.ready
      BY <3>1 DEF Word
    <3>2. CASE c.kind = "X" /\ k = 2
      <4>1. s.sent # 1
        BY <1>2, <2>2, <2>3, <2>5, <3>2
      <4>2. s2.cookie = s.cookie
        BY <1>3, <1>6, <4>1
      <4> QED
        BY <4>2 DEF Word
    <3> QED
      BY <3>1, <3>2
  <2>9. Word(t, c, s2, z + 1) = u
    <3>1. CASE c.kind = "L"
      <4>1. z + 1 = s.sent + 1 /\ u = Data(s.sent + 1)
        BY <1>2, <2>6, <3>1
      <4> QED
        BY <3>1, <4>1 DEF Word
    <3>2. CASE c.kind = "D"
      <4>1. z + 1 > 2 /\ (z + 1) - 2 = s.sent + 1 /\ z + 1 # 1 /\ z + 1 # 2
        BY <1>2, <2>7, <3>2
      <4>2. u = Data(s.sent + 1)
        BY <1>2, <3>2
      <4>3. Word(t, c, s2, z + 1) = Data((z + 1) - 2)
        <5> HIDE DEF z
        <5> QED
          BY <3>2, <4>1 DEF Word
      <4> QED
        BY <4>1, <4>2, <4>3
    <3>3. CASE c.kind = "X"
      <4>1. z + 1 = s.sent + 1
        BY <1>2, <2>5, <3>3
      <4>2. CASE s.sent = 0
        <5>1. z + 1 = 1 /\ u = Unit("head")
          BY <1>2, <3>3, <4>1, <4>2
        <5> QED
          BY <3>3, <5>1 DEF Word
      <4>3. CASE s.sent = 1
        <5>1. z + 1 = 2 /\ u = Unit(m) /\ ~t.ready
          BY <1>2, <1>3, <2>4, <3>3, <4>1, <4>3
        <5> QED
          BY <1>6, <3>3, <5>1 DEF Word
      <4>4. CASE s.sent # 0 /\ s.sent # 1
        <5>1. z + 1 > 2 /\ u = Data(s.sent + 1) /\ z + 1 # 1 /\ z + 1 # 2
          BY <1>2, <3>3, <4>1, <4>4
        <5>2. Word(t, c, s2, z + 1) = Data(z + 1)
          <6> HIDE DEF z
          <6> QED
            BY <3>3, <5>1 DEF Word
        <5> QED
          BY <4>1, <5>1, <5>2
      <4> QED
        BY <4>2, <4>3, <4>4
    <3> QED
      BY <1>2, <3>1, <3>2, <3>3 DEF Kinds
  <2>10. \A k \in 1 .. Len(w2) : w2[k] = Word(t, c, s2, k)
    <3> TAKE k \in 1 .. Len(w2)
    <3>1. k \in 1 .. Len(w) \/ k = z + 1
      BY <2>2, <2>3
    <3>2. CASE k \in 1 .. Len(w)
      BY <2>2, <2>3, <2>8, <3>2
    <3>3. CASE k = z + 1
      BY <2>3, <2>9, <3>3
    <3> QED
      BY <3>1, <3>2, <3>3
  <2>11. Len(w2) = Told(t, c) + s2.sent
    <3>1. Told(t, c) \in Nat
      BY <1>2, <2>5, <2>6, <2>7 DEF Kinds
    <3> QED
      BY <1>2, <1>6, <2>3, <3>1
  <2>12. c.kind = "X" /\ t.ready => s2.cookie = "fake" /\ s2.sent >= 2
    BY <1>2, <1>3, <1>6, <2>4
  <2> QED
    BY <1>1, <2>10, <2>11, <2>12 DEF DownInv, w2
<1> QED
  BY <1>1, <1>6, <1>7, <1>8, <1>9, <1>10, <1>11 DEF Sound

----------------------------------------------------------------------------
(* The whole list of tunnels.                                              *)

\* The tunnel the walk goes on with is in the list.
LEMMA Walks ==
  ASSUME NEW i \in 1 .. N + 1, NEW f
  PROVE  From(i, f) = 0 \/ (From(i, f) \in i .. N /\ f[From(i, f)].life = "live")
<1> DEFINE T == {j \in i .. N : f[j].life = "live"}
           First(j) == f[j].life = "live" /\ \A k \in i .. j - 1 : f[k].life # "live"
<1>1. CASE \E j \in i .. N : f[j].life = "live"
  <2>1. T \subseteq Nat /\ T # {} /\ N \in Nat
    BY <1>1, TunnelAssumption
  <2>2. PICK m \in T : \A k \in T : m <= k
    <3> HIDE DEF T
    <3> QED
      BY <2>1, Least
  <2>3. First(m) /\ m \in i .. N
    <3>1. m \in i .. N /\ f[m].life = "live" /\ m \in Nat
      BY <2>1
    <3>2. ASSUME NEW k \in i .. m - 1, f[k].life = "live" PROVE FALSE
      <4>1. k \in i .. N
        BY <2>1, <3>1
      <4>2. k \in T
        BY <3>2, <4>1
      <4>3. m <= k
        BY <2>2, <4>2
      <4> QED
        BY <2>1, <3>1, <4>3
    <3> QED
      BY <3>1, <3>2
  <2>4. From(i, f) = CHOOSE j \in i .. N : First(j)
    BY <1>1 DEF From
  <2> HIDE DEF First
  <2>5. (CHOOSE j \in i .. N : First(j)) \in i .. N /\ First(CHOOSE j \in i .. N : First(j))
    BY <2>3, Zenon
  <2>6. From(i, f) \in i .. N /\ First(From(i, f))
    BY <2>4, <2>5
  <2> QED
    BY <2>6 DEF First
<1>2. CASE ~\E j \in i .. N : f[j].life = "live"
  BY <1>2 DEF From
<1> QED
  BY <1>1, <1>2

LEMMA Walked ==
  ASSUME NEW i \in 1 .. N + 1, NEW f, NEW j, j = From(i, f)
  PROVE  j \in 0 .. N /\ (j # 0 => j \in Tunnels /\ f[j].life = "live")
<1>1. j = 0 \/ (j \in i .. N /\ f[j].life = "live")
  BY Walks
<1>2. N \in Nat
  BY TunnelAssumption
<1> QED
  BY <1>1, <1>2 DEF Tunnels

\* A client that waits becomes a tunnel.
LEMMA Accepts ==
  ASSUME NEW i \in Tunnels, NEW c, NEW s, Sound(NoTunnel, c, s, FALSE)
  PROVE  Accepted(i, c.kind) \in TunnelRecs /\ Sound(Accepted(i, c.kind), c, s, FALSE)
<1> DEFINE t == Accepted(i, c.kind)
<1>1. /\ NoTunnel \in TunnelRecs /\ c \in ClientRecs /\ s \in ServerRecs
      /\ HandInv(NoTunnel, c, s, FALSE) /\ IdleInv(NoTunnel, c, s)
      /\ UpInv(NoTunnel, c, s) /\ DownInv(NoTunnel, c, s) /\ EndInv(NoTunnel, c, s)
  BY DEF Sound
<1>2. i \in 0 .. N /\ i # 0 /\ c.kind \in Kinds
  BY <1>1, TunnelAssumption DEF Tunnels, ClientRecs
<1>3. /\ NoTunnel.kind = "L" /\ NoTunnel.socks = 0 /\ NoTunnel.target = FALSE
      /\ NoTunnel.dest = 0 /\ NoTunnel.buf = <<>> /\ NoTunnel.setup = <<>>
      /\ NoTunnel.ready = FALSE /\ NoTunnel.toChannel = <<>> /\ NoTunnel.toSock = <<>>
      /\ NoTunnel.chanEof = FALSE
  BY DEF NoTunnel
<1>4. /\ t \in TunnelRecs /\ t.life = "live" /\ t.kind = c.kind /\ t.buf = <<>>
      /\ t.setup = <<>> /\ t.ready = FALSE /\ t.toChannel = <<>> /\ t.toSock = <<>>
      /\ t.chanEof = FALSE
      /\ t.socks = (IF c.kind = "X" THEN 3 ELSE 0)
      /\ t.target = (c.kind = "L")
      /\ t.dest = (IF c.kind = "X" THEN i ELSE 0)
  <2>1. CASE c.kind = "L"
    BY <1>1, <2>1 DEF Accepted, NoTunnel, TunnelRecs, Lives, Kinds
  <2>2. CASE c.kind = "D"
    BY <1>1, <2>2 DEF Accepted, NoTunnel, TunnelRecs, Lives, Kinds
  <2>3. CASE c.kind = "X"
    <3>1. t = [NoTunnel EXCEPT !.life = "live", !.kind = "X", !.socks = 3, !.dest = i]
      BY <2>3 DEF Accepted
    <3>2. 3 \in 0 .. 3
      OBVIOUS
    <3> HIDE DEF t
    <3> QED
      BY <1>1, <1>2, <1>3, <2>3, <3>1, <3>2 DEF TunnelRecs, Lives, Kinds
  <2> QED
    BY <1>2, <2>1, <2>2, <2>3 DEF Kinds
<1> HIDE DEF t
<1>5. /\ s.got = <<>> /\ s.out = <<>> /\ s.sent = 0
      /\ (c.kind = "D" => c.sent = 0 /\ c.said <= 1
                          /\ c.out \in {<<>>, <<Unit("hello")>>} /\ (c.said = 0 => c.out = <<>>))
      /\ (c.kind = "X" => c.got = <<>>)
  BY <1>1, <1>3 DEF HandInv, IdleInv, DownInv
<1>6. KindInv(t, c)
  BY <1>2, <1>4 DEF KindInv
<1>7. HandInv(t, c, s, FALSE)
  <2>1. CASE c.kind = "L"
    BY <1>4, <2>1 DEF HandInv
  <2>2. CASE c.kind = "D"
    <3>1. t.socks = 0 /\ t.target = FALSE /\ t.dest = 0 /\ t.buf = <<>>
      BY <1>4, <2>2
    <3> QED
      BY <1>5, <2>2, <3>1 DEF HandInv
  <2>3. CASE c.kind = "X"
    BY <1>4, <2>3 DEF HandInv
  <2> QED
    BY <1>2, <2>1, <2>2, <2>3 DEF Kinds
<1>8. IdleInv(t, c, s) /\ EndInv(t, c, s)
  BY <1>4, <1>5 DEF IdleInv, EndInv
<1>9. UpInv(t, c, s)
  <2>1. Sent(t, s) = Sent(NoTunnel, s) /\ UpStream(t, c, s) = UpStream(NoTunnel, c, s)
    BY <1>3, <1>4 DEF Sent, UpStream
  <2>2. Flowing(t, c) => Flowing(NoTunnel, c)
    BY <1>3, <1>4 DEF Flowing
  <2> QED
    BY <1>1, <2>1, <2>2 DEF UpInv
<1>10. DownInv(t, c, s)
  <2>1. DownStream(t, c, s) = DownStream(NoTunnel, c, s)
    BY <1>3, <1>4 DEF DownStream, Heard
  <2>2. Told(t, c) = Told(NoTunnel, c)
    BY <1>3, <1>4 DEF Told
  <2>3. \A k : Word(t, c, s, k) = Word(NoTunnel, c, s, k)
    BY <1>3, <1>4 DEF Word
  <2> QED
    BY <1>1, <1>4, <1>5, <2>1, <2>2, <2>3 DEF DownInv
<1>11. BoundInv(t, FALSE)
  <2>1. HighWater \in Nat \ {0} /\ Chunk \in Nat \ {0}
    BY TunnelAssumption
  <2>2. Len(<<>>) = 0
    OBVIOUS
  <2> QED
    BY <1>4, <2>1, <2>2 DEF BoundInv
<1> QED
  BY <1>1, <1>4, <1>6, <1>7, <1>8, <1>9, <1>10, <1>11 DEF Sound, t

\* One tunnel's records replaced by sound ones leave the list sound.
LEMMA Replaced ==
  ASSUME Inv, NEW i \in Tunnels, NEW t \in TunnelRecs, NEW c \in ClientRecs,
         NEW s \in ServerRecs,
         tun' = [tun EXCEPT ![i] = t], client' = [client EXCEPT ![i] = c],
         server' = [server EXCEPT ![i] = s], opening' \in 0 .. N,
         cur' \in 0 .. N, drop' \in BOOLEAN,
         at' \in {"accept", "socks", "open", "up", "down"}, (cur' = 0) = (at' = "accept"),
         at' \in {"accept", "socks"} => ~drop', cur' # 0 => tun'[cur'].life = "live",
         Sound(t, c, s, Doomed(i)'),
         \A j \in Tunnels \ {i} : Doomed(j)' = Doomed(j)
  PROVE  Inv'
<1>1. PassInv'
  <2>1. /\ tun \in [Tunnels -> TunnelRecs] /\ client \in [Tunnels -> ClientRecs]
        /\ server \in [Tunnels -> ServerRecs]
    BY DEF Inv, PassInv
  <2>2. /\ tun' \in [Tunnels -> TunnelRecs] /\ client' \in [Tunnels -> ClientRecs]
        /\ server' \in [Tunnels -> ServerRecs]
    BY <2>1
  <2> QED
    BY <2>2 DEF PassInv
<1>2. ASSUME NEW j \in Tunnels
      PROVE  Sound(tun[j], client[j], server[j], Doomed(j))'
  <2>1. /\ tun \in [Tunnels -> TunnelRecs] /\ client \in [Tunnels -> ClientRecs]
        /\ server \in [Tunnels -> ServerRecs] /\ Sound(tun[j], client[j], server[j], Doomed(j))
    BY DEF Inv, PassInv
  <2>2. CASE j = i
    <3>1. tun'[j] = t /\ client'[j] = c /\ server'[j] = s
      BY <2>1, <2>2
    <3> QED
      BY <2>2, <3>1
  <2>3. CASE j # i
    <3>1. tun'[j] = tun[j] /\ client'[j] = client[j] /\ server'[j] = server[j]
          /\ Doomed(j)' = Doomed(j)
      BY <2>1, <2>3
    <3> QED
      BY <2>1, <3>1
  <2> QED
    BY <2>2, <2>3
<1> QED
  BY <1>1, <1>2 DEF Inv

LEMMA InHand ==
  ASSUME Inv, cur # 0
  PROVE  InPass(Here) /\ Here.drop = drop /\ cur \in Tunnels /\ drop \in BOOLEAN
<1>1. /\ cur \in Tunnels /\ tun[cur].life = "live" /\ opening \in 0 .. N /\ drop \in BOOLEAN
      /\ tun[cur] \in TunnelRecs /\ client[cur] \in ClientRecs /\ server[cur] \in ServerRecs
  BY TunnelAssumption DEF Inv, PassInv, Tunnels
<1>2. Sound(tun[cur], client[cur], server[cur], drop)
  <2>1. Sound(tun[cur], client[cur], server[cur], Doomed(cur))
    BY <1>1 DEF Inv
  <2>2. Doomed(cur) = drop
    BY <1>1 DEF Doomed
  <2> QED
    BY <2>1, <2>2
<1>3. /\ Here.t = tun[cur] /\ Here.c = client[cur] /\ Here.s = server[cur]
      /\ Here.drop = drop /\ Here.opening = opening /\ Here \in Passes
  BY <1>1 DEF Here, Passes
<1> QED
  BY <1>1, <1>2, <1>3 DEF InPass, Good

\* A call of a pass that leaves its tunnel sound leaves the list sound.
LEMMA Pumped ==
  ASSUME Inv, cur # 0, NEW y, InPass(y), Becomes(y), drop' = y.drop, cur' = cur,
         at' \in {"open", "up", "down"}
  PROVE  Inv'
<1>1. cur \in Tunnels /\ cur \in 0 .. N
  BY InHand DEF Inv, PassInv
<1> PICK i \in Tunnels : i = cur
  BY <1>1
<1>2. /\ y.t \in TunnelRecs /\ y.c \in ClientRecs /\ y.s \in ServerRecs /\ y.drop \in BOOLEAN
      /\ y.opening \in 0 .. N /\ y.t.life = "live" /\ Sound(y.t, y.c, y.s, y.drop)
  BY Parts DEF InPass, Good
<1>3. /\ tun' = [tun EXCEPT ![i] = y.t] /\ client' = [client EXCEPT ![i] = y.c]
      /\ server' = [server EXCEPT ![i] = y.s] /\ opening' = y.opening
  BY DEF Becomes
<1>4. tun'[cur'].life = "live"
  <2>1. tun \in [Tunnels -> TunnelRecs]
    BY DEF Inv, PassInv
  <2> QED
    BY <1>1, <1>2, <1>3, <2>1
<1>5. Doomed(i)' = y.drop
  BY <1>2 DEF Doomed
<1>6. \A j \in Tunnels \ {i} : Doomed(j)' = Doomed(j)
  BY DEF Doomed
<1>7. (cur' = 0) = (at' = "accept")
  OBVIOUS
<1>8. Sound(y.t, y.c, y.s, Doomed(i)')
  BY <1>2, <1>5
<1> HIDE DEF Inv, Sound
<1> QED
  BY <1>1, <1>2, <1>3, <1>4, <1>6, <1>7, <1>8, Replaced

LEMMA ByAccept == ASSUME Inv, Accept PROVE Inv'
<1> DEFINE new == [i \in Tunnels |-> IF tun[i].life = "none" /\ client[i].connected
                                     THEN Accepted(i, client[i].kind) ELSE tun[i]]
<1>1. /\ at = "accept" /\ cur = 0 /\ tun' = new /\ drop' = FALSE
      /\ cur' = From(1, tun') /\ at' = (IF cur' = 0 THEN "accept" ELSE "socks")
      /\ client' = client /\ server' = server /\ opening' = opening
  BY DEF Accept, Visit, Inv, PassInv
<1>2. ASSUME NEW i \in Tunnels
      PROVE  new[i] \in TunnelRecs /\ Sound(new[i], client[i], server[i], FALSE)
  <2>1. tun[i] \in TunnelRecs /\ Sound(tun[i], client[i], server[i], FALSE)
    <3>1. Sound(tun[i], client[i], server[i], Doomed(i)) /\ tun[i] \in TunnelRecs
      BY DEF Inv, PassInv
    <3>2. Doomed(i) = FALSE
      BY <1>1 DEF Doomed, Inv, PassInv
    <3> QED
      BY <3>1, <3>2
  <2>2. CASE tun[i].life = "none" /\ client[i].connected
    <3>1. tun[i] = NoTunnel
      BY <2>1, <2>2 DEF Sound, KindInv
    <3>2. new[i] = Accepted(i, client[i].kind)
      BY <2>2
    <3> HIDE DEF new
    <3> QED
      BY <2>1, <3>1, <3>2, Accepts
  <2>3. CASE ~(tun[i].life = "none" /\ client[i].connected)
    BY <2>1, <2>3
  <2> QED
    BY <2>2, <2>3
<1>3. cur' \in 0 .. N /\ (cur' # 0 => cur' \in Tunnels /\ tun'[cur'].life = "live")
  <2>1. PICK i \in 1 .. N + 1 : i = 1
    BY TunnelAssumption
  <2>2. PICK j : j = From(i, new)
    OBVIOUS
  <2> HIDE DEF new
  <2>3. j \in 0 .. N /\ (j # 0 => j \in Tunnels /\ new[j].life = "live")
    BY <2>2, Walked
  <2> QED
    BY <1>1, <2>1, <2>2, <2>3
<1>4. PassInv'
  <2>1. tun' \in [Tunnels -> TunnelRecs]
    BY <1>1, <1>2
  <2>2. /\ client' \in [Tunnels -> ClientRecs] /\ server' \in [Tunnels -> ServerRecs]
        /\ opening' \in 0 .. N
    BY <1>1 DEF Inv, PassInv
  <2>3. /\ at' \in {"accept", "socks"} /\ (cur' = 0) = (at' = "accept") /\ drop' \in BOOLEAN
        /\ ~drop'
    BY <1>1
  <2> QED
    BY <1>3, <2>1, <2>2, <2>3 DEF PassInv
<1>5. ASSUME NEW i \in Tunnels PROVE Sound(tun[i], client[i], server[i], Doomed(i))'
  <2>1. Doomed(i)' = FALSE
    BY <1>1 DEF Doomed
  <2>2. tun'[i] = new[i] /\ client'[i] = client[i] /\ server'[i] = server[i]
    BY <1>1
  <2> QED
    BY <1>2, <2>1, <2>2
<1> QED
  BY <1>4, <1>5 DEF Inv

LEMMA BySocks == ASSUME Inv, Socks PROVE Inv'
<1>1. cur # 0 /\ ~drop
  BY DEF Inv, PassInv, Socks
<1>2. PICK y \in SocksRecv(Here) : Becomes(y) /\ drop' = y.drop
  BY DEF Socks
<1>3. InPass(y)
  BY <1>1, <1>2, InHand, Handshakes
<1> QED
  BY <1>1, <1>2, <1>3, Pumped DEF Socks

LEMMA ByOpen == ASSUME Inv, Open PROVE Inv'
<1>1. cur # 0
  BY DEF Inv, PassInv, Open
<1>2. PICK y \in OpenChannel(Here) : Becomes(y) /\ drop' = y.drop
  BY DEF Open
<1>3. InPass(y)
  BY <1>1, <1>2, InHand, Opens
<1> QED
  BY <1>1, <1>2, <1>3, Pumped DEF Open

LEMMA ByUp == ASSUME Inv, Up PROVE Inv'
<1>1. cur # 0
  BY DEF Inv, PassInv, Up
<1>2. PICK x \in RecvData(Here) :
        \E y \in WriteChannel(x) : Becomes(SendEof(y)) /\ drop' = y.drop
  BY DEF Up
<1>3. PICK y \in WriteChannel(x) : Becomes(SendEof(y)) /\ drop' = y.drop
  BY <1>2
<1>4. InPass(y)
  <2>1. InPass(x)
    BY <1>1, InHand, Receives
  <2> QED
    BY <2>1, Writes
<1>5. InPass(SendEof(y)) /\ SendEof(y).drop = y.drop
  <2>1. InPass(SendEof(y)) /\ y \in Passes
    BY <1>4, Ends DEF InPass
  <2> QED
    BY <2>1 DEF SendEof, Passes
<1> QED
  BY <1>1, <1>3, <1>5, Pumped DEF Up

\* The walk goes on from a tunnel that its part of the pass leaves sound.
LEMMA GoesOn ==
  ASSUME Inv, cur \in Tunnels, NEW z \in Passes, Sound(z.t, z.c, z.s, FALSE), Becomes(z),
         Visit(From(cur + 1, tun'))
  PROVE  Inv'
<1> PICK i \in Tunnels : i = cur
  OBVIOUS
<1>1. /\ cur' = From(cur + 1, tun') /\ drop' = FALSE
      /\ at' = (IF cur' = 0 THEN "accept" ELSE "socks")
  BY DEF Visit
<1>2. cur' \in 0 .. N /\ (cur' # 0 => cur' \in Tunnels /\ tun'[cur'].life = "live")
  <2>1. cur + 1 \in 1 .. N + 1
    BY TunnelAssumption DEF Tunnels
  <2> QED
    BY <1>1, <2>1, Walked
<1>3. /\ tun' = [tun EXCEPT ![i] = z.t] /\ client' = [client EXCEPT ![i] = z.c]
      /\ server' = [server EXCEPT ![i] = z.s] /\ opening' = z.opening
  BY DEF Becomes
<1>4. /\ z.t \in TunnelRecs /\ z.c \in ClientRecs /\ z.s \in ServerRecs /\ z.opening \in 0 .. N
  BY Parts
<1>5. Doomed(i)' = FALSE /\ \A j \in Tunnels \ {i} : Doomed(j)' = Doomed(j)
  BY <1>1 DEF Doomed
<1>6. Sound(z.t, z.c, z.s, Doomed(i)')
  BY <1>5
<1>7. /\ at' \in {"accept", "socks", "open", "up", "down"} /\ (cur' = 0) = (at' = "accept")
      /\ drop' \in BOOLEAN /\ ~drop' /\ opening' \in 0 .. N
  BY <1>1, <1>3, <1>4
<1>8. /\ cur' \in 0 .. N /\ drop' \in BOOLEAN
      /\ at' \in {"accept", "socks", "open", "up", "down"} /\ (cur' = 0) = (at' = "accept")
      /\ (at' \in {"accept", "socks"} => ~drop') /\ (cur' # 0 => tun'[cur'].life = "live")
      /\ \A j \in Tunnels \ {i} : Doomed(j)' = Doomed(j)
  BY <1>2, <1>5, <1>7
<1> HIDE DEF Inv, Sound, Doomed
<1> QED
  BY <1>3, <1>4, <1>6, <1>7, <1>8, Replaced

LEMMA ByDown == ASSUME Inv, Down PROVE Inv'
<1>1. cur # 0 /\ cur \in Tunnels
  BY InHand DEF Inv, PassInv, Down
<1>2. PICK x \in ReadChannel(Here) : \E y \in SendSocket(x) : Becomes(Finish(y))
  BY DEF Down
<1>3. PICK y \in SendSocket(x) : Becomes(Finish(y))
  BY <1>2
<1>4. InPass(y)
  <2>1. InPass(x)
    BY <1>1, InHand, Reads
  <2> QED
    BY <2>1, Sends
<1>5. Finish(y) \in Passes /\ Sound(Finish(y).t, Finish(y).c, Finish(y).s, FALSE)
  BY <1>4, Finishes
<1> QED
  BY <1>1, <1>3, <1>5, GoesOn DEF Down

\* A step of a peer of tunnel i that leaves it sound leaves the list sound.
LEMMA PeerStep ==
  ASSUME Inv, NEW i \in Tunnels, NEW c \in ClientRecs, NEW s \in ServerRecs,
         client' = [client EXCEPT ![i] = c], server' = [server EXCEPT ![i] = s],
         UNCHANGED <<tun, opening, cur, at, drop>>,
         Sound(tun[i], c, s, Doomed(i))
  PROVE  Inv'
<1>1. tun' = [tun EXCEPT ![i] = tun[i]] /\ tun[i] \in TunnelRecs
  BY DEF Inv, PassInv
<1>2. /\ opening' \in 0 .. N /\ cur' \in 0 .. N /\ drop' \in BOOLEAN
      /\ at' \in {"accept", "socks", "open", "up", "down"} /\ (cur' = 0) = (at' = "accept")
      /\ (at' \in {"accept", "socks"} => ~drop')
      /\ (cur' # 0 => tun'[cur'].life = "live")
  BY DEF Inv, PassInv
<1>3. \A j \in Tunnels : Doomed(j)' = Doomed(j)
  BY DEF Doomed
<1>4. Sound(tun[i], c, s, Doomed(i)') /\ \A j \in Tunnels \ {i} : Doomed(j)' = Doomed(j)
  BY <1>3
<1> HIDE DEF Inv, Sound, Doomed
<1> QED
  BY <1>1, <1>2, <1>4, Replaced

LEMMA ByPeers == ASSUME Inv, NEW i \in Tunnels, Peers(i) PROVE Inv'
<1> DEFINE t == tun[i]
           c == client[i]
           s == server[i]
           d == Doomed(i)
<1>1. /\ t \in TunnelRecs /\ c \in ClientRecs /\ s \in ServerRecs /\ Sound(t, c, s, d)
      /\ client = [client EXCEPT ![i] = c] /\ server = [server EXCEPT ![i] = s]
  BY DEF Inv, PassInv
<1> HIDE DEF d
\* What the client's own record may become.
<1>2. ASSUME NEW c2 \in ClientRecs, client' = [client EXCEPT ![i] = c2],
             UNCHANGED <<tun, server, opening, cur, at, drop>>, Sound(t, c2, s, d)
      PROVE  Inv'
  BY <1>1, <1>2, PeerStep DEF d
<1>3. ASSUME NEW s2 \in ServerRecs, server' = [server EXCEPT ![i] = s2],
             UNCHANGED <<tun, client, opening, cur, at, drop>>, Sound(t, c, s2, d)
      PROVE  Inv'
  BY <1>1, <1>3, PeerStep DEF d
<1>4. CASE Connects(i)
  <2> DEFINE c2 == [c EXCEPT !.connected = TRUE]
  <2>1. /\ c2 \in ClientRecs /\ c2.kind = c.kind /\ c2.out = c.out /\ c2.said = c.said
        /\ c2.sent = c.sent /\ c2.gone = c.gone /\ c2.got = c.got
    BY <1>1 DEF ClientRecs
  <2>2. client' = [client EXCEPT ![i] = c2] /\ UNCHANGED <<tun, server, opening, cur, at, drop>>
    BY <1>4 DEF Connects
  <2> HIDE DEF c2
  <2>3. Sound(t, c2, s, d)
    BY <1>1, <2>1, PeerUnseen
  <2> QED
    BY <1>2, <2>1, <2>2, <2>3
<1>5. CASE ClientSends(i)
  <2>1. PICK u \in NextSaid(c) :
          client' = [client EXCEPT ![i].out = Append(@, u), ![i].said = AtMost(2, @ + 1),
                                   ![i].sent = u.n]
    BY <1>5 DEF ClientSends
  <2> DEFINE c2 == [c EXCEPT !.out = Append(@, u), !.said = AtMost(2, @ + 1), !.sent = u.n]
  <2>2. ~c.gone /\ UNCHANGED <<tun, server, opening, cur, at, drop>>
    BY <1>5 DEF ClientSends, Connected
  <2>3. client' = [client EXCEPT ![i] = c2]
    <3>1. client \in [Tunnels -> ClientRecs]
      BY DEF Inv, PassInv
    <3> QED
      BY <1>1, <2>1, <3>1 DEF ClientRecs
  <2>4. c2 \in ClientRecs /\ Sound(t, c2, s, d)
    BY <1>1, <2>2, ClientSays
  <2> HIDE DEF c2
  <2> QED
    BY <1>2, <2>2, <2>3, <2>4
<1>6. CASE ClientEnds(i)
  <2>1. UNCHANGED <<tun, server, opening, cur, at, drop>>
    BY <1>6 DEF ClientEnds
  <2>2. CASE client' = [client EXCEPT ![i].shut = TRUE]
    <3> DEFINE c2 == [c EXCEPT !.shut = TRUE]
    <3>1. /\ c2 \in ClientRecs /\ c2.kind = c.kind /\ c2.out = c.out /\ c2.said = c.said
          /\ c2.sent = c.sent /\ c2.gone = c.gone /\ c2.got = c.got
      BY <1>1 DEF ClientRecs
    <3>2. client' = [client EXCEPT ![i] = c2]
      BY <2>2
    <3> HIDE DEF c2
    <3>3. Sound(t, c2, s, d)
      BY <1>1, <3>1, PeerUnseen
    <3> QED
      BY <1>2, <2>1, <3>1, <3>2, <3>3
  <2>3. CASE client' = [client EXCEPT ![i].gone = TRUE, ![i].out = <<>>]
    <3> DEFINE c2 == [c EXCEPT !.gone = TRUE, !.out = <<>>]
    <3>1. /\ c2 \in ClientRecs /\ c2.kind = c.kind /\ c2.out = <<>> /\ c2.said = c.said
          /\ c2.sent = c.sent /\ c2.gone = TRUE /\ c2.got = c.got
      <4>1. \A q \in Seq(Units) : [c EXCEPT !.gone = TRUE, !.out = q] \in ClientRecs
        BY <1>1 DEF ClientRecs
      <4>2. <<>> \in Seq(Units)
        OBVIOUS
      <4>3. c2 \in ClientRecs
        BY <4>1, <4>2, Zenon
      <4> QED
        BY <1>1, <4>3 DEF ClientRecs
    <3>2. client' = [client EXCEPT ![i] = c2]
      BY <1>1, <2>3 DEF ClientRecs, Inv, PassInv
    <3> HIDE DEF c2
    <3>3. Sound(t, c2, s, d)
      BY <1>1, <3>1, ClientGone
    <3> QED
      BY <1>2, <2>1, <3>1, <3>2, <3>3
  <2> QED
    BY <1>6, <2>2, <2>3 DEF ClientEnds
<1>7. CASE ClientReads(i)
  <2> DEFINE c2 == [c EXCEPT !.room = Room]
  <2>1. /\ c2 \in ClientRecs /\ c2.kind = c.kind /\ c2.out = c.out /\ c2.said = c.said
        /\ c2.sent = c.sent /\ c2.gone = c.gone /\ c2.got = c.got
    <3>1. Room \in 0 .. Room
      BY TunnelAssumption
    <3> QED
      BY <1>1, <3>1 DEF ClientRecs
  <2>2. client' = [client EXCEPT ![i] = c2] /\ UNCHANGED <<tun, server, opening, cur, at, drop>>
    BY <1>7 DEF ClientReads
  <2> HIDE DEF c2
  <2>3. Sound(t, c2, s, d)
    BY <1>1, <2>1, PeerUnseen
  <2> QED
    BY <1>2, <2>1, <2>2, <2>3
<1>8. CASE ServerSends(i)
  <2>1. PICK u \in ServerSays(i) :
          server' = [server EXCEPT ![i].out = Append(@, u), ![i].sent = @ + 1,
                       ![i].cookie = IF u.what \in {"fake", "bad"} THEN u.what ELSE @]
    BY <1>8 DEF ServerSends
  <2>2. /\ t.life = "live" /\ t.dest # 0 /\ ~s.eof
        /\ UNCHANGED <<tun, client, opening, cur, at, drop>>
    BY <1>8 DEF ServerSends, Channel
  <2> DEFINE s2 == Saying(s, u)
  <2>3. server' = [server EXCEPT ![i] = s2]
    <3>1. server \in [Tunnels -> ServerRecs]
      BY DEF Inv, PassInv
    <3> QED
      BY <1>1, <2>1, <3>1 DEF ServerRecs, Saying
  <2>4. \/ t.kind = "X" /\ s.sent = 0 /\ u = Unit("head")
        \/ t.kind = "X" /\ s.sent = 1 /\ u \in {Unit("fake"), Unit("bad")}
        \/ /\ t.kind = "X" => s.sent # 0 /\ s.sent # 1
           /\ s.sent + 1 \in 1 .. MaxData /\ u = Data(s.sent + 1)
    BY <2>1, Zenon DEF ServerSays
  <2>5. s2 \in ServerRecs /\ Sound(t, c, s2, d)
    BY <1>1, <2>2, <2>4, FarSays
  <2> HIDE DEF s2
  <2> QED
    BY <1>3, <2>2, <2>3, <2>5
<1>9. CASE ServerEnds(i)
  <2>1. UNCHANGED <<tun, client, opening, cur, at, drop>>
    BY <1>9 DEF ServerEnds
  <2>2. PICK b \in BOOLEAN : server' = [server EXCEPT ![i] = [s EXCEPT !.eof = TRUE, !.closed = b]]
    <3>1. CASE server' = [server EXCEPT ![i].eof = TRUE]
      <4>1. [s EXCEPT !.eof = TRUE] = [s EXCEPT !.eof = TRUE, !.closed = s.closed]
            /\ s.closed \in BOOLEAN
        BY <1>1 DEF ServerRecs
      <4>2. server' = [server EXCEPT ![i] = [s EXCEPT !.eof = TRUE]]
        BY <3>1
      <4> QED
        BY <4>1, <4>2
    <3>2. CASE server' = [server EXCEPT ![i].eof = TRUE, ![i].closed = TRUE]
      <4>1. server' = [server EXCEPT ![i] = [s EXCEPT !.eof = TRUE, !.closed = TRUE]]
        BY <1>1, <3>2 DEF ServerRecs, Inv, PassInv
      <4> QED
        BY <4>1
    <3> QED
      BY <1>9, <3>1, <3>2 DEF ServerEnds
  <2> DEFINE s2 == [s EXCEPT !.eof = TRUE, !.closed = b]
  <2>3. /\ s2 \in ServerRecs /\ s2.out = s.out /\ s2.sent = s.sent /\ s2.cookie = s.cookie
        /\ s2.eof = TRUE /\ s2.got = s.got
    BY <1>1 DEF ServerRecs
  <2>4. server' = [server EXCEPT ![i] = s2]
    BY <2>2
  <2> HIDE DEF s2
  <2>5. Sound(t, c, s2, d)
    BY <1>1, <2>3, PeerUnseen
  <2> QED
    BY <1>3, <2>1, <2>3, <2>4, <2>5
<1> QED
  BY <1>4, <1>5, <1>6, <1>7, <1>8, <1>9 DEF Peers

----------------------------------------------------------------------------
(* What the invariant says of the system.                                  *)

LEMMA Starts == ASSUME Init PROVE Inv
<1>1. /\ tun = [i \in Tunnels |-> NoTunnel] /\ server = [i \in Tunnels |-> Far]
      /\ client \in [Tunnels -> {Quiet(k) : k \in Kinds}]
      /\ opening = 0 /\ cur = 0 /\ at = "accept" /\ drop = FALSE
  BY DEF Init, Kinds
<1>2. N \in Nat /\ Room \in 0 .. Room /\ 0 \in 0 .. N /\ HighWater \in Nat \ {0}
      /\ Chunk \in Nat \ {0}
  BY TunnelAssumption
<1>3. <<>> \in Seq(Units) /\ Len(<<>>) = 0 /\ <<>> \o <<>> = <<>>
  OBVIOUS
<1>4. NoTunnel \in TunnelRecs
  BY <1>2, <1>3 DEF NoTunnel, TunnelRecs, Lives, Kinds
<1>5. Far \in ServerRecs
  BY <1>3 DEF Far, ServerRecs
<1>6. ASSUME NEW k \in Kinds PROVE Quiet(k) \in ClientRecs
  BY <1>2, <1>3 DEF Quiet, ClientRecs
<1>7. ASSUME NEW k \in Kinds PROVE Sound(NoTunnel, Quiet(k), Far, FALSE)
  <2> DEFINE t == NoTunnel
             c == Quiet(k)
             s == Far
  <2>1. /\ t.life = "none" /\ t.kind = "L" /\ t.socks = 0 /\ t.target = FALSE /\ t.dest = 0
        /\ t.buf = <<>> /\ t.setup = <<>> /\ t.ready = FALSE /\ t.toChannel = <<>>
        /\ t.toSock = <<>> /\ t.chanEof = FALSE
    BY DEF NoTunnel
  <2>2. /\ c.kind = k /\ c.said = 0 /\ c.out = <<>> /\ c.sent = 0 /\ c.gone = FALSE
        /\ c.got = <<>>
    BY DEF Quiet
  <2>3. s.out = <<>> /\ s.sent = 0 /\ s.eof = FALSE /\ s.got = <<>>
    BY DEF Far
  <2>4. t = NoTunnel
    OBVIOUS
  <2> HIDE DEF t, c, s
  <2>5. KindInv(t, c) /\ IdleInv(t, c, s) /\ EndInv(t, c, s)
    BY <2>1, <2>2, <2>3, <2>4 DEF KindInv, IdleInv, EndInv
  <2>6. HandInv(t, c, s, FALSE)
    BY <2>1, <2>2, <2>3 DEF HandInv
  <2>7. UpInv(t, c, s)
    <3>1. Sent(t, s) = <<>> /\ UpStream(t, c, s) = <<>>
      BY <1>3, <2>1, <2>2, <2>3 DEF Sent, UpStream
    <3> QED
      BY <1>3, <2>2, <3>1 DEF UpInv
  <2>8. DownInv(t, c, s)
    <3>1. DownStream(t, c, s) = <<>>
      BY <1>3, <2>1, <2>2, <2>3 DEF DownStream, Heard
    <3>2. Told(t, c) = 0
      BY <2>1 DEF Told
    <3> QED
      BY <1>3, <2>1, <2>2, <2>3, <3>1, <3>2 DEF DownInv
  <2>9. BoundInv(t, FALSE)
    BY <1>2, <1>3, <2>1 DEF BoundInv
  <2> QED
    BY <1>4, <1>5, <1>6, <2>5, <2>6, <2>7, <2>8, <2>9 DEF Sound, t, c, s
<1>8. PassInv
  <2>1. client \in [Tunnels -> ClientRecs]
    BY <1>1, <1>6
  <2> QED
    BY <1>1, <1>2, <1>4, <1>5, <2>1 DEF PassInv
<1>9. ASSUME NEW i \in Tunnels PROVE Sound(tun[i], client[i], server[i], Doomed(i))
  <2>1. tun[i] = NoTunnel /\ server[i] = Far /\ Doomed(i) = FALSE
    BY <1>1 DEF Doomed
  <2>2. PICK k \in Kinds : client[i] = Quiet(k)
    BY <1>1
  <2> QED
    BY <1>7, <2>1, <2>2
<1> QED
  BY <1>8, <1>9 DEF Inv

LEMMA Keeps == ASSUME Inv, [Next]_vars PROVE Inv'
<1>1. CASE Pump
  BY <1>1, ByAccept, BySocks, ByOpen, ByUp, ByDown DEF Pump
<1>2. CASE \E i \in Tunnels : Peers(i)
  BY <1>2, ByPeers
<1>3. CASE UNCHANGED vars
  BY <1>3 DEF vars, Inv, PassInv, Doomed
<1> QED
  BY <1>1, <1>2, <1>3 DEF Next

\* Between any two calls of the pump, and whatever the peers do, every tunnel's streams
\* are accounted for: the inductive invariant of what follows.
THEOREM Sounds == Spec => []Inv
<1> QED
  BY Starts, Keeps, PTL DEF Spec

LEMMA Typed == ASSUME Inv PROVE TypeOK
<1>1. ASSUME NEW i \in Tunnels
      PROVE  /\ tun[i].life \in {"none", "live", "closed", "dropped"}
             /\ tun[i].socks \in 0 .. 3 /\ tun[i].dest \in 0 .. N
             /\ client[i].room \in 0 .. Room
             /\ \A q \in {tun[i].buf, tun[i].setup, tun[i].toChannel, tun[i].toSock,
                          client[i].out, client[i].got, server[i].out, server[i].got} :
                  q \in Seq(Units)
  <2>1. /\ tun[i] \in TunnelRecs /\ client[i] \in ClientRecs /\ server[i] \in ServerRecs
    BY DEF Inv, PassInv
  <2>2. /\ tun[i].life \in {"none", "live", "closed", "dropped"}
        /\ tun[i].socks \in 0 .. 3 /\ tun[i].dest \in 0 .. N
        /\ client[i].room \in 0 .. Room
    BY <2>1 DEF TunnelRecs, ClientRecs, Lives
  <2>3. /\ tun[i].buf \in Seq(Units) /\ tun[i].setup \in Seq(Units)
        /\ tun[i].toChannel \in Seq(Units) /\ tun[i].toSock \in Seq(Units)
        /\ client[i].out \in Seq(Units) /\ client[i].got \in Seq(Units)
        /\ server[i].out \in Seq(Units) /\ server[i].got \in Seq(Units)
    BY <2>1, Streams
  <2> QED
    BY <2>2, <2>3, Zenon
<1> QED
  BY <1>1 DEF TypeOK, Inv, PassInv

LEMMA InOrderUp == ASSUME Inv PROVE ToServerInOrder
<1> SUFFICES ASSUME NEW i \in Tunnels, NEW k \in 1 .. Len(server[i].got)
             PROVE  server[i].got[k] = Data(k)
  BY DEF ToServerInOrder
<1> DEFINE t == tun[i]
           c == client[i]
           s == server[i]
           w == Sent(t, s)
<1>1. t \in TunnelRecs /\ c \in ClientRecs /\ s \in ServerRecs /\ UpInv(t, c, s)
  BY DEF Inv, PassInv, Sound
<1>2. t.toChannel \in Seq(Units) /\ s.got \in Seq(Units) /\ w \in Seq(Units)
  BY <1>1, Streams
<1>3. k \in 1 .. Len(s.got)
  OBVIOUS
<1> HIDE DEF t, c, s, w
<1>4. Len(s.got) <= Len(w) /\ w[k] = s.got[k]
  BY <1>2, <1>3, Leads DEF w, Sent
<1>5. Len(w) \in Nat /\ Len(s.got) \in Nat
  BY <1>2, LenProperties
<1>6. k \in 1 .. Len(w)
  BY <1>3, <1>4, <1>5
<1>7. s.got[k] = Data(k)
  BY <1>1, <1>4, <1>6 DEF UpInv, w
<1> QED
  BY <1>7 DEF s

LEMMA InOrderDown == ASSUME Inv PROVE ToClientInOrder
<1> SUFFICES ASSUME NEW i \in Tunnels, NEW k \in 1 .. Len(client[i].got)
             PROVE  LET o == Opening(client[i].kind)
                        at0 == IF client[i].kind = "X" THEN 0 ELSE Len(o)
                    IN  client[i].got[k] = IF k <= Len(o) THEN o[k] ELSE Data(k - at0)
  BY DEF ToClientInOrder
<1> DEFINE t == tun[i]
           c == client[i]
           s == server[i]
<1>1. /\ t \in TunnelRecs /\ c \in ClientRecs /\ s \in ServerRecs /\ DownInv(t, c, s)
      /\ c.kind \in Kinds
  BY DEF Inv, PassInv, Sound, ClientRecs
<1>2. c.got[k] = Word(t, c, s, k) /\ k \in Nat /\ k >= 1 /\ c.got # <<>>
  <2>1. Len(c.got) \in Nat /\ c.got[k] = Word(t, c, s, k)
    BY <1>1, HeardBound
  <2> QED
    BY <2>1
<1> HIDE DEF t, c, s
<1>3. k = 1 \/ k = 2 \/ k > 2
  BY <1>2
<1> USE DEF c
<1>4. CASE c.kind = "L"
  <2>1. Opening(c.kind) = <<>> /\ Len(<<>>) = 0 /\ ~(k <= 0) /\ k - 0 = k
    BY <1>2, <1>4 DEF Opening
  <2>2. c.got[k] = Data(k)
    BY <1>2, <1>4 DEF Word
  <2> QED
    BY <1>4, <2>1, <2>2
<1>5. CASE c.kind = "D"
  <2> DEFINE o == <<Unit("method"), Unit("ok")>>
  <2>1. Opening(c.kind) = o /\ Len(o) = 2 /\ o[1] = Unit("method") /\ o[2] = Unit("ok")
    BY <1>5 DEF Opening
  <2>2. c.got[k] = (IF k <= 2 THEN o[k] ELSE Data(k - 2))
    BY <1>2, <1>3, <1>5, <2>1 DEF Word
  <2> HIDE DEF o
  <2> QED
    BY <1>5, <2>1, <2>2
<1>6. CASE c.kind = "X"
  <2> DEFINE o == <<Unit("head"), Unit("real")>>
  <2>1. Opening(c.kind) = o /\ Len(o) = 2 /\ o[1] = Unit("head") /\ o[2] = Unit("real")
    BY <1>6 DEF Opening
  <2>2. t.ready
    BY <1>1, <1>2, <1>6 DEF DownInv
  <2>3. c.got[k] = (IF k <= 2 THEN o[k] ELSE Data(k))
    BY <1>2, <1>3, <1>6, <2>1, <2>2 DEF Word
  <2>4. k - 0 = k
    BY <1>2
  <2> HIDE DEF o
  <2> QED
    BY <1>6, <2>1, <2>3, <2>4
<1> QED
  BY <1>1, <1>4, <1>5, <1>6 DEF Kinds

LEMMA AllHeard == ASSUME Inv PROVE NothingLostToClient
<1> SUFFICES ASSUME NEW i \in Tunnels, tun[i].life = "closed",
                    tun[i].kind = "X" => tun[i].ready
             PROVE  /\ server[i].out = <<>>
                    /\ Len(client[i].got)
                         = server[i].sent + (IF tun[i].kind = "D" THEN 2 ELSE 0)
  BY DEF NothingLostToClient
<1> DEFINE t == tun[i]
           c == client[i]
           s == server[i]
<1>1. /\ t \in TunnelRecs /\ c \in ClientRecs /\ s \in ServerRecs
      /\ Sound(t, c, s, Doomed(i))
  BY DEF Inv, PassInv
<1>2. /\ KindInv(t, c) /\ HandInv(t, c, s, Doomed(i)) /\ IdleInv(t, c, s)
      /\ DownInv(t, c, s) /\ EndInv(t, c, s)
  BY <1>1 DEF Sound
<1>3. t.life = "closed" /\ (t.kind = "X" => t.ready)
  OBVIOUS
<1>4. c.got \in Seq(Units) /\ s.sent \in Nat
  BY <1>1, Streams DEF ServerRecs
<1> HIDE DEF t, c, s
<1>5. t.kind = c.kind /\ t.toSock = <<>> /\ s.out = <<>> /\ t.dest # 0
  BY <1>2, <1>3 DEF KindInv, EndInv, IdleInv
<1>6. t.setup = <<>>
  BY <1>2, <1>3, <1>5 DEF DownInv
<1>7. Len(c.got) = Told(t, c) + s.sent
  <2>1. DownStream(t, c, s) = c.got
    BY <1>4, <1>5, <1>6, Joins DEF DownStream, Heard
  <2> QED
    BY <1>2, <2>1 DEF DownInv
<1>8. Told(t, c) = (IF t.kind = "D" THEN 2 ELSE 0)
  <2>1. c.kind = "D" => t.socks = 3
    BY <1>2, <1>5 DEF HandInv
  <2> QED
    BY <1>5, <2>1 DEF Told
<1>9. Len(c.got) = s.sent + (IF t.kind = "D" THEN 2 ELSE 0)
  BY <1>4, <1>7, <1>8
<1> QED
  BY <1>5, <1>9 DEF t, c, s

LEMMA CookieChecked == ASSUME Inv PROVE CookieBeforeDisplay
<1> SUFFICES ASSUME NEW i \in Tunnels, tun[i].kind = "X"
             PROVE  /\ client[i].got # <<>> => server[i].cookie = "fake"
                    /\ \A k \in 1 .. Len(client[i].got) :
                         client[i].got[k].what \notin {"fake", "bad"}
  BY DEF CookieBeforeDisplay
<1> DEFINE t == tun[i]
           c == client[i]
           s == server[i]
<1>1. /\ t \in TunnelRecs /\ c \in ClientRecs /\ s \in ServerRecs
      /\ KindInv(t, c) /\ DownInv(t, c, s) /\ t.kind = "X"
  BY DEF Inv, PassInv, Sound
<1> HIDE DEF t, c, s
<1>2. c.kind = "X"
  <2>1. NoTunnel.kind = "L"
    BY DEF NoTunnel
  <2> QED
    BY <1>1, <2>1 DEF KindInv
<1>3. c.got # <<>> => t.ready /\ s.cookie = "fake"
  BY <1>1, <1>2 DEF DownInv
<1>4. ASSUME NEW k \in 1 .. Len(c.got) PROVE c.got[k].what \notin {"fake", "bad"}
  <2>1. Len(c.got) \in Nat /\ c.got[k] = Word(t, c, s, k)
    BY <1>1, HeardBound
  <2>2. c.got # <<>> /\ (k = 1 \/ k = 2 \/ k > 2)
    BY <2>1
  <2>3. t.ready
    BY <1>3, <2>2
  <2> QED
    BY <1>2, <2>1, <2>2, <2>3 DEF Word, Unit, Data
<1> QED
  BY <1>3, <1>4 DEF t, c, s

LEMMA Bounded == ASSUME Inv PROVE BacklogBounded
  BY DEF Inv, Sound, BoundInv, BacklogBounded

\* Both directions of every forward and X11 channel arrive in order, once and to the
\* far side's end, for any number of tunnels, any mark, any buffer and any split of
\* the reads and writes (PumpTunnels, SocksStep and X11Intake of session.cpp).
THEOREM TunnelStreamsWhole == Spec => []StreamsWhole
<1>1. Inv => StreamsWhole
  BY Typed, InOrderUp, InOrderDown, AllHeard DEF StreamsWhole
<1> QED
  BY <1>1, Sounds, PTL

\* No X11 channel reaches the display before X11Intake has checked its cookie, and
\* the display never sees the cookie the remote host was given.
THEOREM TunnelCookieBeforeDisplay == Spec => []CookieBeforeDisplay
<1> QED
  BY CookieChecked, Sounds, PTL

\* Neither buffer of a tunnel grows past the high-water mark and one read, however
\* long a peer does not read.
THEOREM TunnelBacklogBounded == Spec => []BacklogBounded
<1> QED
  BY Bounded, Sounds, PTL
=============================================================================
