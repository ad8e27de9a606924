---------------------------- MODULE AmberXProofs ----------------------------
(***************************************************************************)
(* Theorems about AmberX, for any number of channels, any caps and budgets *)
(* and any number of requests: both streams of every channel arrive in     *)
(* order and whole through the pipe and its four threads, and the channel  *)
(* tables at its two ends differ by no more than the frames under way.     *)
(***************************************************************************)
EXTENDS AmberX, FiniteSetTheorems, SequenceTheorems, TLAPS

Lives  == {"none", "live", "over"}
Frames == [type : {"Hello", "HelloAck", "AuthProof"}, ch : {0}, n : {0}]
          \cup [type : {"open", "close", "error"}, ch : Ids, n : {0}]
          \cup [type : {"data"}, ch : Ids, n : Nat]
Events   == [type : {"open", "close"}, ch : Ids]
Tunnels  == [life : Lives, toChannel : Seq(Nat), chanEof : BOOLEAN]
Channels == [out : Seq(Nat), said : Nat, eof : BOOLEAN, got : Seq(Nat)]
Bufs     == [there : BOOLEAN, data : Seq(Nat), closedByPeer : BOOLEAN]
Clients  == [life : Lives, ran : Seq(Nat), wrote : Nat, out : Seq(Nat)]

NewSsh    == [out |-> <<>>, said |-> 0, eof |-> FALSE, got |-> <<>>]
NewClient == [life |-> "none", ran |-> <<>>, wrote |-> 0, out |-> <<>>]

PipeTypes == down \in Seq(Frames) /\ up \in Seq(Frames) /\ q \in Seq(Frames)
EndTypes  ==
  /\ events \in Seq(Events)
  /\ tun \in [Ids -> Tunnels] /\ ssh \in [Ids -> Channels]
  /\ chan \in [Ids -> Bufs] /\ cli \in [Ids -> Clients]
Types ==
  /\ st \in {"off", "listening", "hello", "ready"}
  /\ hst \in {"none", "dialling", "hello", "proof", "serving", "gone"}
  /\ open \subseteq Ids /\ next \in 1 .. N + 1 /\ budget \in 0 .. Budget /\ ended \in BOOLEAN
  /\ PipeTypes /\ EndTypes

\* Whether some frame or event of s is channel c's.
Names(s, c)    == \E i \in 1 .. Len(s) : s[i].ch = c
Holds(s, x)    == \E i \in 1 .. Len(s) : s[i] = x
\* A channel's open comes once and before all else of the channel.
OpensFirst(s) == \A i, j \in 1 .. Len(s) : s[i].type = "open" /\ s[j].ch = s[i].ch => i <= j

\* There are no channels before the handshake is over, and none without a host.
PhaseInv ==
  /\ hst = "none" => st = "off"
  /\ st \in {"listening", "hello"} \/ hst = "none" => next = 1 /\ open = {}

\* The life of a channel: its id is used once; until the host takes the open nothing
\* else of it is there; its client is made of its one open event; the end of the
\* tunnel is the last thing the controller says of it.
FreshInv(c) ==
  c >= next => /\ tun[c] = NoTunnel /\ ssh[c] = NewSsh /\ chan[c] = NoBuf /\ cli[c] = NewClient
               /\ ~Names(down, c) /\ ~Names(up, c) /\ ~Names(q, c) /\ ~Names(events, c)
HostInv(c) ==
  /\ InFlight(c, "open") => chan[c] = NoBuf /\ cli[c] = NewClient /\ ~Names(events, c)
  /\ Holds(events, Event("open", c)) => chan[c].there /\ cli[c] = NewClient
  /\ cli[c].life = "live" => chan[c].there
  /\ chan[c].closedByPeer \/ InFlight(c, "close") => tun[c].life = "over"

\* The tables: the controller's holds the live tunnels, and a channel the host takes
\* data on, or will, is in it or its close is under way.
Taking(c) == OpenBuf(c) \/ InFlight(c, "open")
TableInv(c) ==
  st = "ready" => /\ tun[c].life = "live" => c \in open
                  /\ hst # "gone" /\ c \in open => tun[c].life = "live"
                  /\ hst # "gone" /\ Taking(c) => c \in open \/ InFlight(c, "close")
LiveInv(c) == tun[c].life = "live" => st = "ready"

\* s counts on from k.
Counts(s, k) == \A i \in 1 .. Len(s) : s[i] = k + i

\* The four places of a request, from the X server back to the program.
RequestsCount(ran, data, w, out, said, max, taking, live) ==
  /\ Counts(ran, 0) /\ Counts(data, Len(ran))
  /\ taking => Counts(w, Len(ran) + Len(data))
  /\ live /\ taking => /\ Counts(out, Len(ran) + Len(data) + Len(w))
                       /\ Len(ran) + Len(data) + Len(w) + Len(out) = said
  /\ Len(ran) + Len(data) + Len(w) + Len(out) <= said /\ said <= max
RequestInv(c) ==
  RequestsCount(cli[c].ran, chan[c].data, Units(down, c), ssh[c].out, ssh[c].said, MaxData[c],
                Taking(c), tun[c].life = "live")

\* The five places of a reply, from the program back to the X server.
RepliesCount(got, toChannel, in, w, out, wrote, live) ==
  /\ Counts(got, 0)
  /\ live => /\ Counts(toChannel, Len(got)) /\ Counts(in, Len(got) + Len(toChannel))
             /\ Counts(w, Len(got) + Len(toChannel) + Len(in))
             /\ Counts(out, Len(got) + Len(toChannel) + Len(in) + Len(w))
             /\ Len(got) + Len(toChannel) + Len(in) + Len(w) + Len(out) = wrote
ReplyInv(c) ==
  RepliesCount(ssh[c].got, tun[c].toChannel, Units(q, c), Units(up, c), cli[c].out,
               cli[c].wrote, tun[c].life = "live")

Sound(c) == /\ FreshInv(c) /\ HostInv(c) /\ TableInv(c) /\ LiveInv(c)
            /\ RequestInv(c) /\ ReplyInv(c)
Inv ==
  /\ Types /\ PhaseInv /\ OpensFirst(down) /\ OpensFirst(events)
  /\ \A c \in Ids : Sound(c)

----------------------------------------------------------------------------
(* The units of a channel.                                                 *)

Rank(S, i) == Cardinality({j \in S : j <= i})
Mine(frames, c) == {i \in 1 .. Len(frames) : frames[i].type = "data" /\ frames[i].ch = c}
Nth(S, k) == CHOOSE i \in S : Rank(S, i) = k

\* The units, by the positions of their frames.
LEMMA UnitsAre ==
  ASSUME NEW f, NEW c
  PROVE  Units(f, c) = [k \in 1 .. Cardinality(Mine(f, c)) |-> f[Nth(Mine(f, c), k)].n]
  BY DEF Units, Mine, Nth, Rank

\* The members of a finite set of numbers have the ranks from 1 on, each its own.
LEMMA Ranks ==
  ASSUME NEW S, \A x \in S : x \in Nat, IsFiniteSet(S)
  PROVE  /\ Cardinality(S) \in Nat
         /\ \A i \in S : Rank(S, i) \in 1 .. Cardinality(S)
         /\ \A k \in 1 .. Cardinality(S) : Nth(S, k) \in S /\ Rank(S, Nth(S, k)) = k
         /\ \A i \in S : Nth(S, Rank(S, i)) = i
<1> DEFINE n == Cardinality(S)
           Upto(x) == {y \in S : y <= x}
           rank == [x \in S |-> Rank(S, x)]
<1>1. n \in Nat
  BY FS_CardinalityType
<1>2. \A x \in S : IsFiniteSet(Upto(x)) /\ Rank(S, x) \in Nat /\ Rank(S, x) <= n
  <2> SUFFICES ASSUME NEW x \in S
               PROVE  IsFiniteSet(Upto(x)) /\ Rank(S, x) \in Nat /\ Rank(S, x) <= n
    OBVIOUS
  <2>1. Upto(x) \in SUBSET S /\ Rank(S, x) = Cardinality(Upto(x))
    BY DEF Rank
  <2> HIDE DEF Upto
  <2> QED
    BY <2>1, FS_Subset, FS_CardinalityType
<1>3. \A x \in S : Rank(S, x) # 0
  <2> SUFFICES ASSUME NEW x \in S PROVE Rank(S, x) # 0
    OBVIOUS
  <2>1. x \in Upto(x) /\ Rank(S, x) = Cardinality(Upto(x))
    BY DEF Rank
  <2> HIDE DEF Upto
  <2> QED
    BY <1>2, <2>1, FS_EmptySet
<1>4. \A x, y \in S : x < y => Rank(S, x) < Rank(S, y)
  <2> SUFFICES ASSUME NEW x \in S, NEW y \in S, x < y
               PROVE  Rank(S, x) < Rank(S, y)
    OBVIOUS
  <2>0. \A z \in S : z \in Nat /\ (z <= x => z <= y) /\ y <= y /\ ~(y <= x)
    OBVIOUS
  <2>1. Upto(x) \in SUBSET Upto(y) /\ y \in Upto(y) /\ y \notin Upto(x)
    BY <2>0
  <2>2. Rank(S, x) = Cardinality(Upto(x)) /\ Rank(S, y) = Cardinality(Upto(y))
    BY DEF Rank
  <2> HIDE DEF Upto
  <2>3. Upto(x) # Upto(y)
    BY <2>1
  <2>4. Rank(S, x) <= Rank(S, y) /\ Rank(S, x) # Rank(S, y)
    BY <1>2, <2>1, <2>2, <2>3, FS_Subset
  <2> QED
    BY <1>2, <2>4
<1> HIDE DEF n, Upto
<1>2a. \A x \in S : x \in Nat /\ Rank(S, x) \in 1 .. n
  BY <1>1, <1>2, <1>3
<1>5. \A x, y \in S : Rank(S, x) = Rank(S, y) => x = y
  <2> SUFFICES ASSUME NEW x \in S, NEW y \in S, Rank(S, x) = Rank(S, y) PROVE x = y
    OBVIOUS
  <2>1. ~(x < y) /\ ~(y < x)
    BY <1>1, <1>2a, <1>4
  <2> QED
    BY <1>2a, <2>1
<1>6. rank \in [S -> 1 .. n] /\ \A x \in S : rank[x] = Rank(S, x)
  BY <1>2a
<1> HIDE DEF rank
<1>7. rank \in Injection(S, 1 .. n)
  BY <1>5, <1>6 DEF Injection, IsInjective
<1>8. rank \in Surjection(S, 1 .. n)
  <2>1. IsFiniteSet(1 .. n) /\ Cardinality(1 .. n) = n
    BY <1>1, FS_Interval
  <2> QED
    BY <1>7, <2>1, FS_Injection DEF n
<1>9. \A k \in 1 .. n : \E x \in S : Rank(S, x) = k
  BY <1>6, <1>8 DEF Surjection
<1>10. \A k \in 1 .. n : Nth(S, k) \in S /\ Rank(S, Nth(S, k)) = k
  BY <1>9 DEF Nth
<1>11. \A i \in S : Nth(S, Rank(S, i)) = i
  BY <1>2a, <1>5, <1>10
<1> QED
  BY <1>1, <1>2a, <1>10, <1>11 DEF n

\* A set moved up by m has as many members.
LEMMA Moved ==
  ASSUME NEW S, IsFiniteSet(S), \A x \in S : x \in Nat, NEW m \in Nat
  PROVE  /\ IsFiniteSet({m + x : x \in S})
         /\ Cardinality({m + x : x \in S}) = Cardinality(S)
<1> DEFINE T == {m + x : x \in S}
           g == [x \in S |-> m + x]
<1>1. g \in [S -> T] /\ (\A x, y \in S : g[x] = g[y] => x = y) /\ \A t \in T : \E x \in S : g[x] = t
  OBVIOUS
<1> HIDE DEF T, g
<1>2. g \in Bijection(S, T)
  BY <1>1 DEF Bijection, Injection, Surjection, IsInjective
<1>3. ExistsBijection(S, T)
  BY <1>2 DEF ExistsBijection
<1> QED
  BY <1>3, FS_Bijection DEF T

\* The frames of a channel are finitely many.
LEMMA MineFinite ==
  ASSUME NEW f \in Seq(Frames), NEW c
  PROVE  /\ IsFiniteSet(Mine(f, c)) /\ Cardinality(Mine(f, c)) \in Nat
         /\ \A i \in Mine(f, c) : i \in Nat
<1>1. Mine(f, c) \in SUBSET (1 .. Len(f)) /\ Len(f) \in Nat
  BY DEF Mine
<1>2. IsFiniteSet(1 .. Len(f))
  BY <1>1, FS_Interval
<1>3. IsFiniteSet(Mine(f, c))
  BY <1>1, <1>2, FS_Subset
<1> QED
  BY <1>1, <1>3, FS_CardinalityType DEF Mine

\* A function on the first numbers is a sequence.
LEMMA NumbersInRow ==
  ASSUME NEW n \in Nat, NEW u \in [1 .. n -> Nat]
  PROVE  u \in Seq(Nat) /\ Len(u) = n
  OBVIOUS

\* The units of two queues, one behind the other.
LEMMA UnitsOfBoth ==
  ASSUME NEW f \in Seq(Frames), NEW g \in Seq(Frames), NEW c
  PROVE  Units(f \o g, c) = Units(f, c) \o Units(g, c)
<1> DEFINE A == Mine(f, c)  B == Mine(g, c)  P == Mine(f \o g, c)
           m == Len(f)  M == {m + i : i \in B}
           a == Cardinality(A)  b == Cardinality(B)
<1>0. m \in Nat /\ f \o g \in Seq(Frames) /\ Len(f \o g) = m + Len(g)
  OBVIOUS
<1>1. /\ IsFiniteSet(A) /\ IsFiniteSet(B) /\ IsFiniteSet(P) /\ a \in Nat /\ b \in Nat
      /\ (\A i \in A : i \in Nat) /\ (\A i \in B : i \in Nat) /\ \A i \in P : i \in Nat
  BY <1>0, MineFinite
<1>2. P = A \cup M
  <2>1. \A i \in 1 .. m : (f \o g)[i] = f[i]
    OBVIOUS
  <2>2. \A i \in 1 .. Len(g) : (f \o g)[m + i] = g[i]
    OBVIOUS
  <2>3. ASSUME NEW i \in P PROVE i \in A \cup M
    <3>1. i \in 1 .. m + Len(g) /\ Len(g) \in Nat
      BY <1>0 DEF Mine
    <3>2. CASE i <= m
      BY <2>1, <3>1, <3>2, <1>0 DEF Mine
    <3>3. CASE ~(i <= m)
      <4>1. i - m \in 1 .. Len(g) /\ m + (i - m) = i
        BY <3>1, <3>3, <1>0
      <4>2. (f \o g)[i] = g[i - m]
        BY <2>2, <4>1
      <4>3. i - m \in B
        BY <4>1, <4>2 DEF Mine
      <4> QED
        BY <4>1, <4>3
    <3> QED
      BY <3>2, <3>3
  <2>4. ASSUME NEW i \in A PROVE i \in P
    BY <2>1, <1>0 DEF Mine
  <2>5. ASSUME NEW i \in B PROVE m + i \in P
    BY <2>2, <1>0 DEF Mine
  <2> QED
    BY <2>3, <2>4, <2>5
<1>3. IsFiniteSet(M) /\ Cardinality(M) = b
  <2> HIDE DEF A, B, P, m
  <2> QED
    BY <1>0, <1>1, Moved
<1>4. (\A i \in A : i <= m) /\ \A i \in B : i > 0
  BY DEF Mine
<1> HIDE DEF A, B, P, m
<1>5. Cardinality(P) = a + b
  <2>1. A \cap M = {}
    BY <1>0, <1>1, <1>4
  <2>2. Cardinality(A \cap M) = 0
    BY <2>1, FS_EmptySet
  <2> HIDE DEF M
  <2>3. Cardinality(A \cup M) = a + Cardinality(M) - Cardinality(A \cap M)
    BY <1>1, <1>3, FS_Union
  <2> QED
    BY <1>1, <1>2, <1>3, <2>2, <2>3
<1>6. \A i \in A : Rank(P, i) = Rank(A, i)
  <2> SUFFICES ASSUME NEW i \in A PROVE Rank(P, i) = Rank(A, i)
    OBVIOUS
  <2>1. {j \in P : j <= i} = {j \in A : j <= i}
    BY <1>0, <1>1, <1>2, <1>4
  <2> QED
    BY <2>1 DEF Rank
<1>7. \A i \in B : Rank(P, m + i) = a + Rank(B, i)
  <2> SUFFICES ASSUME NEW i \in B PROVE Rank(P, m + i) = a + Rank(B, i)
    OBVIOUS
  <2> DEFINE D == {j \in B : j <= i}  E == {m + j : j \in D}
  <2>1. {j \in P : j <= m + i} = A \cup E
    BY <1>0, <1>1, <1>2, <1>4
  <2>2. A \cap E = {}
    BY <1>0, <1>1, <1>4
  <2>3. D \in SUBSET B /\ \A x \in D : x \in Nat
    BY <1>1
  <2>4. Rank(B, i) = Cardinality(D)
    BY DEF Rank
  <2> HIDE DEF D
  <2>5. IsFiniteSet(D)
    BY <1>1, <2>3, FS_Subset
  <2>6. IsFiniteSet(E) /\ Cardinality(E) = Cardinality(D)
    BY <1>0, <2>3, <2>5, Moved
  <2> HIDE DEF E
  <2>7. Cardinality(D) \in Nat /\ Cardinality(A \cap E) = 0
    BY <2>2, <2>5, FS_EmptySet, FS_CardinalityType
  <2>8. Cardinality(A \cup E) = a + Cardinality(D)
    <3>1. Cardinality(A \cup E) = a + Cardinality(E) - Cardinality(A \cap E)
      BY <1>1, <2>6, FS_Union
    <3> QED
      BY <1>1, <2>6, <2>7, <3>1
  <2> QED
    BY <2>1, <2>4, <2>8 DEF Rank
<1>8. \A k \in 1 .. a : Nth(P, k) = Nth(A, k)
  BY <1>1, <1>2, <1>6, Ranks
<1>9. \A k \in 1 .. b : Nth(P, a + k) = m + Nth(B, k)
  <2> SUFFICES ASSUME NEW k \in 1 .. b PROVE Nth(P, a + k) = m + Nth(B, k)
    OBVIOUS
  <2>1. Nth(B, k) \in B /\ Rank(B, Nth(B, k)) = k
    BY <1>1, Ranks
  <2>2. m + Nth(B, k) \in P /\ Rank(P, m + Nth(B, k)) = a + k
    BY <1>2, <1>7, <2>1
  <2> QED
    BY <1>1, <2>2, Ranks
<1>10. \A k \in 1 .. a : (f \o g)[Nth(P, k)] = f[Nth(A, k)]
  <2>1. \A k \in 1 .. a : Nth(A, k) \in 1 .. m
    BY <1>1, Ranks DEF A, Mine, m
  <2>2. \A i \in 1 .. m : (f \o g)[i] = f[i]
    BY DEF m
  <2> QED
    BY <1>8, <2>1, <2>2
<1>11. \A k \in 1 .. b : (f \o g)[Nth(P, a + k)] = g[Nth(B, k)]
  <2>1. \A k \in 1 .. b : Nth(B, k) \in 1 .. Len(g)
    BY <1>1, Ranks DEF B, Mine
  <2>2. \A i \in 1 .. Len(g) : (f \o g)[m + i] = g[i]
    BY DEF m
  <2> QED
    BY <1>9, <2>1, <2>2
<1> DEFINE u == [k \in 1 .. a |-> f[Nth(A, k)].n]
           v == [k \in 1 .. b |-> g[Nth(B, k)].n]
           w == [k \in 1 .. a + b |-> (f \o g)[Nth(P, k)].n]
<1>12. Units(f, c) = u /\ Units(g, c) = v /\ Units(f \o g, c) = w
  BY <1>5, UnitsAre DEF A, B, P
<1>13. \A k \in 1 .. a + b : w[k] = IF k <= a THEN u[k] ELSE v[k - a]
  <2> SUFFICES ASSUME NEW k \in 1 .. a + b PROVE w[k] = IF k <= a THEN u[k] ELSE v[k - a]
    OBVIOUS
  <2>1. CASE k <= a
    <3>1. k \in 1 .. a
      BY <1>1, <2>1
    <3>2. w[k] = (f \o g)[Nth(P, k)].n /\ u[k] = f[Nth(A, k)].n
      BY <3>1
    <3> QED
      BY <1>10, <2>1, <3>1, <3>2
  <2>2. CASE ~(k <= a)
    <3>1. k - a \in 1 .. b /\ a + (k - a) = k
      BY <1>1, <2>2
    <3> QED
      BY <1>11, <2>2, <3>1
  <2> QED
    BY <2>1, <2>2
<1>14. u \in [1 .. a -> Nat] /\ v \in [1 .. b -> Nat] /\ w \in [1 .. a + b -> Nat]
  <2>1. \A h \in Seq(Frames) : \A i \in 1 .. Len(h) : h[i].n \in Nat
    BY DEF Frames
  <2>2. \A k \in 1 .. a : f[Nth(A, k)].n \in Nat
    BY <1>1, <2>1, Ranks DEF A, Mine
  <2>3. \A k \in 1 .. b : g[Nth(B, k)].n \in Nat
    BY <1>1, <2>1, Ranks DEF B, Mine
  <2>4. \A k \in 1 .. a + b : (f \o g)[Nth(P, k)].n \in Nat
    <3>1. \A k \in 1 .. a + b : Nth(P, k) \in P
      BY <1>1, <1>5, Ranks
    <3>2. \A i \in P : i \in 1 .. Len(f \o g)
      BY DEF P, Mine
    <3> QED
      BY <1>0, <2>1, <3>1, <3>2
  <2> QED
    BY <2>2, <2>3, <2>4
<1> HIDE DEF u, v, w, a, b
<1>15. w = u \o v
  <2>0. a \in Nat /\ b \in Nat /\ a + b \in Nat
    BY <1>1
  <2>1. u \in Seq(Nat) /\ v \in Seq(Nat) /\ w \in Seq(Nat) /\ Len(u) = a /\ Len(v) = b /\ Len(w) = a + b
    BY <1>14, <2>0, NumbersInRow, Zenon
  <2>2. \A k \in 1 .. a + b : (u \o v)[k] = IF k <= a THEN u[k] ELSE v[k - a]
    BY <2>1, ConcatProperties
  <2>3. u \o v \in Seq(Nat) /\ Len(u \o v) = a + b
    BY <2>1, ConcatProperties
  <2>4. \A k \in 1 .. Len(w) : w[k] = (u \o v)[k]
    BY <1>13, <2>1, <2>2
  <2> QED
    BY <2>1, <2>3, <2>4, SeqEqual
<1> QED
  BY <1>12, <1>15

\* The units of no frame, of one, and of the frames of a channel's data.
LEMMA UnitsOfNone == \A c : Units(<<>>, c) = <<>>
<1> SUFFICES ASSUME NEW c PROVE Units(<<>>, c) = <<>>
  OBVIOUS
<1>1. Mine(<<>>, c) = {}
  BY DEF Mine
<1>2. Cardinality(Mine(<<>>, c)) = 0
  BY <1>1, FS_EmptySet
<1>3. \A u : u = [k \in 1 .. 0 |-> <<>>[Nth(Mine(<<>>, c), k)].n] => u = <<>>
  OBVIOUS
<1> QED
  BY <1>2, <1>3, UnitsAre

LEMMA UnitsInRow ==
  ASSUME NEW n \in Nat, NEW f \in Seq(Frames), NEW c,
         \A i \in 1 .. Len(f) : f[i].type = "data" /\ f[i].ch = c, Len(f) = n
  PROVE  Units(f, c) = [k \in 1 .. n |-> f[k].n]
<1>1. Mine(f, c) = 1 .. n
  BY DEF Mine
<1>2. IsFiniteSet(1 .. n) /\ Cardinality(1 .. n) = n /\ \A x \in 1 .. n : x \in Nat
  BY FS_Interval
<1>3. \A k \in 1 .. n : Rank(1 .. n, k) = k
  <2> SUFFICES ASSUME NEW k \in 1 .. n PROVE Rank(1 .. n, k) = k
    OBVIOUS
  <2>1. {j \in 1 .. n : j <= k} = 1 .. k
    OBVIOUS
  <2>2. Cardinality(1 .. k) = k
    BY FS_Interval
  <2> QED
    BY <2>1, <2>2 DEF Rank
<1>4. \A k \in 1 .. n : Nth(1 .. n, k) = k
  <2> SUFFICES ASSUME NEW k \in 1 .. n PROVE Nth(1 .. n, k) = k
    OBVIOUS
  <2>1. Nth(1 .. n, Rank(1 .. n, k)) = k
    BY <1>2, Ranks
  <2> QED
    BY <1>3, <2>1
<1> QED
  BY <1>1, <1>2, <1>4, UnitsAre

LEMMA UnitsOfOne ==
  ASSUME NEW x \in Frames, NEW c
  PROVE  Units(<<x>>, c) = IF x.type = "data" /\ x.ch = c THEN <<x.n>> ELSE <<>>
<1>0. <<x>> \in Seq(Frames) /\ Len(<<x>>) = 1 /\ <<x>>[1] = x
  OBVIOUS
<1>1. CASE x.type = "data" /\ x.ch = c
  <2>1. \A i \in 1 .. Len(<<x>>) : <<x>>[i].type = "data" /\ <<x>>[i].ch = c
    BY <1>0, <1>1
  <2>2. Units(<<x>>, c) = [k \in 1 .. 1 |-> <<x>>[k].n]
    BY <1>0, <2>1, UnitsInRow
  <2>3. \A u : u = [k \in 1 .. 1 |-> <<x>>[k].n] => u = <<x.n>>
    OBVIOUS
  <2> QED
    BY <1>1, <2>2, <2>3
<1>2. CASE ~(x.type = "data" /\ x.ch = c)
  <2>1. Mine(<<x>>, c) = {}
    BY <1>0, <1>2 DEF Mine
  <2>2. Cardinality(Mine(<<x>>, c)) = 0
    BY <2>1, FS_EmptySet
  <2>3. \A u : u = [k \in 1 .. 0 |-> <<x>>[Nth(Mine(<<x>>, c), k)].n] => u = <<>>
    OBVIOUS
  <2> QED
    BY <1>2, <2>2, <2>3, UnitsAre
<1> QED
  BY <1>1, <1>2

LEMMA UnitsAreNumbers ==
  ASSUME NEW f \in Seq(Frames), NEW c
  PROVE  Units(f, c) \in Seq(Nat)
<1> DEFINE S == Mine(f, c)  n == Cardinality(S)
<1>1. n \in Nat /\ \A k \in 1 .. n : Nth(S, k) \in S
  BY MineFinite, Ranks
<1>2. \A k \in 1 .. n : f[Nth(S, k)].n \in Nat
  BY <1>1 DEF Frames, Mine
<1>3. Units(f, c) = [k \in 1 .. n |-> f[Nth(S, k)].n]
  BY UnitsAre
<1> HIDE DEF n, S
<1> QED
  BY <1>1, <1>2, <1>3, NumbersInRow

LEMMA DataFramesAre ==
  ASSUME NEW d \in Ids, NEW us \in Seq(Nat)
  PROVE  /\ DataFrames(d, us) \in Seq(Frames) /\ Len(DataFrames(d, us)) = Len(us)
         /\ \A i \in 1 .. Len(us) : /\ DataFrames(d, us)[i].type = "data"
                                   /\ DataFrames(d, us)[i].ch = d /\ DataFrames(d, us)[i].n = us[i]
<1>1. Len(us) \in Nat /\ \A i \in 1 .. Len(us) : us[i] \in Nat
  OBVIOUS
<1>2. \A i \in 1 .. Len(us) : [type |-> "data", ch |-> d, n |-> us[i]] \in Frames
  BY <1>1 DEF Frames
<1> QED
  BY <1>1, <1>2 DEF DataFrames

LEMMA UnitsOfData ==
  ASSUME NEW d \in Ids, NEW us \in Seq(Nat), NEW c
  PROVE  Units(DataFrames(d, us), c) = IF c = d THEN us ELSE <<>>
<1> DEFINE f == DataFrames(d, us)
<1>0. /\ f \in Seq(Frames) /\ Len(f) = Len(us) /\ Len(us) \in Nat
      /\ \A i \in 1 .. Len(us) : f[i].type = "data" /\ f[i].ch = d /\ f[i].n = us[i]
  BY DataFramesAre
<1> HIDE DEF f
<1>1. CASE c = d
  <2>1. Units(f, c) = [k \in 1 .. Len(us) |-> f[k].n]
    BY <1>0, <1>1, UnitsInRow
  <2>2. \A k \in 1 .. Len(us) : f[k].n = us[k]
    BY <1>0
  <2>3. us = [k \in 1 .. Len(us) |-> us[k]]
    OBVIOUS
  <2> QED
    BY <1>1, <2>1, <2>2, <2>3 DEF f
<1>2. CASE c # d
  <2>1. Mine(f, c) = {}
    BY <1>0, <1>2 DEF Mine
  <2>2. Cardinality(Mine(f, c)) = 0
    BY <2>1, FS_EmptySet
  <2>3. \A u : u = [k \in 1 .. 0 |-> f[Nth(Mine(f, c), k)].n] => u = <<>>
    OBVIOUS
  <2> QED
    BY <1>2, <2>2, <2>3, UnitsAre DEF f
<1> QED
  BY <1>1, <1>2

----------------------------------------------------------------------------
(* What a queue holds of a channel.                                        *)

LEMMA Joined ==
  ASSUME NEW S, NEW f \in Seq(S), NEW g \in Seq(S)
  PROVE  /\ \A c : Names(f \o g, c) <=> Names(f, c) \/ Names(g, c)
         /\ \A x : Holds(f \o g, x) <=> Holds(f, x) \/ Holds(g, x)
<1> DEFINE h == f \o g
<1>1. /\ Len(f) \in Nat /\ Len(g) \in Nat /\ Len(h) = Len(f) + Len(g)
      /\ (\A i \in 1 .. Len(f) : i \in 1 .. Len(h) /\ h[i] = f[i])
      /\ \A i \in 1 .. Len(g) : Len(f) + i \in 1 .. Len(h) /\ h[Len(f) + i] = g[i]
  OBVIOUS
<1> HIDE DEF h
<1>2. \A i \in 1 .. Len(h) : i \in 1 .. Len(f) \/ \E j \in 1 .. Len(g) : i = Len(f) + j
  <2> SUFFICES ASSUME NEW i \in 1 .. Len(h), i \notin 1 .. Len(f)
               PROVE  \E j \in 1 .. Len(g) : i = Len(f) + j
    OBVIOUS
  <2>1. i - Len(f) \in 1 .. Len(g) /\ i = Len(f) + (i - Len(f))
    BY <1>1
  <2> QED
    BY <2>1
<1>3. ASSUME NEW c PROVE Names(h, c) <=> Names(f, c) \/ Names(g, c)
  <2>1. Names(f, c) \/ Names(g, c) => Names(h, c)
    BY <1>1 DEF Names
  <2>2. ASSUME NEW i \in 1 .. Len(h), h[i].ch = c PROVE Names(f, c) \/ Names(g, c)
    BY <1>1, <1>2, <2>2 DEF Names
  <2> QED
    BY <2>1, <2>2 DEF Names
<1>4. ASSUME NEW x PROVE Holds(h, x) <=> Holds(f, x) \/ Holds(g, x)
  <2>1. Holds(f, x) \/ Holds(g, x) => Holds(h, x)
    BY <1>1 DEF Holds
  <2>2. ASSUME NEW i \in 1 .. Len(h), h[i] = x PROVE Holds(f, x) \/ Holds(g, x)
    BY <1>1, <1>2, <2>2 DEF Holds
  <2> QED
    BY <2>1, <2>2 DEF Holds
<1> QED
  BY <1>3, <1>4 DEF h

LEMMA Single ==
  ASSUME NEW x
  PROVE  /\ \A c : Names(<<x>>, c) <=> x.ch = c
         /\ \A y : Holds(<<x>>, y) <=> y = x
  BY DEF Names, Holds

LEMMA Nothing == (\A c : ~Names(<<>>, c)) /\ (\A x : ~Holds(<<>>, x)) /\ OpensFirst(<<>>)
  BY DEF Names, Holds, OpensFirst

LEMMA HeldIsNamed ==
  ASSUME NEW f, NEW x, Holds(f, x)
  PROVE  Names(f, x.ch)
  BY DEF Holds, Names

\* A queue is its head before its tail.
LEMMA Parted ==
  ASSUME NEW S, NEW f \in Seq(S), f # <<>>
  PROVE  Head(f) \in S /\ Tail(f) \in Seq(S) /\ f = <<Head(f)>> \o Tail(f)
<1>1. Head(f) \in S /\ Tail(f) \in Seq(S) /\ Len(f) \in Nat \ {0} /\ Len(Tail(f)) = Len(f) - 1 /\ f[1] = Head(f)
      /\ \A i \in 1 .. Len(Tail(f)) : Tail(f)[i] = f[i + 1]
  BY HeadTailProperties
<1> DEFINE h == <<Head(f)>>
<1>2. h \in Seq(S) /\ Len(h) = 1 /\ h[1] = Head(f)
  BY <1>1
<1> HIDE DEF h
<1>3. /\ h \o Tail(f) \in Seq(S) /\ Len(h \o Tail(f)) = Len(f)
      /\ \A i \in 1 .. 1 + Len(Tail(f)) : (h \o Tail(f))[i] = IF i <= 1 THEN h[i] ELSE Tail(f)[i - 1]
  <2>1. Tail(f) \in Seq(S)
    BY <1>1
  <2>2. /\ h \o Tail(f) \in Seq(S) /\ Len(h \o Tail(f)) = Len(h) + Len(Tail(f))
        /\ \A i \in 1 .. Len(h) + Len(Tail(f)) :
             (h \o Tail(f))[i] = IF i <= Len(h) THEN h[i] ELSE Tail(f)[i - Len(h)]
    BY <1>2, <2>1, ConcatProperties, Zenon
  <2>3. Len(h) + Len(Tail(f)) = Len(f)
    BY <1>1, <1>2
  <2> QED
    BY <1>2, <2>2, <2>3
<1>4. \A i \in 1 .. Len(f) : f[i] = (h \o Tail(f))[i]
  <2> SUFFICES ASSUME NEW i \in 1 .. Len(f) PROVE f[i] = (h \o Tail(f))[i]
    OBVIOUS
  <2>1. CASE i = 1
    BY <1>1, <1>2, <1>3, <2>1
  <2>2. CASE i # 1
    <3>1. i - 1 \in 1 .. Len(Tail(f)) /\ (i - 1) + 1 = i /\ i \in 1 .. 1 + Len(Tail(f)) /\ ~(i <= 1)
      BY <1>1, <2>2
    <3> QED
      BY <1>1, <1>3, <3>1
  <2> QED
    BY <2>1, <2>2
<1>5. f = h \o Tail(f)
  BY <1>3, <1>4, SeqEqual
<1> QED
  BY <1>1, <1>5 DEF h

\* Frames of data name their channel and hold nothing else.
LEMMA DataNames ==
  ASSUME NEW d \in Ids, NEW us \in Seq(Nat)
  PROVE  /\ \A c : Names(DataFrames(d, us), c) => c = d
         /\ \A c, t : t # "data" => ~Holds(DataFrames(d, us), Frame(t, c))
<1> DEFINE f == DataFrames(d, us)
<1>1. Len(f) = Len(us) /\ \A i \in 1 .. Len(us) : f[i].type = "data" /\ f[i].ch = d
  BY DataFramesAre
<1> HIDE DEF f
<1>2. \A c, t : Frame(t, c).type = t
  BY DEF Frame
<1> QED
  BY <1>1, <1>2 DEF Names, Holds, f

\* The queue's head of a channel that has its open in the queue is the open, and
\* then the only one.
LEMMA OpenIsFirst ==
  ASSUME NEW S, NEW f \in Seq(S), f # <<>>, OpensFirst(f)
  PROVE  /\ OpensFirst(Tail(f))
         /\ \A x : x.type = "open" /\ x.ch = Head(f).ch => ~Holds(Tail(f), x)
<1>1. /\ Len(f) \in Nat \ {0} /\ Len(Tail(f)) = Len(f) - 1 /\ f[1] = Head(f)
      /\ \A i \in 1 .. Len(Tail(f)) : Tail(f)[i] = f[i + 1]
  BY HeadTailProperties
<1>2. ASSUME NEW i \in 1 .. Len(Tail(f)), NEW j \in 1 .. Len(Tail(f)),
             Tail(f)[i].type = "open", Tail(f)[j].ch = Tail(f)[i].ch
      PROVE  i <= j
  <2>1. i + 1 \in 1 .. Len(f) /\ j + 1 \in 1 .. Len(f)
    BY <1>1
  <2>2. i + 1 <= j + 1
    BY <1>1, <1>2, <2>1 DEF OpensFirst
  <2> QED
    BY <1>1, <2>2
<1>3. ASSUME NEW x, x.type = "open", x.ch = Head(f).ch, NEW i \in 1 .. Len(Tail(f)), Tail(f)[i] = x
      PROVE  FALSE
  <2>1. i + 1 \in 1 .. Len(f) /\ 1 \in 1 .. Len(f) /\ f[i + 1] = x
    BY <1>1, <1>3
  <2>2. i + 1 <= 1
    BY <1>1, <1>3, <2>1 DEF OpensFirst
  <2> QED
    BY <1>1, <2>2
<1> QED
  BY <1>2, <1>3 DEF OpensFirst, Holds

LEMMA OpensJoined ==
  ASSUME NEW S, NEW f \in Seq(S), NEW g \in Seq(S), OpensFirst(f), OpensFirst(g),
         \A i \in 1 .. Len(g) : g[i].type = "open" => ~Names(f, g[i].ch)
  PROVE  OpensFirst(f \o g)
<1> DEFINE h == f \o g
<1>1. /\ Len(f) \in Nat /\ Len(g) \in Nat /\ Len(h) = Len(f) + Len(g)
      /\ (\A i \in 1 .. Len(f) : h[i] = f[i])
      /\ \A i \in 1 .. Len(g) : h[Len(f) + i] = g[i]
  OBVIOUS
<1> HIDE DEF h
<1>2. ASSUME NEW i \in 1 .. Len(h), NEW j \in 1 .. Len(h), h[i].type = "open", h[j].ch = h[i].ch
      PROVE  i <= j
  <2>1. CASE i <= Len(f) /\ j <= Len(f)
    BY <1>1, <1>2, <2>1 DEF OpensFirst
  <2>2. CASE i <= Len(f) /\ ~(j <= Len(f))
    BY <1>1, <2>2
  <2>3. CASE ~(i <= Len(f))
    <3>1. i - Len(f) \in 1 .. Len(g) /\ Len(f) + (i - Len(f)) = i
      BY <1>1, <2>3
    <3>2. g[i - Len(f)].type = "open" /\ h[i] = g[i - Len(f)]
      BY <1>1, <1>2, <3>1
    <3>3. ~(j <= Len(f))
      BY <1>1, <1>2, <3>1, <3>2 DEF Names
    <3>4. j - Len(f) \in 1 .. Len(g) /\ Len(f) + (j - Len(f)) = j
      BY <1>1, <3>3
    <3>5. i - Len(f) <= j - Len(f)
      BY <1>1, <1>2, <3>1, <3>2, <3>4 DEF OpensFirst
    <3> QED
      BY <1>1, <3>5
  <2> QED
    BY <2>1, <2>2, <2>3
<1> QED
  BY <1>2 DEF OpensFirst, h

----------------------------------------------------------------------------
(* Streams that count on.                                                  *)

LEMMA CountsOfBoth ==
  ASSUME NEW s \in Seq(Nat), NEW t \in Seq(Nat), NEW k \in Nat
  PROVE  /\ s \o t \in Seq(Nat) /\ Len(s \o t) = Len(s) + Len(t)
         /\ Counts(s \o t, k) <=> Counts(s, k) /\ Counts(t, k + Len(s))
<1> DEFINE h == s \o t
<1>1. /\ h \in Seq(Nat) /\ Len(s) \in Nat /\ Len(t) \in Nat /\ Len(h) = Len(s) + Len(t)
      /\ (\A i \in 1 .. Len(s) : h[i] = s[i])
      /\ (\A i \in 1 .. Len(t) : h[Len(s) + i] = t[i])
      /\ (\A i \in 1 .. Len(t) : t[i] \in Nat)
  OBVIOUS
<1> HIDE DEF h
<1>2. ASSUME Counts(h, k) PROVE Counts(s, k) /\ Counts(t, k + Len(s))
  <2>1. \A i \in 1 .. Len(s) : i \in 1 .. Len(h)
    BY <1>1
  <2>2. \A i \in 1 .. Len(t) : Len(s) + i \in 1 .. Len(h) /\ k + (Len(s) + i) = (k + Len(s)) + i
    BY <1>1
  <2> QED
    BY <1>1, <1>2, <2>1, <2>2 DEF Counts
<1>3. ASSUME Counts(s, k), Counts(t, k + Len(s)) PROVE Counts(h, k)
  <2> SUFFICES ASSUME NEW i \in 1 .. Len(h) PROVE h[i] = k + i
    BY DEF Counts
  <2>1. CASE i <= Len(s)
    BY <1>1, <1>3, <2>1 DEF Counts
  <2>2. CASE ~(i <= Len(s))
    <3>1. i - Len(s) \in 1 .. Len(t) /\ Len(s) + (i - Len(s)) = i
          /\ (k + Len(s)) + (i - Len(s)) = k + i
      BY <1>1, <2>2
    <3> QED
      BY <1>1, <1>3, <3>1 DEF Counts
  <2> QED
    BY <2>1, <2>2
<1> QED
  BY <1>1, <1>2, <1>3 DEF h

LEMMA CountsOfOne ==
  ASSUME NEW x \in Nat, NEW k \in Nat
  PROVE  /\ <<x>> \in Seq(Nat) /\ Len(<<x>>) = 1 /\ (Counts(<<x>>, k) <=> x = k + 1)
         /\ <<>> \in Seq(Nat) /\ Len(<<>>) = 0 /\ Counts(<<>>, k)
  BY DEF Counts

\* A sequence is what is taken of it before what is left.
LEMMA Cut ==
  ASSUME NEW s \in Seq(Nat), NEW n \in 0 .. Len(s)
  PROVE  /\ Taken(s, n) \in Seq(Nat) /\ Left(s, n) \in Seq(Nat)
         /\ Len(Taken(s, n)) = n /\ Len(Left(s, n)) = Len(s) - n
         /\ s = Taken(s, n) \o Left(s, n)
<1>0. Len(s) \in Nat /\ n \in Nat /\ \A i \in 1 .. Len(s) : s[i] \in Nat
  OBVIOUS
<1> DEFINE t == Taken(s, n)  r == Left(s, n)
<1>1. t \in Seq(Nat) /\ Len(t) = n /\ \A i \in 1 .. n : t[i] = s[i]
  <2>1. t \in Seq(Nat) /\ Len(t) = (IF 1 <= n THEN n - 1 + 1 ELSE 0)
        /\ \A i \in 1 .. n - 1 + 1 : t[i] = s[1 + i - 1]
    <3>1. 1 \in Int /\ n \in Int /\ \A i \in 1 .. n : s[i] \in Nat
      BY <1>0
    <3> QED
      BY <3>1, SubSeqProperties DEF Taken
  <2> HIDE DEF t
  <2>2. (1 <= n <=> n # 0) /\ n - 1 + 1 = n /\ \A i \in 1 .. n : 1 + i - 1 = i
    BY <1>0
  <2> QED
    BY <1>0, <2>1, <2>2
<1>2. r \in Seq(Nat) /\ Len(r) = Len(s) - n /\ \A i \in 1 .. Len(s) - n : r[i] = s[n + i]
  <2>1. r \in Seq(Nat) /\ Len(r) = (IF n + 1 <= Len(s) THEN Len(s) - (n + 1) + 1 ELSE 0)
        /\ \A i \in 1 .. Len(s) - (n + 1) + 1 : r[i] = s[(n + 1) + i - 1]
    BY <1>0, SubSeqProperties DEF Left
  <2> HIDE DEF r
  <2> QED
    BY <1>0, <2>1
<1> HIDE DEF t, r
<1>3. t \o r \in Seq(Nat) /\ Len(t \o r) = Len(s)
      /\ \A i \in 1 .. Len(t) + Len(r) : (t \o r)[i] = IF i <= Len(t) THEN t[i] ELSE r[i - Len(t)]
  <2>1. /\ t \o r \in Seq(Nat) /\ Len(t \o r) = Len(t) + Len(r)
        /\ \A i \in 1 .. Len(t) + Len(r) : (t \o r)[i] = IF i <= Len(t) THEN t[i] ELSE r[i - Len(t)]
    BY <1>1, <1>2, ConcatProperties, Zenon
  <2>2. Len(t) + Len(r) = Len(s)
    BY <1>0, <1>1, <1>2
  <2> QED
    BY <2>1, <2>2
<1>4. \A i \in 1 .. Len(s) : s[i] = (t \o r)[i]
  <2> SUFFICES ASSUME NEW i \in 1 .. Len(s) PROVE s[i] = (t \o r)[i]
    OBVIOUS
  <2>1. CASE i <= n
    BY <1>0, <1>1, <1>2, <1>3, <2>1
  <2>2. CASE ~(i <= n)
    <3>1. i - n \in 1 .. Len(s) - n /\ n + (i - n) = i
      BY <1>0, <2>2
    <3> QED
      BY <1>0, <1>1, <1>2, <1>3, <2>2, <3>1
  <2> QED
    BY <2>1, <2>2
<1>5. s = t \o r
  BY <1>3, <1>4, SeqEqual
<1> QED
  BY <1>1, <1>2, <1>5 DEF t, r

\* A number at the end of a stream, or before it.
LEMMA NextCounts ==
  ASSUME NEW s \in Seq(Nat), NEW x \in Nat, NEW k \in Nat
  PROVE  /\ s \o <<x>> \in Seq(Nat) /\ Len(s \o <<x>>) = Len(s) + 1
         /\ Counts(s \o <<x>>, k) <=> Counts(s, k) /\ x = k + Len(s) + 1
<1>0. Len(s) \in Nat /\ k + Len(s) \in Nat /\ (k + Len(s)) + 1 = k + Len(s) + 1
  OBVIOUS
<1>1. <<x>> \in Seq(Nat) /\ Len(<<x>>) = 1 /\ (Counts(<<x>>, k + Len(s)) <=> x = (k + Len(s)) + 1)
  BY <1>0, CountsOfOne
<1>2. s \o <<x>> \in Seq(Nat) /\ Len(s \o <<x>>) = Len(s) + Len(<<x>>)
      /\ (Counts(s \o <<x>>, k) <=> Counts(s, k) /\ Counts(<<x>>, k + Len(s)))
  BY <1>1, CountsOfBoth
<1> QED
  BY <1>0, <1>1, <1>2

LEMMA FirstCounts ==
  ASSUME NEW s \in Seq(Nat), NEW x \in Nat, NEW k \in Nat
  PROVE  /\ <<x>> \o s \in Seq(Nat) /\ Len(<<x>> \o s) = Len(s) + 1
         /\ Counts(<<x>> \o s, k) <=> x = k + 1 /\ Counts(s, k + 1)
<1>0. Len(s) \in Nat
  OBVIOUS
<1>1. <<x>> \in Seq(Nat) /\ Len(<<x>>) = 1 /\ (Counts(<<x>>, k) <=> x = k + 1)
  BY CountsOfOne
<1>2. <<x>> \o s \in Seq(Nat) /\ Len(<<x>> \o s) = Len(<<x>>) + Len(s)
      /\ (Counts(<<x>> \o s, k) <=> Counts(<<x>>, k) /\ Counts(s, k + Len(<<x>>)))
  BY <1>1, CountsOfBoth
<1> QED
  BY <1>0, <1>1, <1>2

----------------------------------------------------------------------------
(* The moves of a request.                                                 *)

LEMMA RequestsFall ==
  ASSUME NEW ran \in Seq(Nat), NEW data \in Seq(Nat), NEW w \in Seq(Nat), NEW out \in Seq(Nat),
         NEW said \in Nat, NEW max \in Nat, NEW t1, NEW t2, NEW l1, NEW l2, t2 => t1, l2 => l1,
         RequestsCount(ran, data, w, out, said, max, t1, l1)
  PROVE  RequestsCount(ran, data, w, out, said, max, t2, l2)
  BY DEF RequestsCount

LEMMA RequestsNone ==
  ASSUME NEW max \in Nat, NEW t, NEW l
  PROVE  RequestsCount(<<>>, <<>>, <<>>, <<>>, 0, max, t, l)
  BY DEF RequestsCount, Counts

LEMMA RequestSaid ==
  ASSUME NEW ran \in Seq(Nat), NEW data \in Seq(Nat), NEW w \in Seq(Nat), NEW out \in Seq(Nat),
         NEW said \in Nat, NEW max \in Nat, NEW t, NEW l, said < max,
         RequestsCount(ran, data, w, out, said, max, t, l)
  PROVE  RequestsCount(ran, data, w, out \o <<said + 1>>, said + 1, max, t, l)
<1>0. /\ Len(ran) \in Nat /\ Len(data) \in Nat /\ Len(w) \in Nat /\ Len(out) \in Nat
      /\ said + 1 \in Nat /\ <<>> \in Seq(Nat)
  OBVIOUS
<1> DEFINE k == Len(ran) + Len(data) + Len(w)
<1>1. k \in Nat
  BY <1>0
<1>2. /\ Len(out \o <<said + 1>>) = Len(out) + 1
      /\ Counts(out \o <<said + 1>>, k) <=> Counts(out, k) /\ said + 1 = k + Len(out) + 1
  BY <1>0, <1>1, NextCounts
<1> QED
  BY <1>0, <1>2 DEF RequestsCount

\* The session writes a of what the program said into the pipe, or loses it.
LEMMA RequestsSent ==
  ASSUME NEW ran \in Seq(Nat), NEW data \in Seq(Nat), NEW w \in Seq(Nat), NEW a \in Seq(Nat),
         NEW b \in Seq(Nat), NEW said \in Nat, NEW max \in Nat, NEW t,
         RequestsCount(ran, data, w, a \o b, said, max, t, TRUE)
  PROVE  RequestsCount(ran, data, w \o a, b, said, max, t, TRUE)
<1>0. Len(ran) \in Nat /\ Len(data) \in Nat /\ Len(w) \in Nat /\ Len(a) \in Nat /\ Len(b) \in Nat
  OBVIOUS
<1> DEFINE k == Len(ran) + Len(data)
<1>1. k \in Nat /\ k + Len(w) \in Nat
  BY <1>0
<1>2. Len(w \o a) = Len(w) + Len(a) /\ (Counts(w \o a, k) <=> Counts(w, k) /\ Counts(a, k + Len(w)))
  BY <1>1, CountsOfBoth
<1>3. Len(a \o b) = Len(a) + Len(b)
      /\ (Counts(a \o b, k + Len(w)) <=> Counts(a, k + Len(w)) /\ Counts(b, (k + Len(w)) + Len(a)))
  BY <1>1, CountsOfBoth
<1>4. (k + Len(w)) + Len(a) = k + Len(w \o a)
  BY <1>0, <1>1, <1>2
<1> QED
  BY <1>0, <1>2, <1>3, <1>4 DEF RequestsCount

LEMMA RequestsLost ==
  ASSUME NEW ran \in Seq(Nat), NEW data \in Seq(Nat), NEW w \in Seq(Nat), NEW a \in Seq(Nat),
         NEW b \in Seq(Nat), NEW said \in Nat, NEW max \in Nat, NEW t, NEW l,
         RequestsCount(ran, data, w, a \o b, said, max, t, l)
  PROVE  RequestsCount(ran, data, w, b, said, max, t, FALSE)
<1>0. /\ Len(ran) \in Nat /\ Len(data) \in Nat /\ Len(w) \in Nat /\ Len(a) \in Nat /\ Len(b) \in Nat
      /\ Len(a \o b) = Len(a) + Len(b)
  OBVIOUS
<1> QED
  BY <1>0 DEF RequestsCount

\* The host's pipe thread takes a request that is next in the pipe, or refuses it.
LEMMA RequestTaken ==
  ASSUME NEW ran \in Seq(Nat), NEW data \in Seq(Nat), NEW w \in Seq(Nat), NEW out \in Seq(Nat),
         NEW said \in Nat, NEW max \in Nat, NEW x \in Nat, NEW l,
         RequestsCount(ran, data, <<x>> \o w, out, said, max, TRUE, l)
  PROVE  RequestsCount(ran, data \o <<x>>, w, out, said, max, TRUE, l)
<1>0. Len(ran) \in Nat /\ Len(data) \in Nat /\ Len(w) \in Nat /\ Len(out) \in Nat
  OBVIOUS
<1> DEFINE k == Len(ran) + Len(data)
<1>1. k \in Nat
  BY <1>0
<1>2. Len(<<x>> \o w) = Len(w) + 1 /\ (Counts(<<x>> \o w, k) <=> x = k + 1 /\ Counts(w, k + 1))
  BY <1>1, FirstCounts
<1>3. /\ Len(data \o <<x>>) = Len(data) + 1
      /\ Counts(data \o <<x>>, Len(ran)) <=> Counts(data, Len(ran)) /\ x = Len(ran) + Len(data) + 1
  BY <1>0, NextCounts
<1>4. /\ k + 1 = Len(ran) + Len(data \o <<x>>)
      /\ k + Len(<<x>> \o w) = Len(ran) + Len(data \o <<x>>) + Len(w)
  BY <1>0, <1>2, <1>3
<1> QED
  BY <1>0, <1>2, <1>3, <1>4 DEF RequestsCount

LEMMA RequestsRefused ==
  ASSUME NEW ran \in Seq(Nat), NEW data \in Seq(Nat), NEW w \in Seq(Nat), NEW out \in Seq(Nat),
         NEW said \in Nat, NEW max \in Nat, NEW t, NEW l1, NEW l2,
         NEW left \in {data, <<>>}, NEW v \in Seq(Nat), Len(v) <= Len(w),
         RequestsCount(ran, data, w, out, said, max, t, l1)
  PROVE  RequestsCount(ran, left, v, out, said, max, FALSE, l2)
<1>0. /\ Len(ran) \in Nat /\ Len(data) \in Nat /\ Len(w) \in Nat /\ Len(out) \in Nat /\ Len(v) \in Nat
      /\ Len(<<>>) = 0 /\ Counts(<<>>, Len(ran))
  BY DEF Counts
<1>1. Len(left) \in Nat /\ Len(left) <= Len(data) /\ (Counts(data, Len(ran)) => Counts(left, Len(ran)))
  BY <1>0
<1> QED
  BY <1>0, <1>1 DEF RequestsCount

\* The pipe is gone with what was in it.
LEMMA RequestsGone ==
  ASSUME NEW ran \in Seq(Nat), NEW data \in Seq(Nat), NEW w \in Seq(Nat), NEW out \in Seq(Nat),
         NEW said \in Nat, NEW max \in Nat, NEW t1, NEW l, NEW t2,
         RequestsCount(ran, data, w, out, said, max, t1, l)
  PROVE  RequestsCount(ran, data, <<>>, out, said, max, t2, FALSE)
<1>0. /\ Len(ran) \in Nat /\ Len(data) \in Nat /\ Len(w) \in Nat /\ Len(out) \in Nat
      /\ Len(<<>>) = 0 /\ Counts(<<>>, Len(ran) + Len(data))
  BY DEF Counts
<1> QED
  BY <1>0 DEF RequestsCount

\* The X server runs the next request it has.
LEMMA RequestRun ==
  ASSUME NEW ran \in Seq(Nat), NEW data \in Seq(Nat), NEW w \in Seq(Nat), NEW out \in Seq(Nat),
         NEW said \in Nat, NEW max \in Nat, NEW x \in Nat, NEW t, NEW l,
         RequestsCount(ran, <<x>> \o data, w, out, said, max, t, l)
  PROVE  RequestsCount(ran \o <<x>>, data, w, out, said, max, t, l)
<1>0. Len(ran) \in Nat /\ Len(data) \in Nat /\ Len(w) \in Nat /\ Len(out) \in Nat
  OBVIOUS
<1>2. Len(<<x>> \o data) = Len(data) + 1
      /\ (Counts(<<x>> \o data, Len(ran)) <=> x = Len(ran) + 1 /\ Counts(data, Len(ran) + 1))
  BY <1>0, FirstCounts
<1>3. Len(ran \o <<x>>) = Len(ran) + 1 /\ (Counts(ran \o <<x>>, 0) <=> Counts(ran, 0) /\ x = 0 + Len(ran) + 1)
  BY <1>0, NextCounts
<1>4. /\ Len(ran) + Len(<<x>> \o data) = Len(ran \o <<x>>) + Len(data) /\ 0 + Len(ran) + 1 = Len(ran) + 1
  BY <1>0, <1>2, <1>3
<1> QED
  BY <1>0, <1>2, <1>3, <1>4 DEF RequestsCount

----------------------------------------------------------------------------
(* The moves of a reply.                                                   *)

LEMMA RepliesFall ==
  ASSUME NEW got \in Seq(Nat), NEW toChannel \in Seq(Nat), NEW in \in Seq(Nat), NEW w \in Seq(Nat),
         NEW out \in Seq(Nat), NEW wrote \in Nat, NEW l1, NEW l2, l2 => l1,
         RepliesCount(got, toChannel, in, w, out, wrote, l1)
  PROVE  RepliesCount(got, toChannel, in, w, out, wrote, l2)
  BY DEF RepliesCount

\* Of a tunnel that is over only what the program has counts.
LEMMA RepliesOver ==
  ASSUME NEW got \in Seq(Nat), NEW a1, NEW a2, NEW a3, NEW a4, NEW a5, NEW l,
         NEW b1, NEW b2, NEW b3, NEW b4, NEW b5,
         RepliesCount(got, a1, a2, a3, a4, a5, l)
  PROVE  RepliesCount(got, b1, b2, b3, b4, b5, FALSE)
  BY DEF RepliesCount

LEMMA RepliesNone ==
  ASSUME NEW l
  PROVE  RepliesCount(<<>>, <<>>, <<>>, <<>>, <<>>, 0, l)
  BY DEF RepliesCount, Counts

LEMMA ReplyMade ==
  ASSUME NEW got \in Seq(Nat), NEW toChannel \in Seq(Nat), NEW in \in Seq(Nat), NEW w \in Seq(Nat),
         NEW out \in Seq(Nat), NEW wrote \in Nat, NEW l,
         RepliesCount(got, toChannel, in, w, out, wrote, l)
  PROVE  RepliesCount(got, toChannel, in, w, out \o <<wrote + 1>>, wrote + 1, l)
<1>0. /\ Len(got) \in Nat /\ Len(toChannel) \in Nat /\ Len(in) \in Nat /\ Len(w) \in Nat
      /\ Len(out) \in Nat /\ wrote + 1 \in Nat /\ <<>> \in Seq(Nat)
  OBVIOUS
<1> DEFINE k == Len(got) + Len(toChannel) + Len(in) + Len(w)
<1>1. k \in Nat
  BY <1>0
<1>2. /\ Len(out \o <<wrote + 1>>) = Len(out) + 1
      /\ Counts(out \o <<wrote + 1>>, k) <=> Counts(out, k) /\ wrote + 1 = k + Len(out) + 1
  BY <1>0, <1>1, NextCounts
<1>3. l => /\ Counts(out, k) /\ k + Len(out) = wrote
           /\ Counts(toChannel, Len(got)) /\ Counts(in, Len(got) + Len(toChannel))
           /\ Counts(w, Len(got) + Len(toChannel) + Len(in))
  BY DEF RepliesCount
<1> HIDE DEF k
<1>4. l => Counts(out \o <<wrote + 1>>, k) /\ k + Len(out \o <<wrote + 1>>) = wrote + 1
  BY <1>0, <1>1, <1>2, <1>3
<1>5. Counts(got, 0)
  BY DEF RepliesCount
<1> QED
  BY <1>3, <1>4, <1>5 DEF RepliesCount, k

LEMMA RepliesFlushed ==
  ASSUME NEW got \in Seq(Nat), NEW toChannel \in Seq(Nat), NEW in \in Seq(Nat), NEW w \in Seq(Nat),
         NEW out \in Seq(Nat), NEW wrote \in Nat, NEW l,
         RepliesCount(got, toChannel, in, w, out, wrote, l)
  PROVE  RepliesCount(got, toChannel, in, w \o out, <<>>, wrote, l)
<1>0. /\ Len(got) \in Nat /\ Len(toChannel) \in Nat /\ Len(in) \in Nat /\ Len(w) \in Nat
      /\ Len(out) \in Nat /\ Len(<<>>) = 0 /\ \A k \in Nat : Counts(<<>>, k)
  BY DEF Counts
<1> DEFINE k == Len(got) + Len(toChannel) + Len(in)
<1>1. k \in Nat
  BY <1>0
<1>2. Len(w \o out) = Len(w) + Len(out)
      /\ (Counts(w \o out, k) <=> Counts(w, k) /\ Counts(out, k + Len(w)))
  BY <1>1, CountsOfBoth
<1>3. k + Len(w \o out) \in Nat /\ k + Len(w \o out) + Len(<<>>) = k + Len(w) + Len(out)
  BY <1>0, <1>1, <1>2
<1> QED
  BY <1>0, <1>2, <1>3 DEF RepliesCount

\* The reader thread takes a reply from the pipe.
LEMMA ReplyRead ==
  ASSUME NEW got \in Seq(Nat), NEW toChannel \in Seq(Nat), NEW in \in Seq(Nat), NEW w \in Seq(Nat),
         NEW out \in Seq(Nat), NEW wrote \in Nat, NEW x \in Nat, NEW l,
         RepliesCount(got, toChannel, in, <<x>> \o w, out, wrote, l)
  PROVE  RepliesCount(got, toChannel, in \o <<x>>, w, out, wrote, l)
<1>0. /\ Len(got) \in Nat /\ Len(toChannel) \in Nat /\ Len(in) \in Nat /\ Len(w) \in Nat
      /\ Len(out) \in Nat
  OBVIOUS
<1> DEFINE k == Len(got) + Len(toChannel)
<1>1. k \in Nat /\ k + Len(in) \in Nat
  BY <1>0
<1>2. Len(<<x>> \o w) = Len(w) + 1
      /\ (Counts(<<x>> \o w, k + Len(in)) <=> x = k + Len(in) + 1 /\ Counts(w, k + Len(in) + 1))
  BY <1>1, FirstCounts
<1>3. Len(in \o <<x>>) = Len(in) + 1 /\ (Counts(in \o <<x>>, k) <=> Counts(in, k) /\ x = k + Len(in) + 1)
  BY <1>1, NextCounts
<1>4. /\ k + Len(in \o <<x>>) = k + Len(in) + 1
      /\ k + Len(in) + Len(<<x>> \o w) = k + Len(in \o <<x>>) + Len(w)
  BY <1>0, <1>1, <1>2, <1>3
<1> QED
  BY <1>0, <1>2, <1>3, <1>4 DEF RepliesCount

\* The pass routes a reply to its tunnel.
LEMMA ReplyRouted ==
  ASSUME NEW got \in Seq(Nat), NEW toChannel \in Seq(Nat), NEW in \in Seq(Nat), NEW w \in Seq(Nat),
         NEW out \in Seq(Nat), NEW wrote \in Nat, NEW x \in Nat, NEW l,
         RepliesCount(got, toChannel, <<x>> \o in, w, out, wrote, l)
  PROVE  RepliesCount(got, toChannel \o <<x>>, in, w, out, wrote, l)
<1>0. /\ Len(got) \in Nat /\ Len(toChannel) \in Nat /\ Len(in) \in Nat /\ Len(w) \in Nat
      /\ Len(out) \in Nat
  OBVIOUS
<1> DEFINE k == Len(got)
<1>1. k \in Nat /\ k + Len(toChannel) \in Nat
  BY <1>0
<1>2. Len(<<x>> \o in) = Len(in) + 1
      /\ (Counts(<<x>> \o in, k + Len(toChannel))
            <=> x = k + Len(toChannel) + 1 /\ Counts(in, k + Len(toChannel) + 1))
  BY <1>1, FirstCounts
<1>3. Len(toChannel \o <<x>>) = Len(toChannel) + 1
      /\ (Counts(toChannel \o <<x>>, k) <=> Counts(toChannel, k) /\ x = k + Len(toChannel) + 1)
  BY <1>1, NextCounts
<1>4. /\ k + Len(toChannel \o <<x>>) = k + Len(toChannel) + 1
      /\ k + Len(toChannel) + Len(<<x>> \o in) = k + Len(toChannel \o <<x>>) + Len(in)
  BY <1>0, <1>1, <1>2, <1>3
<1> QED
  BY <1>0, <1>2, <1>3, <1>4 DEF RepliesCount

\* The session writes a of what its tunnel has to the program.
LEMMA RepliesWritten ==
  ASSUME NEW got \in Seq(Nat), NEW a \in Seq(Nat), NEW b \in Seq(Nat), NEW in \in Seq(Nat),
         NEW w \in Seq(Nat), NEW out \in Seq(Nat), NEW wrote \in Nat,
         RepliesCount(got, a \o b, in, w, out, wrote, TRUE)
  PROVE  RepliesCount(got \o a, b, in, w, out, wrote, TRUE)
<1>0. /\ Len(got) \in Nat /\ Len(a) \in Nat /\ Len(b) \in Nat /\ Len(in) \in Nat /\ Len(w) \in Nat
      /\ Len(out) \in Nat
  OBVIOUS
<1>1. Len(got \o a) = Len(got) + Len(a)
      /\ (Counts(got \o a, 0) <=> Counts(got, 0) /\ Counts(a, 0 + Len(got)))
  BY CountsOfBoth
<1>2. Len(a \o b) = Len(a) + Len(b)
      /\ (Counts(a \o b, Len(got)) <=> Counts(a, Len(got)) /\ Counts(b, Len(got) + Len(a)))
  BY <1>0, CountsOfBoth
<1>3. 0 + Len(got) = Len(got) /\ Len(got) + Len(a \o b) = Len(got \o a) + Len(b)
  BY <1>0, <1>1, <1>2
<1> QED
  BY <1>0, <1>1, <1>2, <1>3 DEF RepliesCount

----------------------------------------------------------------------------
(* What the counts say of the streams.                                     *)

LEMMA CountsIsAll ==
  ASSUME NEW s \in Seq(Nat), NEW n \in Nat, Len(s) = n, Counts(s, 0)
  PROVE  s = [i \in 1 .. n |-> i]
<1>1. \A i \in 1 .. Len(s) : s[i] = i
  BY DEF Counts
<1>2. s = [i \in 1 .. Len(s) |-> s[i]]
  OBVIOUS
<1> QED
  BY <1>1, <1>2

LEMMA RequestsAreAll ==
  ASSUME NEW ran \in Seq(Nat), NEW data \in Seq(Nat), NEW w \in Seq(Nat), NEW out \in Seq(Nat),
         NEW said \in Nat, NEW max \in Nat,
         RequestsCount(ran, data, w, out, said, max, TRUE, TRUE)
  PROVE  ran \o data \o w \o out = [i \in 1 .. said |-> i]
<1>0. Len(ran) \in Nat /\ Len(data) \in Nat /\ Len(w) \in Nat /\ Len(out) \in Nat
  OBVIOUS
<1> DEFINE a == ran \o data  b == a \o w  c == b \o out
<1>1. a \in Seq(Nat) /\ Len(a) = Len(ran) + Len(data) /\ Counts(a, 0)
  <2>1. a \in Seq(Nat) /\ Len(a) = Len(ran) + Len(data)
        /\ (Counts(a, 0) <=> Counts(ran, 0) /\ Counts(data, 0 + Len(ran)))
    BY CountsOfBoth
  <2> QED
    BY <1>0, <2>1 DEF RequestsCount
<1> HIDE DEF a
<1>2. b \in Seq(Nat) /\ Len(b) = Len(ran) + Len(data) + Len(w) /\ Counts(b, 0)
  <2>1. b \in Seq(Nat) /\ Len(b) = Len(a) + Len(w) /\ (Counts(b, 0) <=> Counts(a, 0) /\ Counts(w, 0 + Len(a)))
    BY <1>1, CountsOfBoth
  <2> QED
    BY <1>0, <1>1, <2>1 DEF RequestsCount
<1> HIDE DEF b
<1>3. c \in Seq(Nat) /\ Len(c) = said /\ Counts(c, 0)
  <2>1. c \in Seq(Nat) /\ Len(c) = Len(b) + Len(out) /\ (Counts(c, 0) <=> Counts(b, 0) /\ Counts(out, 0 + Len(b)))
    BY <1>2, CountsOfBoth
  <2> QED
    BY <1>0, <1>2, <2>1 DEF RequestsCount
<1> HIDE DEF c
<1>4. c = [i \in 1 .. said |-> i]
  BY <1>3, CountsIsAll
<1> QED
  BY <1>4 DEF a, b, c

LEMMA RepliesAreAll ==
  ASSUME NEW got \in Seq(Nat), NEW toChannel \in Seq(Nat), NEW in \in Seq(Nat), NEW w \in Seq(Nat),
         NEW out \in Seq(Nat), NEW wrote \in Nat,
         RepliesCount(got, toChannel, in, w, out, wrote, TRUE)
  PROVE  got \o toChannel \o in \o w \o out = [i \in 1 .. wrote |-> i]
<1>0. /\ Len(got) \in Nat /\ Len(toChannel) \in Nat /\ Len(in) \in Nat /\ Len(w) \in Nat
      /\ Len(out) \in Nat
  OBVIOUS
<1> DEFINE a == got \o toChannel  b == a \o in  c == b \o w  d == c \o out
<1>1. a \in Seq(Nat) /\ Len(a) = Len(got) + Len(toChannel) /\ Counts(a, 0)
  <2>1. a \in Seq(Nat) /\ Len(a) = Len(got) + Len(toChannel)
        /\ (Counts(a, 0) <=> Counts(got, 0) /\ Counts(toChannel, 0 + Len(got)))
    BY CountsOfBoth
  <2> QED
    BY <1>0, <2>1 DEF RepliesCount
<1> HIDE DEF a
<1>2. b \in Seq(Nat) /\ Len(b) = Len(got) + Len(toChannel) + Len(in) /\ Counts(b, 0)
  <2>1. b \in Seq(Nat) /\ Len(b) = Len(a) + Len(in) /\ (Counts(b, 0) <=> Counts(a, 0) /\ Counts(in, 0 + Len(a)))
    BY <1>1, CountsOfBoth
  <2> QED
    BY <1>0, <1>1, <2>1 DEF RepliesCount
<1> HIDE DEF b
<1>3. c \in Seq(Nat) /\ Len(c) = Len(got) + Len(toChannel) + Len(in) + Len(w) /\ Counts(c, 0)
  <2>1. c \in Seq(Nat) /\ Len(c) = Len(b) + Len(w) /\ (Counts(c, 0) <=> Counts(b, 0) /\ Counts(w, 0 + Len(b)))
    BY <1>2, CountsOfBoth
  <2> QED
    BY <1>0, <1>2, <2>1 DEF RepliesCount
<1> HIDE DEF c
<1>4. d \in Seq(Nat) /\ Len(d) = wrote /\ Counts(d, 0)
  <2>1. d \in Seq(Nat) /\ Len(d) = Len(c) + Len(out) /\ (Counts(d, 0) <=> Counts(c, 0) /\ Counts(out, 0 + Len(c)))
    BY <1>3, CountsOfBoth
  <2> QED
    BY <1>0, <1>3, <2>1 DEF RepliesCount
<1> HIDE DEF d
<1>5. d = [i \in 1 .. wrote |-> i]
  BY <1>4, CountsIsAll
<1> QED
  BY <1>5 DEF a, b, c, d

----------------------------------------------------------------------------
(* The steps that leave a channel alone.                                   *)

LEMMA Sizing == N \in Nat \ {0} /\ Budget \in Nat \ {0} /\ \A c \in Ids : c \in Nat /\ MaxData[c] \in Nat
  BY AmberXAssumption DEF Ids

LEMMA FrameTypes ==
  /\ \A t \in {"Hello", "HelloAck", "AuthProof"} : Frame(t, 0) \in Frames
  /\ \A t \in {"open", "close", "error"}, c \in Ids : Frame(t, c) \in Frames
  /\ \A t, c : Frame(t, c).type = t /\ Frame(t, c).ch = c
  /\ \A t, c : Event(t, c).type = t /\ Event(t, c).ch = c
  BY DEF Frame, Frames, Event

LEMMA FrameKinds ==
  ASSUME NEW f \in Frames
  PROVE  /\ f.ch \in Nat /\ f.n \in Nat
         /\ f.type \in {"open", "close", "error", "data"} => f.ch \in Ids
         /\ f.ch \in Ids => f.type \in {"open", "close", "error", "data"}
         /\ f.type \in {"open", "close", "error"} => f = Frame(f.type, f.ch)
  BY Sizing DEF Frames, Frame, Ids

LEMMA UnitsUnnamed ==
  ASSUME NEW f, NEW c, ~Names(f, c)
  PROVE  Units(f, c) = <<>>
<1>1. Mine(f, c) = {}
  BY DEF Mine, Names
<1>2. Cardinality(Mine(f, c)) = 0
  BY <1>1, FS_EmptySet
<1>3. \A u : u = [k \in 1 .. 0 |-> f[Nth(Mine(f, c), k)].n] => u = <<>>
  OBVIOUS
<1> QED
  BY <1>2, <1>3, UnitsAre

\* The queues f and g hold the same of channel c.
Alike(f, g, c) ==
  /\ Units(g, c) = Units(f, c) /\ (Names(g, c) <=> Names(f, c))
  /\ \A t \in {"open", "close"} : Holds(g, Frame(t, c)) <=> Holds(f, Frame(t, c))

LEMMA AlikeSame == \A f, c : Alike(f, f, c)
  BY DEF Alike

LEMMA AlikeBehind ==
  ASSUME NEW f \in Seq(Frames), NEW g \in Seq(Frames), NEW c, ~Names(g, c)
  PROVE  Alike(f, f \o g, c)
<1>1. Units(f \o g, c) = Units(f, c)
  <2>1. Units(f \o g, c) = Units(f, c) \o Units(g, c)
    BY UnitsOfBoth
  <2>2. Units(g, c) = <<>> /\ Units(f, c) \in Seq(Nat)
    BY UnitsUnnamed, UnitsAreNumbers
  <2> QED
    BY <2>1, <2>2, ConcatEmptySeq
<1>2. \A t \in {"open", "close"} : ~Holds(g, Frame(t, c))
  BY HeldIsNamed, FrameTypes
<1> QED
  BY <1>1, <1>2, Joined DEF Alike

LEMMA AlikeRest ==
  ASSUME NEW f \in Seq(Frames), f # <<>>, NEW c, Head(f).ch # c
  PROVE  Alike(f, Tail(f), c)
<1> DEFINE h == <<Head(f)>>  r == Tail(f)
<1>1. Head(f) \in Frames /\ h \in Seq(Frames) /\ r \in Seq(Frames) /\ f = h \o r
  BY Parted
<1>2. Units(h, c) = <<>>
  BY <1>1, UnitsOfOne
<1>3. ~Names(h, c) /\ \A t : ~Holds(h, Frame(t, c))
  BY Single, FrameTypes
<1> HIDE DEF h, r
<1>4. Units(h \o r, c) = Units(h, c) \o Units(r, c) /\ Units(r, c) \in Seq(Nat)
  BY <1>1, UnitsOfBoth, UnitsAreNumbers
<1>5. Units(f, c) = Units(r, c)
  BY <1>1, <1>2, <1>4, ConcatEmptySeq
<1>6. /\ Names(h \o r, c) <=> Names(h, c) \/ Names(r, c)
      /\ \A x : Holds(h \o r, x) <=> Holds(h, x) \/ Holds(r, x)
  BY <1>1, Joined
<1> QED
  BY <1>1, <1>3, <1>5, <1>6 DEF Alike, r

LEMMA FlightIsHeld == \A c, t : InFlight(c, t) <=> Holds(down, Frame(t, c))
  BY DEF InFlight, Holds
LEMMA FlightIsHeldNext == \A c, t : InFlight(c, t)' <=> Holds(down', Frame(t, c))
  BY DEF InFlight, Holds

\* A channel is as sound as it was after a step of others.
LEMMA Unmoved ==
  ASSUME NEW c \in Ids, Sound(c), tun'[c] = tun[c], ssh'[c] = ssh[c], chan'[c] = chan[c],
         cli'[c] = cli[c], c >= next' => c >= next, st' = st, hst' # "gone" => hst # "gone",
         c \in open => c \in open', hst' # "gone" => (c \in open' <=> c \in open), Alike(down, down', c), Alike(up, up', c), Alike(q, q', c),
         Names(events', c) => Names(events, c),
         Holds(events', Event("open", c)) => Holds(events, Event("open", c))
  PROVE  Sound(c)'
<1>1. /\ InFlight(c, "open")' <=> InFlight(c, "open")
      /\ InFlight(c, "close")' <=> InFlight(c, "close")
  BY FlightIsHeld, FlightIsHeldNext DEF Alike
<1>2. Taking(c)' <=> Taking(c)
  BY <1>1 DEF Taking, OpenBuf
<1>3. FreshInv(c)'
  BY DEF Sound, FreshInv, Alike
<1>4. HostInv(c)'
  BY <1>1 DEF Sound, HostInv
<1>5. TableInv(c)' /\ LiveInv(c)'
  BY <1>1, <1>2 DEF Sound, TableInv, LiveInv
<1>6. RequestInv(c)'
  <2>1. Units(down', c) = Units(down, c)
    BY DEF Alike
  <2>2. Taking(c)' = Taking(c)
    BY <1>2 DEF Taking, OpenBuf, InFlight
  <2> QED
    BY <2>1, <2>2 DEF Sound, RequestInv
<1>7. ReplyInv(c)'
  BY DEF Sound, ReplyInv, Alike
<1> QED
  BY <1>3, <1>4, <1>5, <1>6, <1>7 DEF Sound

\* The links of a channel between its ends are as they were.
Linked(c) == FreshInv(c) /\ HostInv(c) /\ TableInv(c) /\ LiveInv(c)

LEMMA LinksStay ==
  ASSUME NEW c \in Ids, Sound(c), ~(c >= next'), st' = st, hst' # "gone" => hst # "gone",
         c \in open' <=> c \in open, tun'[c].life = tun[c].life,
         chan'[c].there = chan[c].there, chan'[c].closedByPeer = chan[c].closedByPeer,
         chan[c] = NoBuf => chan'[c] = NoBuf,
         cli'[c].life = cli[c].life, cli[c] = NewClient => cli'[c] = NewClient,
         \A t \in {"open", "close"} : Holds(down', Frame(t, c)) <=> Holds(down, Frame(t, c)),
         Names(events', c) => Names(events, c),
         Holds(events', Event("open", c)) => Holds(events, Event("open", c))
  PROVE  Linked(c)' /\ Taking(c)' = Taking(c)
<1>1. /\ InFlight(c, "open")' <=> InFlight(c, "open")
      /\ InFlight(c, "close")' <=> InFlight(c, "close")
  BY FlightIsHeld, FlightIsHeldNext
<1>2. Taking(c)' <=> Taking(c)
  BY <1>1 DEF Taking, OpenBuf
<1>3. FreshInv(c)'
  BY DEF FreshInv
<1>4. HostInv(c)'
  BY <1>1 DEF Sound, HostInv
<1>5. TableInv(c)' /\ LiveInv(c)'
  BY <1>1, <1>2 DEF Sound, TableInv, LiveInv
<1>6. Taking(c)' = Taking(c)
  BY <1>2 DEF Taking, OpenBuf, InFlight
<1> QED
  BY <1>3, <1>4, <1>5, <1>6 DEF Linked

\* A sequence and one more.
LEMMA AppendIs ==
  ASSUME NEW S, NEW s \in Seq(S), NEW x \in S
  PROVE  Append(s, x) = s \o <<x>> /\ <<x>> \in Seq(S) /\ s \o <<x>> \in Seq(S)
  OBVIOUS

\* Nothing but an open can come before what is said of its channel.
LEMMA NoOpens ==
  ASSUME NEW f \in Seq(Frames), NEW g \in Seq(Frames), OpensFirst(f),
         \A c \in Ids : ~Holds(g, Frame("open", c))
  PROVE  OpensFirst(f \o g)
<1>1. \A i \in 1 .. Len(g) : g[i].type # "open"
  <2> SUFFICES ASSUME NEW i \in 1 .. Len(g), g[i].type = "open" PROVE FALSE
    OBVIOUS
  <2>1. g[i] \in Frames
    OBVIOUS
  <2>2. g[i].ch \in Ids /\ g[i] = Frame("open", g[i].ch)
    BY <2>1, FrameKinds
  <2> QED
    BY <2>2 DEF Holds
<1>2. OpensFirst(g)
  BY <1>1 DEF OpensFirst
<1> QED
  BY <1>1, <1>2, OpensJoined

----------------------------------------------------------------------------
(* The start, and the other steps that move no channel.                    *)

\* A channel that is not there yet.
LEMMA StillFresh ==
  ASSUME NEW c \in Ids, FreshInv(c)', c >= next', c \notin open'
  PROVE  Sound(c)'
<1>1. /\ tun'[c] = NoTunnel /\ ssh'[c] = NewSsh /\ chan'[c] = NoBuf /\ cli'[c] = NewClient
      /\ ~Names(down', c) /\ ~Names(up', c) /\ ~Names(q', c) /\ ~Names(events', c)
  BY DEF FreshInv
<1>2. \A t : ~Holds(down', Frame(t, c)) /\ ~Holds(events', Event(t, c))
  BY <1>1, HeldIsNamed, FrameTypes
<1>3. ~InFlight(c, "open")' /\ ~InFlight(c, "close")'
  BY <1>2, FlightIsHeldNext
<1>4. HostInv(c)'
  BY <1>1, <1>2, <1>3 DEF HostInv, NoBuf, NewClient
<1>5. ~Taking(c)'
  BY <1>1, <1>3 DEF Taking, OpenBuf, NoBuf
<1>6. TableInv(c)' /\ LiveInv(c)'
  BY <1>1, <1>5 DEF TableInv, LiveInv, NoTunnel
<1>7. Units(down', c) = <<>> /\ Units(up', c) = <<>> /\ Units(q', c) = <<>>
  BY <1>1, UnitsUnnamed
<1>8. RequestInv(c)'
  <2>1. RequestsCount(<<>>, <<>>, <<>>, <<>>, 0, MaxData[c], Taking(c)', tun'[c].life = "live")
    BY Sizing, RequestsNone
  <2> QED
    BY <1>1, <1>7, <2>1 DEF RequestInv, NewSsh, NewClient, NoBuf
<1>9. ReplyInv(c)'
  <2>1. RepliesCount(<<>>, <<>>, <<>>, <<>>, <<>>, 0, tun'[c].life = "live")
    BY RepliesNone
  <2> QED
    BY <1>1, <1>7, <2>1 DEF ReplyInv, NewSsh, NewClient, NoTunnel
<1> QED
  BY <1>4, <1>6, <1>8, <1>9 DEF Sound

LEMMA Begins == Init => Inv
<1> SUFFICES ASSUME Init PROVE Inv
  OBVIOUS
<1>1. /\ \A c \in Ids : NoTunnel \in Tunnels /\ NewSsh \in Channels /\ NoBuf \in Bufs /\ NewClient \in Clients
      /\ <<>> \in Seq(Frames) /\ <<>> \in Seq(Events)
  BY DEF NoTunnel, Tunnels, NewSsh, Channels, NoBuf, Bufs, NewClient, Clients, Lives
<1>2. /\ tun = [c \in Ids |-> NoTunnel] /\ ssh = [c \in Ids |-> NewSsh]
      /\ chan = [c \in Ids |-> NoBuf] /\ cli = [c \in Ids |-> NewClient]
  BY DEF Init, NewSsh, NewClient
<1>3. Types
  <2>1. EndTypes
    BY <1>1, <1>2 DEF Init, EndTypes
  <2>2. 1 \in 1 .. N + 1 /\ 0 \in 0 .. Budget
    BY Sizing
  <2> QED
    BY <1>1, <2>1, <2>2 DEF Init, Types, PipeTypes
<1>4. PhaseInv /\ OpensFirst(down) /\ OpensFirst(events)
  BY Nothing DEF Init, PhaseInv
<1>5. ASSUME NEW c \in Ids PROVE Sound(c)
  <2>1. /\ tun[c] = NoTunnel /\ ssh[c] = NewSsh /\ chan[c] = NoBuf /\ cli[c] = NewClient
    BY <1>2
  <2>2. /\ ~Names(down, c) /\ ~Names(up, c) /\ ~Names(q, c) /\ ~Names(events, c)
        /\ ~InFlight(c, "open") /\ ~InFlight(c, "close") /\ ~Holds(events, Event("open", c))
    BY Nothing, FlightIsHeld DEF Init
  <2>3. FreshInv(c)
    BY <2>1, <2>2 DEF FreshInv
  <2>4. HostInv(c)
    BY <2>1, <2>2 DEF HostInv, NoBuf, NewClient
  <2>5. TableInv(c) /\ LiveInv(c)
    BY <2>1 DEF TableInv, LiveInv, NoTunnel, Init
  <2>6. Units(down, c) = <<>> /\ Units(up, c) = <<>> /\ Units(q, c) = <<>>
    BY UnitsOfNone DEF Init
  <2>7. RequestInv(c)
    <3>1. RequestsCount(<<>>, <<>>, <<>>, <<>>, 0, MaxData[c], Taking(c), tun[c].life = "live")
      BY Sizing, RequestsNone
    <3> QED
      BY <2>1, <2>6, <3>1 DEF RequestInv, NewSsh, NewClient, NoBuf
  <2>8. ReplyInv(c)
    <3>1. RepliesCount(<<>>, <<>>, <<>>, <<>>, <<>>, 0, tun[c].life = "live")
      BY RepliesNone
    <3> QED
      BY <2>1, <2>6, <3>1 DEF ReplyInv, NewSsh, NewClient, NoTunnel
  <2> QED
    BY <2>3, <2>4, <2>5, <2>7, <2>8 DEF Sound
<1> QED
  BY <1>3, <1>4, <1>5 DEF Inv

\* Before the handshake is over no channel is there.
LEMMA NoneYet ==
  ASSUME Inv, next = 1, NEW c \in Ids
  PROVE  /\ tun[c] = NoTunnel /\ ssh[c] = NewSsh /\ chan[c] = NoBuf /\ cli[c] = NewClient
         /\ ~Names(down, c) /\ ~Names(up, c) /\ ~Names(q, c) /\ ~Names(events, c)
  BY DEF Inv, Sound, FreshInv, Ids

\* Queues with frames of the handshake at the ends.
LEMMA HandshakeFrames ==
  ASSUME NEW f \in Seq(Frames), NEW t \in {"Hello", "HelloAck", "AuthProof"}
  PROVE  /\ f \o <<Frame(t, 0)>> \in Seq(Frames)
         /\ Append(f, Frame(t, 0)) = f \o <<Frame(t, 0)>>
         /\ \A c \in Ids : Alike(f, f \o <<Frame(t, 0)>>, c)
         /\ OpensFirst(f) => OpensFirst(f \o <<Frame(t, 0)>>)
<1> DEFINE x == Frame(t, 0)
<1>1. x \in Frames /\ x.ch = 0 /\ x.type # "open" /\ \A c \in Ids : c # 0
  BY FrameTypes, Sizing DEF Ids
<1> HIDE DEF x
<1>2. <<x>> \in Seq(Frames) /\ f \o <<x>> \in Seq(Frames) /\ Append(f, x) = f \o <<x>>
      /\ Len(<<x>>) = 1 /\ <<x>>[1] = x
  BY <1>1
<1>3. \A c \in Ids : ~Names(<<x>>, c)
  BY <1>1, Single
<1>4. \A c \in Ids : Alike(f, f \o <<x>>, c)
  BY <1>2, <1>3, AlikeBehind
<1>5. OpensFirst(f) => OpensFirst(f \o <<x>>)
  <2>1. OpensFirst(<<x>>) /\ \A i \in 1 .. Len(<<x>>) : <<x>>[i].type # "open"
    BY <1>1, <1>2 DEF OpensFirst
  <2> QED
    BY <1>2, <2>1, OpensJoined
<1> QED
  BY <1>2, <1>4, <1>5 DEF x

\* The steps of the start and its end.
LEMMA StartUpKeeps ==
  ASSUME Inv, StartUp
  PROVE  Inv'
<1>1. Types /\ PipeTypes /\ PhaseInv /\ OpensFirst(down) /\ OpensFirst(events) /\ \A c \in Ids : Sound(c)
  BY DEF Inv, Types
<1> USE DEF session, controller, host
<1>2. CASE Listen
  <2>1. next = 1 /\ open = {}
    BY <1>1, <1>2 DEF Listen, PhaseInv
  <2>2. Types' /\ PhaseInv' /\ OpensFirst(down)' /\ OpensFirst(events)'
    BY <1>1, <1>2, <2>1 DEF Listen, Types, PipeTypes, EndTypes, PhaseInv, OpensFirst
  <2>3. ASSUME NEW c \in Ids PROVE Sound(c)'
    <3>1. c >= next' /\ c \notin open'
      BY <1>2, <2>1 DEF Listen, Ids
    <3>2. FreshInv(c)'
      BY <1>2, <2>1, NoneYet DEF Listen, FreshInv
    <3> QED
      BY <3>1, <3>2, StillFresh
  <2> QED
    BY <2>2, <2>3 DEF Inv
<1>3. CASE SendHello
  <2>1. next = 1 /\ open = {} /\ down' = down \o <<Frame("Hello", 0)>>
    BY <1>1, <1>3, HandshakeFrames DEF SendHello, PhaseInv, PipeTypes
  <2>2. down' \in Seq(Frames) /\ OpensFirst(down)'
    BY <1>1, <2>1, HandshakeFrames DEF PipeTypes, OpensFirst
  <2>3. Types' /\ PhaseInv' /\ OpensFirst(events)'
    BY <1>1, <1>3, <2>1, <2>2 DEF SendHello, Types, PipeTypes, EndTypes, PhaseInv, OpensFirst
  <2>4. ASSUME NEW c \in Ids PROVE Sound(c)'
    <3>1. c >= next' /\ c \notin open'
      BY <1>3, <2>1 DEF SendHello, Ids
    <3>2. ~Names(down', c)
      BY <1>1, <2>1, NoneYet, HandshakeFrames DEF PipeTypes, Alike
    <3>3. FreshInv(c)'
      BY <1>3, <2>1, <3>2, NoneYet DEF SendHello, FreshInv
    <3> QED
      BY <3>1, <3>3, StillFresh
  <2> QED
    BY <2>2, <2>3, <2>4 DEF Inv
<1>4. CASE TakeHelloAck
  <2>0. up \in Seq(Frames) /\ down \in Seq(Frames) /\ up # <<>> /\ next = 1 /\ open = {}
        /\ Head(up).type = "HelloAck" /\ up' = Tail(up)
    BY <1>1, <1>4 DEF TakeHelloAck, PhaseInv, PipeTypes
  <2>1. /\ Tail(up) \in Seq(Frames) /\ Head(up) \in Frames
        /\ \A c \in Ids : Head(up).ch # c
    BY <2>0, Parted, FrameKinds
  <2>2. down' \in {down, down \o <<Frame("AuthProof", 0)>>}
    BY <1>4 DEF TakeHelloAck, Write
  <2>3. down' \in Seq(Frames) /\ OpensFirst(down)' /\ \A c \in Ids : Alike(down, down', c)
    BY <1>1, <2>0, <2>2, HandshakeFrames, AlikeSame DEF OpensFirst
  <2>4. Types' /\ PhaseInv' /\ OpensFirst(events)'
    <3>1. st' \in {"ready", "off"} /\ hst' = hst /\ hst # "none"
      BY <1>1, <1>4 DEF TakeHelloAck, PhaseInv
    <3> QED
      BY <1>1, <1>4, <2>0, <2>1, <2>3, <3>1 DEF TakeHelloAck, Types, PipeTypes, EndTypes, PhaseInv, OpensFirst
  <2>5. ASSUME NEW c \in Ids PROVE Sound(c)'
    <3>1. c >= next' /\ c \notin open'
      BY <1>4, <2>0 DEF TakeHelloAck, Ids
    <3>2. ~Names(down', c) /\ ~Names(up', c)
      BY <1>1, <2>0, <2>1, <2>3, NoneYet, AlikeRest DEF Alike
    <3>3. FreshInv(c)'
      BY <1>4, <2>0, <3>2, NoneYet DEF TakeHelloAck, FreshInv
    <3> QED
      BY <3>1, <3>3, StillFresh
  <2> QED
    BY <2>3, <2>4, <2>5 DEF Inv
<1>5. CASE StartFails
  <2>1. next = 1 /\ st' = "off" /\ hst' \in {"none", "gone"}
    BY <1>1, <1>5 DEF StartFails, Killed, PhaseInv
  <2>2. open' = {} /\ q' = <<>> /\ ended' = FALSE /\ down' = <<>> /\ up' = <<>>
        /\ next' = next /\ budget' = budget /\ tun' = tun /\ ssh' = ssh
        /\ chan' = chan /\ events' = events /\ cli' = cli
    BY <1>5 DEF StartFails, Killed
  <2>3. Types' /\ PhaseInv' /\ OpensFirst(down)' /\ OpensFirst(events)'
    <3>1. EndTypes'
      BY <1>1, <2>2 DEF Types, EndTypes
    <3>4. PipeTypes'
      BY <2>2 DEF PipeTypes
    <3>2. Types'
      <4>1. st' \in {"off", "listening", "hello", "ready"}
            /\ hst' \in {"none", "dialling", "hello", "proof", "serving", "gone"}
        BY <2>1
      <4> QED
        BY <1>1, <2>2, <3>1, <3>4, <4>1 DEF Types
    <3>3. PhaseInv'
      BY <2>1, <2>2 DEF PhaseInv
    <3> QED
      BY <1>1, <2>2, <3>2, <3>3, Nothing
  <2>4. ASSUME NEW c \in Ids PROVE Sound(c)'
    <3>1. c >= next' /\ c \notin open'
      BY <2>1, <2>2 DEF Ids
    <3>2. FreshInv(c)'
      BY <2>1, <2>2, NoneYet, Nothing DEF FreshInv
    <3> QED
      BY <3>1, <3>2, StillFresh
  <2> QED
    BY <2>3, <2>4 DEF Inv
<1>6. CASE HostConnects
  <2>1. Types' /\ PhaseInv' /\ OpensFirst(down)' /\ OpensFirst(events)'
    BY <1>1, <1>6 DEF HostConnects, Types, PipeTypes, EndTypes, PhaseInv, OpensFirst
  <2>2. ASSUME NEW c \in Ids PROVE Sound(c)'
    <3>1. Alike(down, down', c) /\ Alike(up, up', c) /\ Alike(q, q', c)
      BY <1>6, AlikeSame DEF HostConnects
    <3> QED
      BY <1>1, <1>6, <3>1, Unmoved DEF HostConnects
  <2> QED
    BY <2>1, <2>2 DEF Inv
<1>7. CASE TakeHello
  <2>0. up \in Seq(Frames) /\ down \in Seq(Frames) /\ down # <<>> /\ Head(down).type = "Hello"
        /\ down' = Tail(down) /\ up' = up \o <<Frame("HelloAck", 0)>>
    BY <1>1, <1>7, HandshakeFrames DEF TakeHello, PipeTypes
  <2>1. /\ Tail(down) \in Seq(Frames) /\ Head(down) \in Frames /\ OpensFirst(Tail(down))
        /\ \A c \in Ids : Head(down).ch # c
    BY <1>1, <2>0, Parted, FrameKinds, OpenIsFirst
  <2>2. up' \in Seq(Frames) /\ \A c \in Ids : Alike(up, up', c)
    BY <2>0, HandshakeFrames
  <2>3. Types' /\ PhaseInv' /\ OpensFirst(down)' /\ OpensFirst(events)'
    BY <1>1, <1>7, <2>0, <2>1, <2>2 DEF TakeHello, Types, PipeTypes, EndTypes, PhaseInv, OpensFirst
  <2>4. ASSUME NEW c \in Ids PROVE Sound(c)'
    <3>1. Alike(down, down', c) /\ Alike(q, q', c)
      BY <1>7, <2>0, <2>1, AlikeRest, AlikeSame DEF TakeHello
    <3> QED
      BY <1>1, <1>7, <2>2, <3>1, Unmoved DEF TakeHello
  <2> QED
    BY <2>3, <2>4 DEF Inv
<1>8. CASE TakeProof
  <2>0. down \in Seq(Frames) /\ down # <<>> /\ Head(down).type = "AuthProof" /\ down' = Tail(down)
    BY <1>1, <1>8 DEF TakeProof, PipeTypes
  <2>1. /\ Tail(down) \in Seq(Frames) /\ Head(down) \in Frames /\ OpensFirst(Tail(down))
        /\ \A c \in Ids : Head(down).ch # c
    BY <1>1, <2>0, Parted, FrameKinds, OpenIsFirst
  <2>3. Types' /\ PhaseInv' /\ OpensFirst(down)' /\ OpensFirst(events)'
    BY <1>1, <1>8, <2>0, <2>1 DEF TakeProof, Types, PipeTypes, EndTypes, PhaseInv, OpensFirst
  <2>4. ASSUME NEW c \in Ids PROVE Sound(c)'
    <3>1. Alike(down, down', c) /\ Alike(q, q', c) /\ Alike(up, up', c)
      BY <1>8, <2>0, <2>1, AlikeRest, AlikeSame DEF TakeProof
    <3> QED
      BY <1>1, <1>8, <3>1, Unmoved DEF TakeProof
  <2> QED
    BY <2>3, <2>4 DEF Inv
<1> QED
  BY <1>2, <1>3, <1>4, <1>5, <1>6, <1>7, <1>8 DEF StartUp

----------------------------------------------------------------------------
(* The network thread.                                                     *)

\* What is known of a channel, in pieces.
LEMMA Known ==
  ASSUME Inv, NEW c \in Ids
  PROVE  /\ Sound(c) /\ tun[c] \in Tunnels /\ ssh[c] \in Channels /\ chan[c] \in Bufs /\ cli[c] \in Clients
         /\ ssh[c].out \in Seq(Nat) /\ ssh[c].got \in Seq(Nat) /\ ssh[c].said \in Nat
         /\ tun[c].toChannel \in Seq(Nat) /\ chan[c].data \in Seq(Nat)
         /\ cli[c].ran \in Seq(Nat) /\ cli[c].out \in Seq(Nat) /\ cli[c].wrote \in Nat
         /\ Units(down, c) \in Seq(Nat) /\ Units(up, c) \in Seq(Nat) /\ Units(q, c) \in Seq(Nat)
         /\ MaxData[c] \in Nat
<1>1. Sound(c) /\ tun[c] \in Tunnels /\ ssh[c] \in Channels /\ chan[c] \in Bufs /\ cli[c] \in Clients
      /\ down \in Seq(Frames) /\ up \in Seq(Frames) /\ q \in Seq(Frames)
  BY DEF Inv, Types, EndTypes, PipeTypes
<1> QED
  BY <1>1, UnitsAreNumbers, Sizing DEF Tunnels, Channels, Bufs, Clients

LEMMA Parts ==
  Inv => /\ Types /\ PipeTypes /\ EndTypes /\ PhaseInv /\ OpensFirst(down) /\ OpensFirst(events)
         /\ (\A c \in Ids : Sound(c))
         /\ down \in Seq(Frames) /\ up \in Seq(Frames) /\ q \in Seq(Frames) /\ events \in Seq(Events)
  BY DEF Inv, Types, PipeTypes, EndTypes

LEMMA LeaveKeeps ==
  ASSUME Inv, Leave
  PROVE  Inv'
<1>1. /\ st' = "off" /\ hst' = "gone" /\ open' = {} /\ q' = <<>> /\ ended' = FALSE
      /\ down' = <<>> /\ up' = <<>> /\ next' = next /\ budget' = budget /\ ssh' = ssh /\ chan' = chan
      /\ events' = events /\ cli' = cli
      /\ tun' = [c \in Ids |-> [tun[c] EXCEPT !.life = IF @ = "live" THEN "over" ELSE @]]
  BY Parts DEF Leave, Killed, PhaseInv
<1>2. \A c \in Ids : /\ tun'[c] \in Tunnels /\ tun'[c].life # "live"
                     /\ tun[c].life = "over" => tun'[c].life = "over"
                     /\ tun[c] = NoTunnel => tun'[c] = NoTunnel
  <2> SUFFICES ASSUME NEW c \in Ids
               PROVE  /\ tun'[c] \in Tunnels /\ tun'[c].life # "live"
                      /\ tun[c].life = "over" => tun'[c].life = "over"
                      /\ tun[c] = NoTunnel => tun'[c] = NoTunnel
    OBVIOUS
  <2>1. tun'[c] = [tun[c] EXCEPT !.life = IF @ = "live" THEN "over" ELSE @] /\ tun[c] \in Tunnels
    BY <1>1, Known
  <2> QED
    BY <2>1 DEF Tunnels, Lives, NoTunnel
<1>3. Types'
  <2>1. tun' \in [Ids -> Tunnels]
    BY <1>1, <1>2
  <2>2. EndTypes' /\ PipeTypes'
    BY <1>1, <2>1, Parts DEF EndTypes, PipeTypes
  <2> QED
    BY <1>1, <2>2, Parts DEF Types
<1>4. PhaseInv' /\ OpensFirst(down)' /\ OpensFirst(events)'
  BY <1>1, Parts, Nothing DEF PhaseInv
<1>5. ASSUME NEW c \in Ids PROVE Sound(c)'
  <2>0. ~Names(down', c) /\ ~Names(up', c) /\ ~Names(q', c)
        /\ ~InFlight(c, "open")' /\ ~InFlight(c, "close")'
    BY <1>1, Nothing, FlightIsHeldNext
  <2>1. FreshInv(c)'
    BY <1>1, <1>2, <2>0, Parts DEF Sound, FreshInv
  <2>2. HostInv(c)'
    BY <1>1, <1>2, <2>0, Parts DEF Sound, HostInv
  <2>3. TableInv(c)' /\ LiveInv(c)'
    BY <1>1, <1>2 DEF TableInv, LiveInv
  <2>4. RequestInv(c)'
    <3>1. RequestsCount(cli[c].ran, chan[c].data, <<>>, ssh[c].out, ssh[c].said, MaxData[c],
                        Taking(c)', FALSE)
      BY Known, RequestsGone DEF Sound, RequestInv
    <3>2. Units(down', c) = <<>> /\ (tun'[c].life = "live") = FALSE
      BY <1>1, <1>2, UnitsOfNone
    <3> QED
      BY <1>1, <3>1, <3>2 DEF RequestInv
  <2>5. ReplyInv(c)'
    <3>1. RepliesCount(ssh[c].got, tun'[c].toChannel, Units(q', c), Units(up', c), cli[c].out,
                       cli[c].wrote, FALSE)
      <4>1. RepliesCount(ssh[c].got, tun[c].toChannel, Units(q, c), Units(up, c), cli[c].out,
                         cli[c].wrote, tun[c].life = "live")
        BY Parts DEF Sound, ReplyInv
      <4> QED
        BY <4>1 DEF RepliesCount
    <3> QED
      BY <1>1, <1>2, <3>1 DEF ReplyInv
  <2> QED
    BY <2>1, <2>2, <2>3, <2>4, <2>5 DEF Sound
<1> QED
  BY <1>3, <1>4, <1>5 DEF Inv

LEMMA NewChannelKeeps ==
  ASSUME Inv, NEW c \in Ids, NewChannel(c)
  PROVE  Inv'
<1>1. /\ st = "ready" /\ next = c /\ c \notin open /\ open' = open \cup {c}
      /\ budget' = budget /\ ssh' = ssh /\ hst' = hst /\ chan' = chan /\ events' = events /\ cli' = cli
      /\ st' = st /\ q' = q /\ ended' = ended /\ up' = up /\ hst # "none"
  BY Parts DEF NewChannel, host, PhaseInv
<1>2. \A d \in Ids : Alike(up, up', d) /\ Alike(q, q', d)
  BY <1>1, AlikeSame
<1>3. CASE PipeUp
  <2> DEFINE x == Frame("open", c)
  <2>1. /\ down' = down \o <<x>> /\ tun' = [tun EXCEPT ![c].life = "live"] /\ next' = c + 1 /\ hst # "gone"
    BY <1>1, <1>3 DEF NewChannel, Write, PipeUp
  <2>2. /\ tun[c] = NoTunnel /\ ssh[c] = NewSsh /\ chan[c] = NoBuf /\ cli[c] = NewClient
        /\ ~Names(down, c) /\ ~Names(up, c) /\ ~Names(q, c) /\ ~Names(events, c)
    BY <1>1, Parts, Sizing DEF Sound, FreshInv
  <2>3. x \in Frames /\ x.ch = c /\ x.type = "open"
    BY FrameTypes
  <2> HIDE DEF x
  <2>4. /\ <<x>> \in Seq(Frames) /\ down' \in Seq(Frames) /\ Len(<<x>>) = 1 /\ <<x>>[1] = x
        /\ \A d \in Ids : Names(<<x>>, d) <=> d = c
    BY <2>1, <2>3, Parts, Single
  <2>5. /\ tun'[c] \in Tunnels /\ tun'[c].life = "live" /\ tun'[c].toChannel = <<>>
        /\ tun' \in [Ids -> Tunnels] /\ \A d \in Ids \ {c} : tun'[d] = tun[d]
    <3>1. tun[c] \in Tunnels /\ tun \in [Ids -> Tunnels]
      BY Parts DEF EndTypes
    <3> DEFINE t == [NoTunnel EXCEPT !.life = "live"]
    <3>2. NoTunnel \in Tunnels /\ NoTunnel.toChannel = <<>>
      BY <2>2, <3>1 DEF NoTunnel
    <3>4. t \in Tunnels /\ t.life = "live" /\ t.toChannel = <<>>
      BY <3>2 DEF Tunnels, Lives
    <3>3. tun' = [tun EXCEPT ![c] = t]
      BY <2>1, <2>2
    <3> HIDE DEF t
    <3> QED
      BY <3>1, <3>3, <3>4
  <2>6. Types'
    <3>1. EndTypes' /\ PipeTypes'
      BY <1>1, <2>4, <2>5, Parts DEF EndTypes, PipeTypes
    <3>2. next' \in 1 .. N + 1
      BY <2>1, Sizing DEF Ids
    <3> QED
      BY <1>1, <3>1, <3>2, Parts DEF Types
  <2>7. PhaseInv' /\ OpensFirst(events)'
    BY <1>1, Parts DEF PhaseInv
  <2>8. OpensFirst(down)'
    <3>1. OpensFirst(<<x>>) /\ \A i \in 1 .. Len(<<x>>) : <<x>>[i].type = "open" => ~Names(down, <<x>>[i].ch)
      BY <2>2, <2>3, <2>4 DEF OpensFirst
    <3>2. OpensFirst(down \o <<x>>)
      BY <2>4, <3>1, Parts, OpensJoined
    <3> QED
      BY <2>1, <3>2
  <2>9. ASSUME NEW d \in Ids, d # c PROVE Sound(d)'
    <3>1. Alike(down, down', d)
      BY <2>1, <2>4, <2>9, Parts, AlikeBehind
    <3>2. d >= next' => d >= next
      BY <1>1, <2>1, <2>9, Sizing
    <3> QED
      BY <1>1, <1>2, <2>5, <2>9, <3>1, <3>2, Parts, Unmoved
  <2>10. Sound(c)'
    <3>1. /\ \A t : Holds(down', Frame(t, c)) <=> x = Frame(t, c)
          /\ ~Holds(events, Event("open", c))
      <4>1. \A t : ~Holds(down, Frame(t, c))
        BY <2>2, HeldIsNamed, FrameTypes
      <4>2. \A t : Holds(down', Frame(t, c)) <=> Holds(down, Frame(t, c)) \/ Holds(<<x>>, Frame(t, c))
        BY <2>1, <2>4, Parts, Joined
      <4>3. \A t : Holds(<<x>>, Frame(t, c)) <=> Frame(t, c) = x
        BY Single
      <4>4. ~Holds(events, Event("open", c))
        BY <2>2, HeldIsNamed, FrameTypes
      <4> QED
        BY <4>1, <4>2, <4>3, <4>4
    <3>2. InFlight(c, "open")' /\ ~InFlight(c, "close")'
      <4>1. Frame("close", c) # x
        BY <2>3, FrameTypes
      <4> QED
        BY <3>1, <4>1, FlightIsHeldNext DEF x
    <3>3. FreshInv(c)'
      BY <2>1, Sizing DEF FreshInv
    <3>4. HostInv(c)'
      BY <1>1, <2>2, <3>1, <3>2 DEF HostInv, NoBuf, NewClient
    <3>5. TableInv(c)' /\ LiveInv(c)'
      BY <1>1, <2>5 DEF TableInv, LiveInv
    <3>6. Units(down', c) = <<>> /\ Units(up', c) = <<>> /\ Units(q', c) = <<>>
      <4>1. Units(down, c) = <<>> /\ Units(up', c) = <<>> /\ Units(q', c) = <<>>
        BY <1>1, <2>2, UnitsUnnamed
      <4>2. Units(<<x>>, c) = <<>>
        BY <2>3, UnitsOfOne
      <4>3. Units(down', c) = Units(down, c) \o Units(<<x>>, c)
        <5>1. Units(down \o <<x>>, c) = Units(down, c) \o Units(<<x>>, c)
          <6>1. down \in Seq(Frames) /\ <<x>> \in Seq(Frames)
            BY <2>4, Parts
          <6> QED
            BY <6>1, UnitsOfBoth, Zenon
        <5> QED
          BY <2>1, <5>1
      <4> QED
        BY <4>1, <4>2, <4>3
    <3>7. RequestInv(c)'
      <4>1. RequestsCount(<<>>, <<>>, <<>>, <<>>, 0, MaxData[c], Taking(c)', tun'[c].life = "live")
        BY Sizing, RequestsNone
      <4> QED
        BY <1>1, <2>2, <3>6, <4>1 DEF RequestInv, NewSsh, NewClient, NoBuf
    <3>8. ReplyInv(c)'
      <4>1. RepliesCount(<<>>, <<>>, <<>>, <<>>, <<>>, 0, tun'[c].life = "live")
        BY RepliesNone
      <4> QED
        BY <1>1, <2>2, <2>5, <3>6, <4>1 DEF ReplyInv, NewSsh, NewClient
    <3> QED
      BY <3>3, <3>4, <3>5, <3>7, <3>8 DEF Sound
  <2> QED
    BY <2>6, <2>7, <2>8, <2>9, <2>10 DEF Inv
<1>4. CASE ~PipeUp
  <2>1. down' = down /\ tun' = tun /\ next' = next /\ hst = "gone"
    BY <1>1, <1>4, Parts DEF NewChannel, Write, PipeUp, Types
  <2>2. Types' /\ PhaseInv' /\ OpensFirst(down)' /\ OpensFirst(events)'
    BY <1>1, <2>1, Parts DEF Types, PipeTypes, EndTypes, PhaseInv, OpensFirst
  <2>3. ASSUME NEW d \in Ids PROVE Sound(d)'
    BY <1>1, <1>2, <2>1, Parts, AlikeSame, Unmoved
  <2> QED
    BY <2>2, <2>3 DEF Inv
<1> QED
  BY <1>3, <1>4

LEMMA VisitKeeps ==
  ASSUME Inv, NEW c \in Ids, NEW read \in 0 .. MaxData[c], NEW wrote \in 0 .. Len(tun[c].toChannel),
         NEW fails \in BOOLEAN, Visit(c, read, wrote, fails)
  PROVE  Inv'
<1> DEFINE t == tun[c]  s == ssh[c]
           atEof == t.chanEof \/ (s.out = <<>> /\ s.eof)
           drop  == fails \/ (read > 0 /\ ~PipeUp)
           over  == drop \/ atEof
           taken == Taken(s.out, read)
           frames == IF fails THEN <<>> ELSE DataFrames(c, taken)
           bye   == IF over THEN <<Frame("close", c)>> ELSE <<>>
           sent  == IF fails \/ ~PipeUp THEN <<>> ELSE taken
<1>1. /\ st = "ready" /\ t.life = "live" /\ read \in 0 .. Len(s.out)
      /\ wrote \in 0 .. (IF drop THEN 0 ELSE Len(t.toChannel))
      /\ ssh' = [ssh EXCEPT ![c].out = Left(@, read), ![c].got = @ \o Taken(t.toChannel, wrote)]
      /\ tun' = [tun EXCEPT ![c].chanEof = atEof, ![c].toChannel = Left(@, wrote),
                            ![c].life = IF over THEN "over" ELSE @]
      /\ open' = IF over THEN open \ {c} ELSE open
      /\ down' = IF PipeUp THEN down \o (frames \o bye) ELSE down
  <2>1. EndAfter([t EXCEPT !.chanEof = atEof]) = atEof
    BY Known DEF EndAfter, Tunnels
  <2> QED
    BY <2>1 DEF Visit, Goodbye, Write
<1>2. /\ next' = next /\ budget' = budget /\ hst' = hst /\ chan' = chan /\ events' = events /\ cli' = cli
      /\ st' = st /\ q' = q /\ ended' = ended /\ up' = up
  BY DEF Visit, host
<1>3. /\ atEof \in BOOLEAN /\ drop \in BOOLEAN /\ over \in BOOLEAN /\ (drop => over)
      /\ wrote \in 0 .. Len(t.toChannel) /\ s.out \in Seq(Nat) /\ t.toChannel \in Seq(Nat) /\ s.got \in Seq(Nat)
      /\ t \in Tunnels /\ s \in Channels /\ (PipeUp <=> hst # "gone")
  <2>1. t \in Tunnels /\ s \in Channels /\ s.out \in Seq(Nat) /\ t.toChannel \in Seq(Nat) /\ s.got \in Seq(Nat)
    BY Known
  <2>2. PipeUp <=> hst # "gone"
    BY <1>1 DEF PipeUp
  <2> QED
    BY <2>1, <2>2 DEF Tunnels, Channels
<1> HIDE DEF atEof, drop
\* The tunnel and its SSH channel.
<1>4. /\ tun'[c].chanEof = atEof /\ tun'[c].toChannel = Left(t.toChannel, wrote)
      /\ tun'[c].life = (IF over THEN "over" ELSE "live")
      /\ tun' \in [Ids -> Tunnels] /\ \A d \in Ids \ {c} : tun'[d] = tun[d]
  <2>1. tun \in [Ids -> Tunnels] /\ Left(t.toChannel, wrote) \in Seq(Nat)
    BY <1>3, Parts, Cut DEF EndTypes
  <2> HIDE DEF over
  <2> QED
    BY <1>1, <1>3, <2>1 DEF Tunnels, Lives
<1>5. /\ ssh'[c].out = Left(s.out, read) /\ ssh'[c].got = s.got \o Taken(t.toChannel, wrote)
      /\ ssh'[c].said = s.said
      /\ ssh' \in [Ids -> Channels] /\ \A d \in Ids \ {c} : ssh'[d] = ssh[d]
  <2>1. ssh \in [Ids -> Channels] /\ Left(s.out, read) \in Seq(Nat) /\ Taken(t.toChannel, wrote) \in Seq(Nat)
    BY <1>1, <1>3, Parts, Cut DEF EndTypes
  <2>2. s.got \o Taken(t.toChannel, wrote) \in Seq(Nat)
    BY <1>3, <2>1
  <2> QED
    BY <1>1, <1>3, <2>1, <2>2 DEF Channels
\* What goes into the pipe.
<1>6. /\ taken \in Seq(Nat) /\ Left(s.out, read) \in Seq(Nat) /\ s.out = taken \o Left(s.out, read)
      /\ Len(taken) = read
  BY <1>1, <1>3, Cut
<1> HIDE DEF taken
<1>7. /\ frames \in Seq(Frames) /\ bye \in Seq(Frames)
      /\ Units(frames, c) = (IF fails THEN <<>> ELSE taken) /\ Units(bye, c) = <<>>
      /\ \A d : d # c => ~Names(frames, d) /\ ~Names(bye, d)
      /\ \A k \in {"open", "close"} : ~Holds(frames, Frame(k, c))
      /\ ~Holds(bye, Frame("open", c)) /\ (Holds(bye, Frame("close", c)) <=> over)
  <2>1. /\ <<>> \in Seq(Frames) /\ Units(<<>>, c) = <<>> /\ (\A d : ~Names(<<>>, d)) /\ \A x : ~Holds(<<>>, x)
    BY UnitsOfNone, Nothing
  <2>2. /\ DataFrames(c, taken) \in Seq(Frames) /\ Units(DataFrames(c, taken), c) = taken
        /\ \A d : Names(DataFrames(c, taken), d) => d = c
        /\ \A k \in {"open", "close"} : ~Holds(DataFrames(c, taken), Frame(k, c))
    BY <1>6, DataFramesAre, UnitsOfData, DataNames
  <2> DEFINE x == Frame("close", c)
  <2>3. x \in Frames /\ x.ch = c /\ x.type = "close" /\ x # Frame("open", c)
    BY FrameTypes
  <2> HIDE DEF x
  <2>4. /\ <<x>> \in Seq(Frames) /\ Units(<<x>>, c) = <<>>
        /\ (\A d : Names(<<x>>, d) <=> d = c) /\ \A y : Holds(<<x>>, y) <=> y = x
    <3>1. <<x>> \in Seq(Frames) /\ Units(<<x>>, c) = <<>>
      <4>1. ~(x.type = "data" /\ x.ch = c)
        BY <2>3
      <4>2. Units(<<x>>, c) = IF x.type = "data" /\ x.ch = c THEN <<x.n>> ELSE <<>>
        BY <2>3, UnitsOfOne, Zenon
      <4>3. <<x>> \in Seq(Frames)
        BY <2>3
      <4> QED
        BY <4>1, <4>2, <4>3
    <3>2. (\A d : Names(<<x>>, d) <=> d = c) /\ \A y : Holds(<<x>>, y) <=> y = x
      BY <2>3, Single, Zenon
    <3> QED
      BY <3>1, <3>2
  <2>5. bye = IF over THEN <<x>> ELSE <<>>
    BY DEF x
  <2> HIDE DEF over, bye
  <2>6. /\ bye \in Seq(Frames) /\ Units(bye, c) = <<>> /\ (\A d : d # c => ~Names(bye, d))
        /\ ~Holds(bye, Frame("open", c)) /\ (Holds(bye, x) <=> over)
    BY <2>1, <2>3, <2>4, <2>5
  <2>7. /\ frames \in Seq(Frames) /\ Units(frames, c) = (IF fails THEN <<>> ELSE taken)
        /\ (\A d : d # c => ~Names(frames, d)) /\ \A k \in {"open", "close"} : ~Holds(frames, Frame(k, c))
    BY <2>1, <2>2
  <2> QED
    BY <2>6, <2>7 DEF x
<1> HIDE DEF frames, bye
<1>8. /\ down' \in Seq(Frames) /\ Units(down', c) = Units(down, c) \o sent
      /\ (\A d \in Ids : d # c => Alike(down, down', d))
      /\ (Holds(down', Frame("open", c)) <=> Holds(down, Frame("open", c)))
      /\ (Holds(down', Frame("close", c)) <=> Holds(down, Frame("close", c)) \/ (PipeUp /\ over))
  <2> HIDE DEF over, sent
  <2>1. CASE PipeUp
    <3> DEFINE g == frames \o bye
    <3>1. g \in Seq(Frames) /\ Units(g, c) = Units(frames, c) \o Units(bye, c)
          /\ (\A d : Names(g, d) <=> Names(frames, d) \/ Names(bye, d))
          /\ \A y : Holds(g, y) <=> Holds(frames, y) \/ Holds(bye, y)
      <4>1. g \in Seq(Frames) /\ Units(g, c) = Units(frames, c) \o Units(bye, c)
        <5>1. frames \in Seq(Frames) /\ bye \in Seq(Frames)
          BY <1>7
        <5>2. Units(g, c) = Units(frames, c) \o Units(bye, c)
          BY <5>1, UnitsOfBoth, Zenon
        <5> HIDE DEF g
        <5>3. g \in Seq(Frames)
          BY <5>1 DEF g
        <5> QED
          BY <5>2, <5>3
      <4>2. (\A d : Names(g, d) <=> Names(frames, d) \/ Names(bye, d))
            /\ \A y : Holds(g, y) <=> Holds(frames, y) \/ Holds(bye, y)
        BY <1>7, Joined, Zenon
      <4> QED
        BY <4>1, <4>2
    <3>2. Units(g, c) = sent
      BY <1>6, <1>7, <2>1, <3>1, ConcatEmptySeq DEF sent
    <3> HIDE DEF g
    <3>3. down \o g \in Seq(Frames) /\ Units(down \o g, c) = Units(down, c) \o Units(g, c)
          /\ \A y : Holds(down \o g, y) <=> Holds(down, y) \/ Holds(g, y)
      <4>0. down \in Seq(Frames) /\ g \in Seq(Frames)
        BY <3>1, Parts
      <4>1. down \o g \in Seq(Frames) /\ Units(down \o g, c) = Units(down, c) \o Units(g, c)
        BY <4>0, UnitsOfBoth
      <4>2. \A y : Holds(down \o g, y) <=> Holds(down, y) \/ Holds(g, y)
        BY <4>0, Joined, Zenon
      <4> QED
        BY <4>1, <4>2
    <3>4. \A d \in Ids : d # c => Alike(down, down \o g, d)
      BY <1>7, <3>1, Parts, AlikeBehind
    <3>5. down' = down \o g
      BY <1>1, <2>1 DEF g
    <3> QED
      BY <1>7, <2>1, <3>1, <3>2, <3>3, <3>4, <3>5
  <2>2. CASE ~PipeUp
    <3>1. down' = down /\ sent = <<>>
      BY <1>1, <2>2 DEF sent
    <3> QED
      BY <2>2, <3>1, Parts, Known, AlikeSame, ConcatEmptySeq
  <2> QED
    BY <2>1, <2>2
<1>9. sent = taken \/ (sent = <<>> /\ over)
  <2>1. CASE fails \/ PipeUp \/ read > 0
    BY <1>3, <2>1 DEF drop
  <2>2. CASE ~fails /\ ~PipeUp /\ ~(read > 0)
    BY <1>6, <2>2
  <2> QED
    BY <2>1, <2>2
<1> HIDE DEF sent
<1>10. Types' /\ PhaseInv' /\ OpensFirst(events)'
  <2>1. EndTypes' /\ PipeTypes'
    BY <1>2, <1>4, <1>5, <1>8, Parts DEF EndTypes, PipeTypes
  <2>2. open' \subseteq Ids
    BY <1>1, Parts DEF Types
  <2>3. PhaseInv'
    BY <1>1, <1>2, Parts DEF PhaseInv
  <2> QED
    BY <1>2, <2>1, <2>2, <2>3, Parts DEF Types
<1>11. OpensFirst(down)'
  <2>1. CASE PipeUp
    <3> DEFINE g == frames \o bye
    <3>1. g \in Seq(Frames) /\ (\A d : Names(g, d) <=> Names(frames, d) \/ Names(bye, d))
          /\ \A y : Holds(g, y) <=> Holds(frames, y) \/ Holds(bye, y)
      BY <1>7, Joined
    <3>2. down' = down \o g
      BY <1>1, <2>1
    <3> HIDE DEF g
    <3>3. \A d \in Ids : ~Holds(g, Frame("open", d))
      BY <1>7, <3>1, HeldIsNamed, FrameTypes
    <3> QED
      BY <3>1, <3>2, <3>3, Parts, NoOpens
  <2>2. CASE ~PipeUp
    BY <1>1, <2>2, Parts
  <2> QED
    BY <2>1, <2>2
<1> HIDE DEF over
<1>12. ASSUME NEW d \in Ids, d # c PROVE Sound(d)'
  <2>1. Alike(up, up', d) /\ Alike(q, q', d) /\ Alike(down, down', d)
    BY <1>2, <1>8, <1>12, AlikeSame
  <2>2. d \in open' <=> d \in open
    BY <1>1, <1>12
  <2> QED
    BY <1>2, <1>4, <1>5, <1>12, <2>1, <2>2, Parts, Unmoved
<1>13. Sound(c)'
  <2>0. Sound(c) /\ (c \in open' <=> c \in open /\ ~over) /\ (tun'[c].life = "live" <=> ~over)
        /\ (tun'[c].life = "over" <=> over)
    BY <1>1, <1>3, <1>4, Parts
  <2>1. /\ InFlight(c, "open")' <=> InFlight(c, "open")
        /\ InFlight(c, "close")' <=> InFlight(c, "close") \/ (PipeUp /\ over)
    BY <1>8, FlightIsHeld, FlightIsHeldNext
  <2>2. Taking(c)' <=> Taking(c)
    BY <1>2, <2>1 DEF Taking, OpenBuf
  <2>3. ~(c >= next) /\ FreshInv(c)'
    <3>1. tun[c] # NoTunnel
      BY <1>1 DEF NoTunnel
    <3> QED
      BY <1>2, <2>0, <3>1 DEF Sound, FreshInv
  <2>4. HostInv(c)'
    BY <1>1, <1>2, <2>0, <2>1 DEF Sound, HostInv
  <2>5. TableInv(c)' /\ LiveInv(c)'
    BY <1>1, <1>2, <1>3, <2>0, <2>1, <2>2 DEF Sound, TableInv, LiveInv
  <2>6. RequestInv(c)'
    <3> DEFINE left == Left(s.out, read)
               max == MaxData[c]  tk == Taking(c)'  live == tun'[c].life = "live"
    <3>1. RequestsCount(cli[c].ran, chan[c].data, Units(down, c), taken \o left, s.said, max, tk, TRUE)
      <4>1. RequestsCount(cli[c].ran, chan[c].data, Units(down, c), s.out, s.said, max, Taking(c), t.life = "live")
        BY <2>0 DEF Sound, RequestInv
      <4>2. RequestsCount(cli[c].ran, chan[c].data, Units(down, c), s.out, s.said, max, tk, TRUE)
        BY <1>1, <2>2, <4>1, Known, RequestsFall
      <4> QED
        BY <1>6, <4>2
    <3>2. RequestsCount(cli[c].ran, chan[c].data, Units(down', c), left, s.said, max, tk, live)
      <4>1. CASE sent = taken
        <5>1. RequestsCount(cli[c].ran, chan[c].data, Units(down, c) \o taken, left, s.said, max, tk, TRUE)
          BY <1>6, <3>1, Known, RequestsSent
        <5>2. Units(down, c) \o taken \in Seq(Nat)
          BY <1>6, Known
        <5>3. RequestsCount(cli[c].ran, chan[c].data, Units(down, c) \o taken, left, s.said, max, tk, live)
          BY <1>6, <5>1, <5>2, Known, RequestsFall
        <5> QED
          BY <1>8, <4>1, <5>3
      <4>2. CASE sent = <<>> /\ over
        <5>1. RequestsCount(cli[c].ran, chan[c].data, Units(down, c), left, s.said, max, tk, FALSE)
          BY <1>6, <3>1, Known, RequestsLost
        <5>2. Units(down', c) = Units(down, c) /\ live = FALSE
          BY <1>8, <2>0, <4>2, Known, ConcatEmptySeq
        <5> QED
          BY <5>1, <5>2
      <4> QED
        BY <1>9, <4>1, <4>2
    <3> QED
      BY <1>2, <1>5, <3>2 DEF RequestInv
  <2>7. ReplyInv(c)'
    <3> DEFINE a == Taken(t.toChannel, wrote)  b == Left(t.toChannel, wrote)
               live == tun'[c].life = "live"
    <3>1. a \in Seq(Nat) /\ b \in Seq(Nat) /\ t.toChannel = a \o b
      BY <1>3, Cut
    <3> HIDE DEF a, b
    <3>2. RepliesCount(s.got, a \o b, Units(q, c), Units(up, c), cli[c].out, cli[c].wrote, TRUE)
      <4>1. RepliesCount(s.got, t.toChannel, Units(q, c), Units(up, c), cli[c].out, cli[c].wrote, t.life = "live")
        BY <2>0 DEF Sound, ReplyInv
      <4> QED
        BY <1>1, <3>1, <4>1
    <3>3. RepliesCount(s.got \o a, b, Units(q, c), Units(up, c), cli[c].out, cli[c].wrote, TRUE)
      BY <3>1, <3>2, Known, RepliesWritten
    <3>4. RepliesCount(s.got \o a, b, Units(q, c), Units(up, c), cli[c].out, cli[c].wrote, live)
      BY <3>3 DEF RepliesCount
    <3> QED
      BY <1>2, <1>4, <1>5, <3>4 DEF ReplyInv, a, b
  <2> QED
    BY <2>3, <2>4, <2>5, <2>6, <2>7 DEF Sound
<1> QED
  BY <1>10, <1>11, <1>12, <1>13 DEF Inv

\* What a queue's head is of a channel, and what it leaves.
LEMMA HeadOf ==
  ASSUME NEW f \in Seq(Frames), f # <<>>
  PROVE  /\ Head(f) \in Frames /\ Tail(f) \in Seq(Frames) /\ Names(f, Head(f).ch)
         /\ \A c \in Ids : c # Head(f).ch => Alike(f, Tail(f), c)
         /\ \A c : Names(Tail(f), c) => Names(f, c)
         /\ \A x : Holds(f, x) <=> x = Head(f) \/ Holds(Tail(f), x)
         /\ Head(f).type = "data" => Units(f, Head(f).ch) = <<Head(f).n>> \o Units(Tail(f), Head(f).ch)
         /\ Head(f).type # "data" => Units(f, Head(f).ch) = Units(Tail(f), Head(f).ch)
<1> DEFINE x == Head(f)  h == <<x>>  r == Tail(f)
<1>1. x \in Frames /\ h \in Seq(Frames) /\ r \in Seq(Frames) /\ f = h \o r
  BY Parted
<1>2. \A c \in Ids : c # x.ch => Alike(f, r, c)
  BY AlikeRest
<1>3. Units(h, x.ch) = IF x.type = "data" /\ x.ch = x.ch THEN <<x.n>> ELSE <<>>
  BY <1>1, UnitsOfOne, Zenon
<1>4. (\A c : Names(h, c) <=> x.ch = c) /\ \A y : Holds(h, y) <=> y = x
  BY Single, Zenon
<1> HIDE DEF h, r, x
<1>5. Units(h \o r, x.ch) = Units(h, x.ch) \o Units(r, x.ch)
  <2>1. h \in Seq(Frames) /\ r \in Seq(Frames)
    BY <1>1
  <2>2. \A c : Units(h \o r, c) = Units(h, c) \o Units(r, c)
    BY <2>1, UnitsOfBoth
  <2> QED
    BY <2>2
<1>6. (\A c : Names(h \o r, c) <=> Names(h, c) \/ Names(r, c))
      /\ \A y : Holds(h \o r, y) <=> Holds(h, y) \/ Holds(r, y)
  BY <1>1, Joined, Zenon
<1>7. Units(r, x.ch) \in Seq(Nat)
  BY <1>1, UnitsAreNumbers
<1>8. x.type # "data" => Units(f, x.ch) = Units(r, x.ch)
  BY <1>1, <1>3, <1>5, <1>7, ConcatEmptySeq
<1>9. x.type = "data" => Units(f, x.ch) = <<x.n>> \o Units(r, x.ch)
  BY <1>1, <1>3, <1>5
<1>10. Names(f, x.ch) /\ (\A c : Names(r, c) => Names(f, c)) /\ \A y : Holds(f, y) <=> y = x \/ Holds(r, y)
  BY <1>1, <1>4, <1>6
<1> QED
  BY <1>1, <1>2, <1>8, <1>9, <1>10 DEF x, r

\* What one more frame adds to a queue.
LEMMA OneMore ==
  ASSUME NEW f \in Seq(Frames), NEW x \in Frames
  PROVE  /\ f \o <<x>> \in Seq(Frames) /\ Append(f, x) = f \o <<x>>
         /\ \A c \in Ids : c # x.ch => Alike(f, f \o <<x>>, c)
         /\ \A c : Names(f \o <<x>>, c) <=> Names(f, c) \/ c = x.ch
         /\ \A y : Holds(f \o <<x>>, y) <=> Holds(f, y) \/ y = x
         /\ x.type = "data" => Units(f \o <<x>>, x.ch) = Units(f, x.ch) \o <<x.n>>
         /\ x.type # "data" => Units(f \o <<x>>, x.ch) = Units(f, x.ch)
<1> DEFINE h == <<x>>
<1>1. h \in Seq(Frames) /\ f \o h \in Seq(Frames) /\ Append(f, x) = f \o h
  BY AppendIs
<1>3. Units(h, x.ch) = IF x.type = "data" /\ x.ch = x.ch THEN <<x.n>> ELSE <<>>
  BY UnitsOfOne, Zenon
<1>4. (\A c : Names(h, c) <=> x.ch = c) /\ \A y : Holds(h, y) <=> y = x
  BY Single, Zenon
<1> HIDE DEF h
<1>2. \A c \in Ids : c # x.ch => Alike(f, f \o h, c)
  BY <1>1, <1>4, AlikeBehind
<1>5. Units(f \o h, x.ch) = Units(f, x.ch) \o Units(h, x.ch)
  BY <1>1, UnitsOfBoth, Zenon
<1>6. (\A c : Names(f \o h, c) <=> Names(f, c) \/ Names(h, c))
      /\ \A y : Holds(f \o h, y) <=> Holds(f, y) \/ Holds(h, y)
  BY <1>1, Joined, Zenon
<1>7. Units(f, x.ch) \in Seq(Nat)
  BY UnitsAreNumbers
<1>8. x.type # "data" => Units(f \o h, x.ch) = Units(f, x.ch)
  BY <1>3, <1>5, <1>7, ConcatEmptySeq
<1>9. x.type = "data" => Units(f \o h, x.ch) = Units(f, x.ch) \o <<x.n>>
  BY <1>3, <1>5
<1> QED
  BY <1>1, <1>2, <1>4, <1>6, <1>8, <1>9 DEF h

\* Polls that route nothing, and the host's death.
LEMMA OthersKeep ==
  ASSUME Inv, StartPolls \/ HostDies
  PROVE  Inv'
<1>1. CASE StartPolls
  <2>1. Types' /\ PhaseInv' /\ OpensFirst(down)' /\ OpensFirst(events)'
    <3>1. Budget \in 0 .. Budget
      BY Sizing
    <3> QED
      BY <1>1, <3>1, Parts DEF StartPolls, controller, host, Types, PipeTypes, EndTypes, PhaseInv, OpensFirst
  <2>2. ASSUME NEW c \in Ids PROVE Sound(c)'
    BY <1>1, Parts, AlikeSame, Unmoved DEF StartPolls, controller, host
  <2> QED
    BY <2>1, <2>2 DEF Inv
<1>2. CASE HostDies
  <2>1. Types' /\ PhaseInv' /\ OpensFirst(down)' /\ OpensFirst(events)'
    BY <1>2, Parts DEF HostDies, controller, session, Types, PipeTypes, EndTypes, PhaseInv, OpensFirst
  <2>2. ASSUME NEW c \in Ids PROVE Sound(c)'
    BY <1>2, Parts, AlikeSame, Unmoved DEF HostDies, controller, session
  <2> QED
    BY <2>1, <2>2 DEF Inv
<1> QED
  BY <1>1, <1>2

\* A frame the pass takes goes to its tunnel, if that is live.
LEMMA PollKeeps ==
  ASSUME Inv, Poll
  PROVE  Inv'
<1>1. /\ next' = next /\ ssh' = ssh /\ st' = st /\ open' = open /\ ended' = ended /\ budget > 0
      /\ hst' = hst /\ chan' = chan /\ events' = events /\ cli' = cli /\ down' = down /\ up' = up
  BY DEF Poll, host
<1>2. budget - 1 \in 0 .. Budget /\ 0 \in 0 .. Budget
  BY <1>1, Parts, Sizing DEF Types
<1>3. PhaseInv' /\ OpensFirst(down)' /\ OpensFirst(events)'
  BY <1>1, Parts DEF PhaseInv
<1>4. \A c \in Ids : Alike(down, down', c) /\ Alike(up, up', c)
  BY <1>1, AlikeSame
<1>5. CASE q # <<>>
  <2> DEFINE f == Head(q)  c == f.ch
  <2>1. q' = Tail(q) /\ tun' = Routed(f) /\ budget' = budget - 1
    BY <1>5 DEF Poll
  <2>2. /\ f \in Frames /\ Tail(q) \in Seq(Frames) /\ Names(q, c) /\ f.ch = c
        /\ (\A d \in Ids : d # c => Alike(q, Tail(q), d))
        /\ (\A d : Names(Tail(q), d) => Names(q, d))
        /\ f.type = "data" => Units(q, c) = <<f.n>> \o Units(Tail(q), c)
        /\ f.type # "data" => Units(q, c) = Units(Tail(q), c)
    BY <1>5, Parts, HeadOf
  <2>3. tun \in [Ids -> Tunnels] /\ f.n \in Nat
    BY <2>2, Parts, FrameKinds DEF EndTypes
  <2>4. \/ /\ c \in Live /\ f.type = "data" /\ tun' = [tun EXCEPT ![c].toChannel = Append(@, f.n)]
        \/ /\ c \in Live /\ f.type = "close" /\ tun' = [tun EXCEPT ![c].chanEof = TRUE]
        \/ /\ ~(c \in Live /\ f.type = "data") /\ tun' = tun
    BY <2>1 DEF Routed
  <2> HIDE DEF f, c
  <2>5. /\ tun' \in [Ids -> Tunnels] /\ (\A d \in Ids : d # c => tun'[d] = tun[d])
        /\ \A d \in Ids : tun'[d].life = tun[d].life
    <3> DEFINE more == Append(tun[c].toChannel, f.n)
    <3>1. CASE c \in Live /\ f.type = "data" /\ tun' = [tun EXCEPT ![c].toChannel = Append(@, f.n)]
      <4>1. c \in Ids /\ more \in Seq(Nat) /\ tun' = [tun EXCEPT ![c].toChannel = more]
        BY <2>3, <3>1, Known DEF Live
      <4> HIDE DEF more
      <4> QED
        BY <2>3, <4>1 DEF Tunnels
    <3>2. CASE c \in Live /\ f.type = "close" /\ tun' = [tun EXCEPT ![c].chanEof = TRUE]
      BY <2>3, <3>2 DEF Live, Tunnels
    <3>3. CASE tun' = tun
      BY <2>3, <3>3
    <3> QED
      BY <2>4, <3>1, <3>2, <3>3
  <2>6. Types'
    <3>1. EndTypes' /\ PipeTypes'
      BY <1>1, <2>1, <2>2, <2>5, Parts DEF EndTypes, PipeTypes
    <3> QED
      BY <1>1, <1>2, <2>1, <3>1, Parts DEF Types
  <2>7. ASSUME NEW d \in Ids, d # c PROVE Sound(d)'
    BY <1>1, <1>4, <2>1, <2>2, <2>5, <2>7, Parts, Unmoved
  <2>8. ASSUME NEW d \in Ids, d = c PROVE Sound(d)'
    <3>0. /\ f.type = "data" => Units(q, d) = <<f.n>> \o Units(Tail(q), d)
          /\ f.type # "data" => Units(q, d) = Units(Tail(q), d)
          /\ d \in Live /\ f.type = "data" => tun'[d].toChannel = Append(tun[d].toChannel, f.n)
          /\ f.type # "data" => tun'[d].toChannel = tun[d].toChannel
      <4>1. tun[d] \in Tunnels
        BY Known
      <4> QED
        BY <2>2, <2>3, <2>4, <2>8, <4>1 DEF Tunnels
    <3>1. ~(d >= next)
      BY <2>2, <2>8, Parts DEF Sound, FreshInv
    <3>2. Linked(d)' /\ Taking(d)' = Taking(d)
      BY <1>1, <2>5, <2>8, <3>1, Parts, LinksStay
    <3>3. RequestInv(d)'
      BY <1>1, <2>5, <2>8, <3>2, Parts DEF Sound, RequestInv
    <3>4. RepliesCount(ssh[d].got, tun[d].toChannel, Units(q, d), Units(up, d), cli[d].out,
                       cli[d].wrote, tun[d].life = "live")
      BY <2>8, Parts DEF Sound, ReplyInv
    <3>5. Units(Tail(q), d) \in Seq(Nat)
      BY <2>2, UnitsAreNumbers
    <3>6. RepliesCount(ssh[d].got, tun'[d].toChannel, Units(q', d), Units(up, d), cli[d].out,
                       cli[d].wrote, tun[d].life = "live")
      <4>1. CASE d \in Live /\ f.type = "data"
        <5>1. tun'[d].toChannel = tun[d].toChannel \o <<f.n>>
          <6>1. tun'[d].toChannel = Append(tun[d].toChannel, f.n)
            BY <3>0, <4>1
          <6>2. tun[d].toChannel \in Seq(Nat)
            BY Known
          <6>3. Append(tun[d].toChannel, f.n) = tun[d].toChannel \o <<f.n>>
            BY <2>3, <6>2, AppendIs
          <6> QED
            BY <6>1, <6>3
        <5>2. RepliesCount(ssh[d].got, tun[d].toChannel \o <<f.n>>, Units(Tail(q), d), Units(up, d),
                           cli[d].out, cli[d].wrote, tun[d].life = "live")
          <6>1. RepliesCount(ssh[d].got, tun[d].toChannel, <<f.n>> \o Units(Tail(q), d), Units(up, d),
                             cli[d].out, cli[d].wrote, tun[d].life = "live")
            BY <3>0, <3>4, <4>1
          <6>2. /\ ssh[d].got \in Seq(Nat) /\ tun[d].toChannel \in Seq(Nat) /\ Units(up, d) \in Seq(Nat)
                /\ cli[d].out \in Seq(Nat) /\ cli[d].wrote \in Nat
            BY Known
          <6> QED
            BY <2>3, <3>5, <6>1, <6>2, ReplyRouted
        <5> QED
          BY <2>1, <5>1, <5>2
      <4>2. CASE d \notin Live
        BY <2>8, <3>4, <4>2 DEF Live, RepliesCount
      <4>3. CASE f.type # "data"
        BY <2>1, <3>0, <3>4, <4>3
      <4> QED
        BY <4>1, <4>2, <4>3
    <3>7. ReplyInv(d)'
      BY <1>1, <2>5, <2>8, <3>6 DEF ReplyInv
    <3> QED
      BY <3>2, <3>3, <3>7 DEF Sound, Linked
  <2> QED
    BY <1>3, <2>6, <2>7, <2>8 DEF Inv
<1>6. CASE q = <<>>
  <2>1. q' = q /\ tun' \in {tun, HostLost} /\ budget' = 0
    BY <1>6 DEF Poll
  <2>2. \A c \in Ids : /\ tun'[c] \in Tunnels /\ tun'[c].life = tun[c].life
                       /\ tun'[c].toChannel = tun[c].toChannel
                       /\ tun[c] = NoTunnel => tun'[c] = NoTunnel
    <3>1. CASE tun' = tun
      BY <3>1, Known
    <3>2. CASE tun' = HostLost
      <4> SUFFICES ASSUME NEW c \in Ids
                   PROVE  /\ tun'[c] \in Tunnels /\ tun'[c].life = tun[c].life
                          /\ tun'[c].toChannel = tun[c].toChannel
                          /\ tun[c] = NoTunnel => tun'[c] = NoTunnel
        OBVIOUS
      <4>1. tun'[c] = [tun[c] EXCEPT !.chanEof = @ \/ c \in Live] /\ tun[c] \in Tunnels
        BY <3>2, Known DEF HostLost
      <4>2. tun[c] = NoTunnel => c \notin Live
        BY DEF Live, NoTunnel
      <4>3. c \notin Live => tun'[c] = tun[c]
        BY <4>1 DEF Tunnels
      <4> QED
        BY <4>1, <4>2, <4>3 DEF Tunnels
    <3> QED
      BY <2>1, <3>1, <3>2
  <2>3. tun' \in [Ids -> Tunnels]
    <3>1. \A g : g = HostLost => g = [c \in Ids |-> g[c]]
      BY DEF HostLost
    <3>2. tun = [c \in Ids |-> tun[c]]
      BY Parts DEF EndTypes
    <3> QED
      BY <2>1, <2>2, <3>1, <3>2
  <2>4. Types'
    <3>1. EndTypes' /\ PipeTypes'
      BY <1>1, <2>1, <2>3, Parts DEF EndTypes, PipeTypes
    <3> QED
      BY <1>1, <1>2, <2>1, <3>1, Parts DEF Types
  <2>5. ASSUME NEW c \in Ids PROVE Sound(c)'
    <3>1. CASE c >= next
      <4>1. tun[c] = NoTunnel
        BY <3>1, Parts DEF Sound, FreshInv
      <4>2. tun'[c] = tun[c]
        BY <2>2, <4>1
      <4> QED
        BY <1>1, <1>4, <2>1, <4>2, Parts, AlikeSame, Unmoved
    <3>2. CASE ~(c >= next)
      <4>1. Linked(c)' /\ Taking(c)' = Taking(c)
        BY <1>1, <2>2, <3>2, Parts, LinksStay
      <4>2. RequestInv(c)'
        BY <1>1, <2>2, <4>1, Parts DEF Sound, RequestInv
      <4>3. ReplyInv(c)'
        BY <1>1, <2>1, <2>2, Parts DEF Sound, ReplyInv
      <4> QED
        BY <4>1, <4>2, <4>3 DEF Sound, Linked
    <3> QED
      BY <3>1, <3>2
  <2> QED
    BY <1>3, <2>4, <2>5 DEF Inv
<1> QED
  BY <1>5, <1>6

\* The reader thread moves a frame from the pipe to its queue.
LEMMA ReadKeeps ==
  ASSUME Inv, Read
  PROVE  Inv'
<1>1. /\ next' = next /\ budget' = budget /\ tun' = tun /\ ssh' = ssh /\ st' = st /\ open' = open
      /\ hst' = hst /\ chan' = chan /\ events' = events /\ cli' = cli /\ down' = down
  BY DEF Read, host, session
<1>2. PhaseInv' /\ OpensFirst(down)' /\ OpensFirst(events)'
  BY <1>1, Parts DEF PhaseInv
<1>3. \A d : Alike(down, down', d)
  BY <1>1, AlikeSame
<1>4. CASE up # <<>>
  <2> DEFINE x == Head(up)  r == Tail(up)  qx == q \o <<x>>
  <2>1. ended' = ended /\ up' = r
    BY <1>4 DEF Read
  <2>2. /\ x \in Frames /\ r \in Seq(Frames) /\ Names(up, x.ch)
        /\ (\A d \in Ids : x.ch # d => Alike(up, r, d))
        /\ x.type = "data" => Units(up, x.ch) = <<x.n>> \o Units(r, x.ch)
        /\ x.type # "data" => Units(up, x.ch) = Units(r, x.ch)
    BY <1>4, Parts, HeadOf
  <2> HIDE DEF x, r
  <2>3. /\ qx \in Seq(Frames) /\ Append(q, x) = qx
        /\ (\A d \in Ids : x.ch # d => Alike(q, qx, d))
        /\ x.type = "data" => Units(qx, x.ch) = Units(q, x.ch) \o <<x.n>>
        /\ x.type # "data" => Units(qx, x.ch) = Units(q, x.ch)
    BY <2>2, Parts, OneMore
  <2>4. q' = qx /\ x.n \in Nat
    BY <1>4, <2>2, <2>3, FrameKinds DEF Read, x
  <2> HIDE DEF qx
  <2>5. Types'
    <3>1. EndTypes' /\ PipeTypes'
      BY <1>1, <2>1, <2>2, <2>3, <2>4, Parts DEF EndTypes, PipeTypes
    <3> QED
      BY <1>1, <2>1, <3>1, Parts DEF Types
  <2>6. ASSUME NEW d \in Ids, x.ch # d PROVE Sound(d)'
    BY <1>1, <1>3, <2>1, <2>2, <2>3, <2>4, <2>6, Parts, Unmoved
  <2>7. ASSUME NEW d \in Ids, x.ch = d PROVE Sound(d)'
    <3>1. ~(d >= next) /\ Sound(d)
      BY <2>2, <2>7, Parts DEF Sound, FreshInv
    <3>2. Linked(d)' /\ Taking(d)' = Taking(d)
      BY <1>1, <3>1, LinksStay
    <3>3. RequestInv(d)'
      BY <1>1, <3>1, <3>2 DEF Sound, RequestInv
    <3>4. RepliesCount(ssh[d].got, tun[d].toChannel, Units(q, d), Units(up, d), cli[d].out,
                       cli[d].wrote, tun[d].life = "live")
      BY <3>1 DEF Sound, ReplyInv
    <3>5. RepliesCount(ssh[d].got, tun[d].toChannel, Units(q', d), Units(up', d), cli[d].out,
                       cli[d].wrote, tun[d].life = "live")
      <4>1. CASE x.type = "data"
        <5>1. Units(up, d) = <<x.n>> \o Units(r, d) /\ Units(qx, d) = Units(q, d) \o <<x.n>>
          BY <2>2, <2>3, <2>7, <4>1
        <5>2. Units(r, d) \in Seq(Nat)
          BY <2>2, UnitsAreNumbers
        <5>3. RepliesCount(ssh[d].got, tun[d].toChannel, Units(q, d) \o <<x.n>>, Units(r, d),
                           cli[d].out, cli[d].wrote, tun[d].life = "live")
          <6>1. RepliesCount(ssh[d].got, tun[d].toChannel, Units(q, d), <<x.n>> \o Units(r, d),
                             cli[d].out, cli[d].wrote, tun[d].life = "live")
            BY <3>4, <5>1
          <6>2. /\ ssh[d].got \in Seq(Nat) /\ tun[d].toChannel \in Seq(Nat) /\ Units(q, d) \in Seq(Nat)
                /\ cli[d].out \in Seq(Nat) /\ cli[d].wrote \in Nat
            BY Known
          <6> QED
            BY <2>4, <5>2, <6>1, <6>2, ReplyRead
        <5> QED
          BY <2>1, <2>4, <5>1, <5>3
      <4>2. CASE x.type # "data"
        BY <2>1, <2>2, <2>3, <2>4, <2>7, <3>4, <4>2
      <4> QED
        BY <4>1, <4>2
    <3>6. ReplyInv(d)'
      BY <1>1, <3>5 DEF ReplyInv
    <3> QED
      BY <3>2, <3>3, <3>6 DEF Sound, Linked
  <2> QED
    BY <1>2, <2>5, <2>6, <2>7 DEF Inv
<1>5. CASE up = <<>>
  <2>1. q' = q /\ up' = up /\ ended' = TRUE
    BY <1>5 DEF Read
  <2>2. Types'
    BY <1>1, <2>1, Parts DEF EndTypes, PipeTypes, Types
  <2>3. ASSUME NEW d \in Ids PROVE Sound(d)'
    BY <1>1, <1>3, <2>1, Parts, AlikeSame, Unmoved
  <2> QED
    BY <1>2, <2>2, <2>3 DEF Inv
<1> QED
  BY <1>4, <1>5

----------------------------------------------------------------------------
(* The program at the far end.                                             *)

\* What it says and when it exits is seen by its own SSH channel alone.
LEMMA ProgramKeeps ==
  ASSUME Inv, NEW c \in Ids, Says(c) \/ Exits(c)
  PROVE  Inv'
<1> DEFINE out == ssh[c].out \o <<ssh[c].said + 1>>
<1>1. /\ next' = next /\ budget' = budget /\ tun' = tun /\ st' = st /\ open' = open /\ q' = q
      /\ ended' = ended /\ hst' = hst /\ chan' = chan /\ events' = events /\ cli' = cli
      /\ down' = down /\ up' = up /\ c < next
  BY DEF Says, Exits, controller, host
<1>2. /\ ssh \in [Ids -> Channels] /\ out \in Seq(Nat) /\ ssh[c].said + 1 \in Nat
      /\ out = Append(ssh[c].out, ssh[c].said + 1)
  <2>1. ssh[c].out \in Seq(Nat) /\ ssh[c].said + 1 \in Nat
    BY Known
  <2>2. out \in Seq(Nat) /\ out = Append(ssh[c].out, ssh[c].said + 1)
    BY <2>1, AppendIs
  <2> HIDE DEF out
  <2> QED
    BY <2>1, <2>2, Parts DEF EndTypes
<1> HIDE DEF out
<1>3. /\ ssh' \in [Ids -> Channels] /\ (\A d \in Ids : d # c => ssh'[d] = ssh[d])
      /\ ssh'[c].got = ssh[c].got
      /\ \/ ssh'[c].out = ssh[c].out /\ ssh'[c].said = ssh[c].said
         \/ ssh'[c].out = out /\ ssh'[c].said = ssh[c].said + 1 /\ ssh[c].said < MaxData[c]
  <2>1. CASE Says(c)
    <3>1. ssh' = [ssh EXCEPT ![c].said = @ + 1, ![c].out = out] /\ ssh[c].said < MaxData[c]
      BY <1>2, <2>1 DEF Says
    <3> QED
      BY <1>2, <3>1 DEF Channels
  <2>2. CASE Exits(c)
    <3>1. ssh' = [ssh EXCEPT ![c].eof = TRUE]
      BY <2>2 DEF Exits
    <3> QED
      BY <1>2, <3>1 DEF Channels
  <2> QED
    BY <2>1, <2>2
<1>4. Types' /\ PhaseInv' /\ OpensFirst(down)' /\ OpensFirst(events)'
  BY <1>1, <1>3, Parts DEF EndTypes, PipeTypes, Types, PhaseInv
<1>5. ASSUME NEW d \in Ids, d # c PROVE Sound(d)'
  BY <1>1, <1>3, <1>5, Parts, AlikeSame, Unmoved
<1>6. Sound(c)'
  <2>1. ~(c >= next) /\ Sound(c)
    BY <1>1, Parts, Sizing DEF Types
  <2>2. Linked(c)' /\ Taking(c)' = Taking(c)
    BY <1>1, <2>1, LinksStay
  <2>3. RequestsCount(cli[c].ran, chan[c].data, Units(down, c), ssh[c].out, ssh[c].said, MaxData[c],
                      Taking(c), tun[c].life = "live")
    BY <2>1 DEF Sound, RequestInv
  <2>4. RequestsCount(cli[c].ran, chan[c].data, Units(down, c), ssh'[c].out, ssh'[c].said, MaxData[c],
                      Taking(c), tun[c].life = "live")
    <3>1. CASE ssh'[c].out = ssh[c].out /\ ssh'[c].said = ssh[c].said
      BY <2>3, <3>1
    <3>2. CASE ssh'[c].out = out /\ ssh'[c].said = ssh[c].said + 1 /\ ssh[c].said < MaxData[c]
      <4>1. RequestsCount(cli[c].ran, chan[c].data, Units(down, c), out, ssh[c].said + 1, MaxData[c],
                          Taking(c), tun[c].life = "live")
        BY <2>3, <3>2, Known, RequestSaid DEF out
      <4> QED
        BY <3>2, <4>1
    <3> QED
      BY <1>3, <3>1, <3>2
  <2>5. RequestInv(c)' /\ ReplyInv(c)'
    BY <1>1, <1>3, <2>1, <2>2, <2>4 DEF Sound, RequestInv, ReplyInv
  <2> QED
    BY <2>2, <2>5 DEF Sound, Linked
<1> QED
  BY <1>4, <1>5, <1>6 DEF Inv

----------------------------------------------------------------------------
(* The host's pipe thread.                                                 *)

\* What an event at the end of a queue of them says.
LEMMA OneMoreEvent ==
  ASSUME NEW f \in Seq(Events), NEW e \in Events, e.type = "open" => ~Names(f, e.ch), OpensFirst(f)
  PROVE  /\ Append(f, e) \in Seq(Events) /\ OpensFirst(Append(f, e))
         /\ \A d : Names(Append(f, e), d) <=> Names(f, d) \/ d = e.ch
         /\ \A x : Holds(Append(f, e), x) <=> Holds(f, x) \/ x = e
<1> DEFINE h == <<e>>
<1>1. h \in Seq(Events) /\ Append(f, e) = f \o h /\ f \o h \in Seq(Events)
  BY AppendIs
<1>2. (\A d : Names(h, d) <=> e.ch = d) /\ \A x : Holds(h, x) <=> x = e
  BY Single, Zenon
<1>3. OpensFirst(h) /\ \A i \in 1 .. Len(h) : h[i].type = "open" => ~Names(f, h[i].ch)
  BY DEF OpensFirst
<1> HIDE DEF h
<1>4. /\ \A d : Names(f \o h, d) <=> Names(f, d) \/ Names(h, d)
      /\ \A x : Holds(f \o h, x) <=> Holds(f, x) \/ Holds(h, x)
  BY <1>1, Joined, Zenon
<1>5. OpensFirst(f \o h)
  BY <1>1, <1>3, OpensJoined
<1> QED
  BY <1>1, <1>2, <1>4, <1>5

LEMMA EventKinds ==
  \A c \in Ids : /\ Event("open", c) \in Events /\ Event("close", c) \in Events
                 /\ Event("open", c) # Event("close", c)
  BY DEF Event, Events

LEMMA TakeFrameKeeps ==
  ASSUME Inv, TakeFrame, NEW c \in Ids, Head(down).ch = c
  PROVE  Inv'
<1> DEFINE f == Head(down)  r == Tail(down)  x == Frame("error", c)
           new == [NoBuf EXCEPT !.there = TRUE]  more == Append(chan[c].data, f.n)
<1>1. /\ next' = next /\ budget' = budget /\ tun' = tun /\ ssh' = ssh /\ st' = st /\ open' = open
      /\ q' = q /\ ended' = ended /\ hst' = hst /\ cli' = cli /\ down' = r /\ down # <<>>
  BY DEF TakeFrame, session, controller
<1>2. /\ f \in Frames /\ r \in Seq(Frames) /\ Names(down, c)
      /\ (\A d \in Ids : d # c => Alike(down, r, d))
      /\ (\A y : Holds(down, y) <=> y = f \/ Holds(r, y))
      /\ f.type = "data" => Units(down, c) = <<f.n>> \o Units(r, c)
      /\ f.type # "data" => Units(down, c) = Units(r, c)
  BY <1>1, Parts, HeadOf
<1>3. OpensFirst(r) /\ ~Holds(r, Frame("open", c))
  <2>1. OpensFirst(r) /\ \A y : y.type = "open" /\ y.ch = c => ~Holds(r, y)
    BY <1>1, Parts, OpenIsFirst
  <2> QED
    BY <2>1, FrameTypes
<1>4. f.n \in Nat /\ (f.type \in {"open", "close"} => f = Frame(f.type, c))
  BY <1>2, FrameKinds
<1>5. \/ /\ f.type = "open" /\ chan' = [chan EXCEPT ![c] = new]
         /\ events' = Append(events, Event("open", c)) /\ up' = up
      \/ /\ f.type = "data" /\ OpenBuf(c) /\ chan' = [chan EXCEPT ![c].data = more]
         /\ events' = events /\ up' = up
      \/ /\ f.type = "close" /\ chan[c].there /\ chan' = [chan EXCEPT ![c].closedByPeer = TRUE]
         /\ events' = Append(events, Event("close", c)) /\ up' = up
      \/ /\ \/ f.type = "open" /\ ~Accepts(c)
            \/ f.type = "data" /\ ~OpenBuf(c)
            \/ f.type = "close" /\ ~chan[c].there
         /\ chan' = chan /\ events' = events /\ up' = Append(up, x)
  BY DEF TakeFrame
<1> HIDE DEF f, r
\* What the head of the queue means to the channel, and what is left of it.
<1>6. Sound(c) /\ ~(c >= next) /\ chan \in [Ids -> Bufs] /\ chan[c] \in Bufs
  BY <1>2, Parts DEF Sound, FreshInv, EndTypes
<1>7. /\ f.type = "open" => chan[c] = NoBuf /\ cli[c] = NewClient /\ ~Names(events, c)
      /\ f.type = "close" => tun[c].life = "over"
      /\ f.type # "open" => ~InFlight(c, "open")
      /\ ~InFlight(c, "open")' /\ (InFlight(c, "close")' => InFlight(c, "close"))
      /\ f.type # "close" => (InFlight(c, "close")' <=> InFlight(c, "close"))
  <2>1. /\ f.type = "open" <=> InFlight(c, "open")
        /\ f.type = "close" => InFlight(c, "close")
        /\ f.type # "close" => (InFlight(c, "close")' <=> InFlight(c, "close"))
        /\ ~InFlight(c, "open")' /\ (InFlight(c, "close")' => InFlight(c, "close"))
    BY <1>1, <1>2, <1>3, <1>4, FlightIsHeld, FlightIsHeldNext, FrameTypes
  <2> QED
    BY <1>6, <2>1 DEF Sound, HostInv
\* The buffer, the events and the pipe back.
<1>8. /\ chan' \in [Ids -> Bufs] /\ \A d \in Ids : d # c => chan'[d] = chan[d]
      /\ f.type = "open" /\ up' = up => chan'[c] = new
      /\ f.type = "data" /\ up' = up => /\ chan'[c].data = chan[c].data \o <<f.n>>
                                        /\ chan'[c].there = chan[c].there
                                        /\ chan'[c].closedByPeer = chan[c].closedByPeer
      /\ f.type = "close" /\ up' = up => /\ chan'[c].data = chan[c].data
                                         /\ chan'[c].there = chan[c].there /\ chan'[c].closedByPeer
  <2>0. up' = Append(up, x) => up' # up
    <3>1. up \in Seq(Frames) /\ x \in Frames
      BY Parts, FrameTypes
    <3> HIDE DEF x
    <3>2. Len(Append(up, x)) = Len(up) + 1 /\ Len(up) \in Nat
      BY <3>1
    <3> QED
      BY <3>2
  <2>1. new \in Bufs
    <3>1. NoBuf \in Bufs
      BY DEF NoBuf, Bufs
    <3> QED
      BY <3>1 DEF Bufs
  <2>2. more \in Seq(Nat) /\ more = chan[c].data \o <<f.n>>
    <3>1. chan[c].data \in Seq(Nat)
      BY Known
    <3> QED
      BY <1>4, <3>1, AppendIs
  <2> HIDE DEF new, more, x
  <2>3. CASE f.type = "open" /\ chan' = [chan EXCEPT ![c] = new]
    BY <1>6, <2>1, <2>3
  <2>4. CASE f.type = "data" /\ chan' = [chan EXCEPT ![c].data = more]
    BY <1>6, <2>2, <2>4 DEF Bufs
  <2>5. CASE f.type = "close" /\ chan' = [chan EXCEPT ![c].closedByPeer = TRUE]
    BY <1>6, <2>5 DEF Bufs
  <2>6. CASE chan' = chan /\ up' = Append(up, x)
    BY <1>6, <2>0, <2>6
  <2> QED
    BY <1>5, <2>3, <2>4, <2>5, <2>6
<1>9. /\ events' \in Seq(Events) /\ OpensFirst(events')
      /\ \A d : d # c => /\ Names(events', d) => Names(events, d)
                         /\ Holds(events', Event("open", d)) => Holds(events, Event("open", d))
      /\ Holds(events', Event("open", c)) =>
           Holds(events, Event("open", c)) \/ (f.type = "open" /\ up' = up)
  <2>1. events \in Seq(Events) /\ OpensFirst(events)
    BY Parts
  <2>2. CASE events' = events
    BY <2>1, <2>2
  <2>3. CASE f.type = "open" /\ events' = Append(events, Event("open", c)) /\ up' = up
    <3> DEFINE e == Event("open", c)
    <3>1. e \in Events /\ e.ch = c /\ \A d : Event("open", d).ch = d
      BY FrameTypes, EventKinds
    <3> HIDE DEF e
    <3>2. events' = Append(events, e) /\ ~Names(events, c)
      BY <1>7, <2>3 DEF e
    <3>3. /\ Append(events, e) \in Seq(Events) /\ OpensFirst(Append(events, e))
          /\ \A d : Names(Append(events, e), d) <=> Names(events, d) \/ d = e.ch
          /\ \A y : Holds(Append(events, e), y) <=> Holds(events, y) \/ y = e
      BY <2>1, <3>1, <3>2, OneMoreEvent, Zenon
    <3> QED
      BY <2>3, <3>1, <3>2, <3>3
  <2>4. CASE f.type = "close" /\ events' = Append(events, Event("close", c))
    <3> DEFINE e == Event("close", c)
    <3>1. /\ e \in Events /\ e.ch = c /\ e.type # "open" /\ e # Event("open", c)
          /\ \A d : Event("open", d).ch = d
      BY FrameTypes, EventKinds
    <3> HIDE DEF e
    <3>2. events' = Append(events, e)
      BY <2>4 DEF e
    <3>3. /\ Append(events, e) \in Seq(Events) /\ OpensFirst(Append(events, e))
          /\ \A d : Names(Append(events, e), d) <=> Names(events, d) \/ d = e.ch
          /\ \A y : Holds(Append(events, e), y) <=> Holds(events, y) \/ y = e
      BY <2>1, <3>1, OneMoreEvent, Zenon
    <3> QED
      BY <3>1, <3>2, <3>3
  <2> QED
    BY <1>5, <2>2, <2>3, <2>4
<1>10. /\ up' \in Seq(Frames) /\ Units(up', c) = Units(up, c)
       /\ \A d \in Ids : d # c => Alike(up, up', d)
  <2>1. CASE up' = up
    BY <2>1, Parts, AlikeSame
  <2>2. CASE up' = Append(up, x)
    <3>1. x \in Frames /\ x.ch = c /\ x.type # "data"
      BY FrameTypes
    <3> HIDE DEF x
    <3>2. /\ up \o <<x>> \in Seq(Frames) /\ Append(up, x) = up \o <<x>>
          /\ (\A d \in Ids : d # c => Alike(up, up \o <<x>>, d))
          /\ Units(up \o <<x>>, c) = Units(up, c)
      <4>1. up \in Seq(Frames)
        BY Parts
      <4>2. (\A d \in Ids : d # x.ch => Alike(up, up \o <<x>>, d)) /\ Units(up \o <<x>>, x.ch) = Units(up, x.ch)
        BY <3>1, <4>1, OneMore, Zenon
      <4>3. up \o <<x>> \in Seq(Frames) /\ Append(up, x) = up \o <<x>>
        BY <3>1, <4>1, AppendIs
      <4> QED
        BY <3>1, <4>2, <4>3
    <3> QED
      BY <2>2, <3>2
  <2> QED
    BY <1>5, <2>1, <2>2
<1>11. Types' /\ PhaseInv' /\ OpensFirst(down)' /\ OpensFirst(events)'
  <2>1. EndTypes' /\ PipeTypes'
    BY <1>1, <1>2, <1>8, <1>9, <1>10, Parts DEF EndTypes, PipeTypes
  <2> QED
    BY <1>1, <1>3, <1>9, <2>1, Parts DEF Types, PhaseInv
<1>12. ASSUME NEW d \in Ids, d # c PROVE Sound(d)'
  BY <1>1, <1>2, <1>8, <1>9, <1>10, <1>12, Parts, AlikeSame, Unmoved
<1>13. Sound(c)'
  <2> HIDE DEF new, more, x
  <2> DEFINE ran == cli[c].ran  w == Units(down, c)  v == Units(r, c)
             out == ssh[c].out  said == ssh[c].said  max == MaxData[c]  live == tun[c].life = "live"
  <2>1. FreshInv(c)' /\ LiveInv(c)'
    BY <1>1, <1>6 DEF FreshInv, Sound, LiveInv
  <2>2. ReplyInv(c)'
    BY <1>1, <1>6, <1>10 DEF Sound, ReplyInv
  <2>3. RequestsCount(ran, chan[c].data, w, out, said, max, Taking(c), live)
    BY <1>6 DEF Sound, RequestInv
  <2>4. v \in Seq(Nat) /\ Units(down', c) = v
    BY <1>1, <1>2, UnitsAreNumbers
  <2>5. RequestsCount(ran, chan'[c].data, v, out, said, max, Taking(c)', live) => RequestInv(c)'
    BY <1>1, <2>4 DEF RequestInv
  <2> HIDE DEF ran, w, v, out, said, max, live
  <2>6. CASE f.type = "open" /\ up' = up
    <3>1. chan'[c].there /\ ~chan'[c].closedByPeer /\ chan'[c].data = <<>> /\ chan[c].data = <<>>
      BY <1>7, <1>8, <2>6 DEF new, NoBuf
    <3>2. Taking(c) /\ Taking(c)'
      <4>1. InFlight(c, "open")
        BY <1>2, <1>4, <2>6, FlightIsHeld
      <4> QED
        BY <3>1, <4>1 DEF Taking, OpenBuf
    <3>3. HostInv(c)' /\ TableInv(c)'
      BY <1>1, <1>6, <1>7, <2>6, <3>1, <3>2 DEF Sound, HostInv, TableInv, NewClient
    <3>4. RequestsCount(ran, chan'[c].data, v, out, said, max, Taking(c)', live)
      <4>1. w = v
        BY <1>2, <2>6 DEF w, v
      <4> QED
        BY <2>3, <3>1, <3>2, <4>1 DEF RequestsCount
    <3> QED
      BY <2>1, <2>2, <2>5, <3>3, <3>4 DEF Sound
  <2>7. CASE f.type = "data" /\ OpenBuf(c) /\ up' = up
    <3>1. Taking(c) /\ Taking(c)'
      BY <1>8, <2>7 DEF Taking, OpenBuf
    <3>2. HostInv(c)' /\ TableInv(c)'
      BY <1>1, <1>6, <1>7, <1>8, <1>9, <2>7, <3>1 DEF Sound, HostInv, TableInv
    <3>3. RequestsCount(ran, chan'[c].data, v, out, said, max, Taking(c)', live)
      <4>1. RequestsCount(ran, chan[c].data, <<f.n>> \o v, out, said, max, TRUE, live)
        BY <1>2, <2>3, <2>7, <3>1 DEF RequestsCount, w, v
      <4>2. RequestsCount(ran, chan[c].data \o <<f.n>>, v, out, said, max, TRUE, live)
        BY <1>4, <2>4, <4>1, Known, RequestTaken DEF ran, out, said, max
      <4> QED
        BY <1>8, <2>7, <3>1, <4>2 DEF RequestsCount
    <3> QED
      BY <2>1, <2>2, <2>5, <3>2, <3>3 DEF Sound
  <2>8. CASE f.type = "close" /\ chan[c].there /\ up' = up
    <3>1. ~Taking(c)'
      BY <1>7, <1>8, <2>8 DEF Taking, OpenBuf
    <3>2. HostInv(c)' /\ TableInv(c)'
      BY <1>1, <1>6, <1>7, <1>8, <1>9, <2>8, <3>1 DEF Sound, HostInv, TableInv
    <3>3. RequestsCount(ran, chan'[c].data, v, out, said, max, Taking(c)', live)
      <4>1. w = v
        BY <1>2, <2>8 DEF w, v
      <4> QED
        BY <1>8, <2>3, <2>8, <3>1, <4>1 DEF RequestsCount
    <3> QED
      BY <2>1, <2>2, <2>5, <3>2, <3>3 DEF Sound
  <2>9. CASE /\ \/ f.type = "open" /\ ~Accepts(c)
                \/ f.type = "data" /\ ~OpenBuf(c)
                \/ f.type = "close" /\ ~chan[c].there
             /\ chan' = chan /\ events' = events
    <3>1. ~Taking(c)'
      BY <1>7, <2>9 DEF Taking, OpenBuf, NoBuf
    <3>2. HostInv(c)' /\ TableInv(c)'
      BY <1>1, <1>6, <1>7, <2>9, <3>1 DEF Sound, HostInv, TableInv
    <3>3. RequestsCount(ran, chan'[c].data, v, out, said, max, Taking(c)', live)
      <4>1. w \in Seq(Nat) /\ Len(v) <= Len(w)
        <5>1. CASE f.type = "data"
          <6>1. w = <<f.n>> \o v
            BY <1>2, <5>1 DEF w, v
          <6>2. Len(<<f.n>> \o v) = Len(v) + 1 /\ <<f.n>> \o v \in Seq(Nat) /\ Len(v) \in Nat
            BY <1>4, <2>4, FirstCounts
          <6> QED
            BY <6>1, <6>2
        <5>2. CASE f.type # "data"
          BY <1>2, <2>4, <5>2 DEF w, v
        <5> QED
          BY <5>1, <5>2
      <4>2. RequestsCount(ran, chan[c].data, v, out, said, max, FALSE, live)
        BY <2>3, <2>4, <4>1, Known, RequestsRefused DEF ran, out, said, max
      <4> QED
        BY <2>9, <3>1, <4>2 DEF RequestsCount
    <3> QED
      BY <2>1, <2>2, <2>5, <3>2, <3>3 DEF Sound
  <2> QED
    BY <1>5, <2>6, <2>7, <2>8, <2>9
<1> QED
  BY <1>11, <1>12, <1>13 DEF Inv

----------------------------------------------------------------------------
(* The host's server thread.                                               *)

\* What is written behind a queue, of one channel.
LEMMA Behind ==
  ASSUME NEW f \in Seq(Frames), NEW g \in Seq(Frames), NEW c \in Ids, \A d : d # c => ~Names(g, d)
  PROVE  /\ f \o g \in Seq(Frames) /\ Units(f \o g, c) = Units(f, c) \o Units(g, c)
         /\ \A d \in Ids : d # c => Alike(f, f \o g, d)
<1>1. f \o g \in Seq(Frames)
  OBVIOUS
<1>2. Units(f \o g, c) = Units(f, c) \o Units(g, c)
  BY UnitsOfBoth, Zenon
<1> QED
  BY <1>1, <1>2, AlikeBehind

LEMMA ToldIs ==
  ASSUME NEW c \in Ids
  PROVE  /\ ToldPeer(c) \in Seq(Frames) /\ Units(ToldPeer(c), c) = <<>>
         /\ \A d : d # c => ~Names(ToldPeer(c), d)
<1> DEFINE x == Frame("close", c)
<1>1. x \in Frames /\ x.ch = c /\ x.type # "data"
  BY FrameTypes
<1>2. ToldPeer(c) = <<x>> \/ ToldPeer(c) = <<>>
  BY DEF ToldPeer
<1> HIDE DEF x
<1>3. <<x>> \in Seq(Frames)
  BY <1>1
<1>4. Units(<<x>>, c) = <<>>
  BY <1>1, UnitsOfOne
<1>5. \A d : Names(<<x>>, d) <=> d = c
  BY <1>1, Single, Zenon
<1>6. <<>> \in Seq(Frames) /\ Units(<<>>, c) = <<>> /\ \A d : ~Names(<<>>, d)
  BY UnitsOfNone, Nothing
<1> QED
  BY <1>2, <1>3, <1>4, <1>5, <1>6

LEMMA FlushIs ==
  ASSUME NEW c \in Ids, cli[c].out \in Seq(Nat)
  PROVE  /\ FlushFirst(c) \in Seq(Frames)
         /\ Units(FlushFirst(c), c) = (IF OpenBuf(c) THEN cli[c].out ELSE <<>>)
         /\ \A d : d # c => ~Names(FlushFirst(c), d)
<1> DEFINE g == IF OpenBuf(c) THEN DataFrames(c, cli[c].out) ELSE <<>>
           us == IF OpenBuf(c) THEN cli[c].out ELSE <<>>
<1>1. g \in Seq(Frames) /\ Units(g, c) = us /\ us \in Seq(Nat) /\ \A d : d # c => ~Names(g, d)
  <2>1. /\ DataFrames(c, cli[c].out) \in Seq(Frames)
        /\ Units(DataFrames(c, cli[c].out), c) = cli[c].out
        /\ \A d : Names(DataFrames(c, cli[c].out), d) => d = c
    BY DataFramesAre, UnitsOfData, DataNames
  <2>2. <<>> \in Seq(Frames) /\ Units(<<>>, c) = <<>> /\ (\A d : ~Names(<<>>, d)) /\ <<>> \in Seq(Nat)
    BY UnitsOfNone, Nothing
  <2> QED
    BY <2>1, <2>2
<1>2. FlushFirst(c) = g \o ToldPeer(c)
  BY DEF FlushFirst
<1> HIDE DEF g, us
<1> DEFINE b == ToldPeer(c)
<1>3. b \in Seq(Frames) /\ Units(b, c) = <<>> /\ \A d : d # c => ~Names(b, d)
  BY ToldIs
<1> HIDE DEF b
<1>4. g \o b \in Seq(Frames) /\ Units(g \o b, c) = Units(g, c) \o Units(b, c)
  BY <1>1, <1>3, Behind
<1>5. \A d : Names(g \o b, d) <=> Names(g, d) \/ Names(b, d)
  BY <1>1, <1>3, Joined
<1>6. Units(g \o b, c) = us
  BY <1>1, <1>3, <1>4, ConcatEmptySeq
<1> QED
  BY <1>1, <1>2, <1>3, <1>4, <1>5, <1>6 DEF b, us

\* The end of a client: its buffer goes, its channel is told.
LEMMA ClosedIs ==
  ASSUME Inv, NEW c \in Ids, chan' = Closed(c)
  PROVE  chan' \in [Ids -> Bufs] /\ chan'[c] = NoBuf /\ \A d \in Ids : d # c => chan'[d] = chan[d]
<1>1. chan \in [Ids -> Bufs] /\ NoBuf \in Bufs
  BY Parts DEF EndTypes, NoBuf, Bufs
<1> QED
  BY <1>1 DEF Closed

LEMMA RequestsDropped ==
  ASSUME Inv, NEW c \in Ids
  PROVE  RequestsCount(cli[c].ran, <<>>, Units(down, c), ssh[c].out, ssh[c].said, MaxData[c],
                       FALSE, tun[c].life = "live")
<1> DEFINE ran == cli[c].ran  data == chan[c].data  w == Units(down, c)  out == ssh[c].out
           said == ssh[c].said  max == MaxData[c]  live == tun[c].life = "live"
<1>1. RequestsCount(ran, data, w, out, said, max, Taking(c), live)
  BY Parts DEF Sound, RequestInv
<1>2. /\ ran \in Seq(Nat) /\ data \in Seq(Nat) /\ w \in Seq(Nat) /\ out \in Seq(Nat)
      /\ said \in Nat /\ max \in Nat /\ Len(w) <= Len(w) /\ <<>> \in {data, <<>>}
  <2>1. /\ ran \in Seq(Nat) /\ data \in Seq(Nat) /\ w \in Seq(Nat) /\ out \in Seq(Nat)
        /\ said \in Nat /\ max \in Nat
    BY Known
  <2> HIDE DEF w
  <2> QED
    BY <2>1
<1> HIDE DEF ran, data, w, out, said, max, live
<1>3. RequestsCount(ran, <<>>, w, out, said, max, FALSE, live)
  BY <1>1, <1>2, RequestsRefused
<1> QED
  BY <1>3 DEF ran, w, out, said, max, live

LEMMA TakeEventKeeps ==
  ASSUME Inv, TakeEvent, NEW c \in Ids, Head(events).ch = c
  PROVE  Inv'
<1> DEFINE e == Head(events)  r == Tail(events)  b == ToldPeer(c)
<1>1. /\ next' = next /\ budget' = budget /\ tun' = tun /\ ssh' = ssh /\ st' = st /\ open' = open
      /\ q' = q /\ ended' = ended /\ hst' = hst /\ down' = down /\ events # <<>> /\ events' = r
      /\ hst = "serving"
  BY DEF TakeEvent, session, controller, Serving
<1>2. e \in Events /\ r \in Seq(Events) /\ events = <<e>> \o r /\ <<e>> \in Seq(Events)
  <2>1. e \in Events /\ r \in Seq(Events) /\ events = <<e>> \o r
    BY <1>1, Parts, Parted
  <2> QED
    BY <2>1
<1>3. OpensFirst(r) /\ ~Holds(r, Event("open", c))
  <2>1. OpensFirst(r) /\ \A y : y.type = "open" /\ y.ch = c => ~Holds(r, y)
    BY <1>1, Parts, OpenIsFirst
  <2> QED
    BY <2>1, FrameTypes
<1>4. e.type = "open" => e = Event("open", c)
  BY <1>2 DEF Events, Event
<1>5. \/ /\ e.type = "open" /\ cli' = [cli EXCEPT ![c].life = "live"] /\ chan' = chan /\ up' = up
      \/ /\ e.type = "open" /\ cli' = [cli EXCEPT ![c].life = "over"]
         /\ chan' = Closed(c) /\ up' = up \o b
      \/ /\ cli' = [cli EXCEPT ![c].life = "over"] /\ chan' = chan /\ up' = up
  BY DEF TakeEvent
<1> HIDE DEF e, r
<1>6. /\ Names(events, c) /\ (\A d : Names(r, d) => Names(events, d))
      /\ (\A y : Holds(r, y) => Holds(events, y)) /\ Holds(events, e)
  <2>1. (\A d : Names(<<e>>, d) <=> e.ch = d) /\ \A y : Holds(<<e>>, y) <=> y = e
    BY Single, Zenon
  <2>2. /\ \A d : Names(<<e>> \o r, d) <=> Names(<<e>>, d) \/ Names(r, d)
        /\ \A y : Holds(<<e>> \o r, y) <=> Holds(<<e>>, y) \/ Holds(r, y)
    BY <1>2, Joined, Zenon
  <2>3. e.ch = c
    BY DEF e
  <2> QED
    BY <1>2, <2>1, <2>2, <2>3
<1>7. Sound(c) /\ ~(c >= next) /\ ~InFlight(c, "open") /\ cli \in [Ids -> Clients] /\ chan[c] \in Bufs
  BY <1>6, Parts, Known DEF Sound, FreshInv, HostInv, EndTypes
<1>8. e.type = "open" => chan[c].there /\ cli[c] = NewClient
  BY <1>4, <1>6, <1>7 DEF Sound, HostInv
<1>9. /\ cli' \in [Ids -> Clients] /\ (\A d \in Ids : d # c => cli'[d] = cli[d])
      /\ cli'[c].ran = cli[c].ran /\ cli'[c].out = cli[c].out /\ cli'[c].wrote = cli[c].wrote
      /\ cli'[c].life = "over" \/ (cli'[c].life = "live" /\ e.type = "open" /\ chan' = chan)
  <2>1. CASE cli' = [cli EXCEPT ![c].life = "live"] /\ e.type = "open" /\ chan' = chan
    BY <1>7, <2>1 DEF Clients, Lives
  <2>2. CASE cli' = [cli EXCEPT ![c].life = "over"]
    BY <1>7, <2>2 DEF Clients, Lives
  <2> QED
    BY <1>5, <2>1, <2>2
<1>10. /\ up' \in Seq(Frames) /\ Units(up', c) = Units(up, c)
       /\ \A d \in Ids : d # c => Alike(up, up', d)
  <2>1. CASE up' = up
    BY <2>1, Parts, AlikeSame
  <2>2. CASE up' = up \o b
    <3>1. b \in Seq(Frames) /\ Units(b, c) = <<>> /\ \A d : d # c => ~Names(b, d)
      BY ToldIs
    <3> HIDE DEF b
    <3>2. /\ up \o b \in Seq(Frames) /\ Units(up \o b, c) = Units(up, c) \o Units(b, c)
          /\ \A d \in Ids : d # c => Alike(up, up \o b, d)
      BY <3>1, Parts, Behind
    <3>3. Units(up \o b, c) = Units(up, c)
      BY <3>1, <3>2, Known, ConcatEmptySeq
    <3> QED
      BY <2>2, <3>2, <3>3
  <2> QED
    BY <1>5, <2>1, <2>2
<1>11. /\ chan' \in [Ids -> Bufs] /\ \A d \in Ids : d # c => chan'[d] = chan[d]
       /\ chan' = chan \/ chan'[c] = NoBuf
  BY <1>5, Parts, ClosedIs DEF EndTypes
<1>12. Types' /\ PhaseInv' /\ OpensFirst(down)' /\ OpensFirst(events)'
  <2>1. EndTypes' /\ PipeTypes'
    BY <1>1, <1>2, <1>9, <1>10, <1>11, Parts DEF EndTypes, PipeTypes
  <2> QED
    BY <1>1, <1>3, <2>1, Parts DEF Types, PhaseInv
<1>13. ASSUME NEW d \in Ids, d # c PROVE Sound(d)'
  BY <1>1, <1>6, <1>9, <1>10, <1>11, <1>13, Parts, AlikeSame, Unmoved
<1>14. Sound(c)'
  <2>1. FreshInv(c)' /\ LiveInv(c)'
    BY <1>1, <1>7 DEF FreshInv, Sound, LiveInv
  <2>2. ReplyInv(c)'
    BY <1>1, <1>7, <1>9, <1>10 DEF Sound, ReplyInv
  <2>3. ~InFlight(c, "open")' /\ (InFlight(c, "close")' <=> InFlight(c, "close"))
    BY <1>1, <1>7, FlightIsHeld, FlightIsHeldNext
  <2>4. CASE chan' = chan
    <3>1. Taking(c)' <=> Taking(c)
      BY <1>7, <2>3, <2>4 DEF Taking, OpenBuf
    <3>2. HostInv(c)' /\ TableInv(c)'
      BY <1>1, <1>3, <1>7, <1>8, <1>9, <2>3, <2>4, <3>1 DEF Sound, HostInv, TableInv
    <3>3. RequestInv(c)'
      <4>1. Taking(c)' = Taking(c)
        BY <3>1 DEF Taking, OpenBuf, InFlight
      <4> QED
        BY <1>1, <1>7, <1>9, <2>4, <4>1 DEF Sound, RequestInv
    <3> QED
      BY <2>1, <2>2, <3>2, <3>3 DEF Sound
  <2>5. CASE chan'[c] = NoBuf /\ cli'[c].life = "over"
    <3>1. ~Taking(c)'
      BY <2>3, <2>5 DEF Taking, OpenBuf, NoBuf
    <3>2. HostInv(c)' /\ TableInv(c)'
      BY <1>1, <1>3, <1>7, <2>3, <2>5, <3>1 DEF Sound, HostInv, TableInv, NoBuf
    <3>3. RequestInv(c)'
      <4>1. RequestsCount(cli[c].ran, <<>>, Units(down, c), ssh[c].out, ssh[c].said,
                          MaxData[c], FALSE, tun[c].life = "live")
        BY RequestsDropped
      <4>2. chan'[c].data = <<>>
        BY <2>5 DEF NoBuf
      <4> QED
        BY <1>1, <1>9, <3>1, <4>1, <4>2 DEF RequestInv, RequestsCount
    <3> QED
      BY <2>1, <2>2, <3>2, <3>3 DEF Sound
  <2> QED
    BY <1>9, <1>11, <2>4, <2>5
<1> QED
  BY <1>12, <1>13, <1>14 DEF Inv

\* A client in the middle of its life.
LEMMA LiveClient ==
  ASSUME Inv, NEW c \in Ids, cli[c].life = "live"
  PROVE  /\ Sound(c) /\ ~(c >= next) /\ ~InFlight(c, "open") /\ ~Holds(events, Event("open", c))
         /\ chan[c].there /\ chan[c] # NoBuf /\ cli[c] # NewClient
         /\ ~OpenBuf(c) => tun[c].life = "over"
<1>1. Sound(c) /\ cli[c] # NewClient
  BY Parts DEF NewClient
<1>2. ~(c >= next) /\ ~InFlight(c, "open") /\ ~Holds(events, Event("open", c)) /\ chan[c].there
  BY <1>1 DEF Sound, FreshInv, HostInv
<1>3. chan[c] # NoBuf
  BY <1>2 DEF NoBuf
<1>4. ~OpenBuf(c) => tun[c].life = "over"
  BY <1>1, <1>2 DEF Sound, HostInv, OpenBuf
<1> QED
  BY <1>1, <1>2, <1>3, <1>4

LEMMA ReadRequestKeeps ==
  ASSUME Inv, NEW c \in Ids, ReadRequest(c)
  PROVE  Inv'
<1> DEFINE x == Head(chan[c].data)  rest == Tail(chan[c].data)
           ran == cli[c].ran \o <<x>>  more == cli[c].out \o <<cli[c].wrote + 1>>
<1>1. /\ next' = next /\ budget' = budget /\ tun' = tun /\ ssh' = ssh /\ st' = st /\ open' = open
      /\ q' = q /\ ended' = ended /\ hst' = hst /\ down' = down /\ up' = up /\ events' = events
      /\ cli[c].life = "live" /\ chan[c].data # <<>> /\ chan' = [chan EXCEPT ![c].data = rest]
  BY DEF ReadRequest, session, controller
<1>2. PICK replies \in 0 .. 1 :
        cli' = [cli EXCEPT ![c].ran = Append(@, x), ![c].wrote = @ + replies,
                           ![c].out = IF replies = 0 THEN @ ELSE Append(@, cli[c].wrote + 1)]
  BY DEF ReadRequest
<1>3. x \in Nat /\ rest \in Seq(Nat) /\ chan[c].data = <<x>> \o rest
  BY <1>1, Known, Parted
<1> HIDE DEF x, rest
<1>4. /\ ran \in Seq(Nat) /\ Append(cli[c].ran, x) = ran
      /\ more \in Seq(Nat) /\ Append(cli[c].out, cli[c].wrote + 1) = more /\ cli[c].wrote + 1 \in Nat
  <2>1. cli[c].ran \in Seq(Nat) /\ cli[c].out \in Seq(Nat) /\ cli[c].wrote + 1 \in Nat
    BY Known
  <2> QED
    BY <1>3, <2>1, AppendIs
<1> HIDE DEF ran, more
<1>5. /\ chan' \in [Ids -> Bufs] /\ (\A d \in Ids : d # c => chan'[d] = chan[d])
      /\ chan'[c].data = rest /\ chan'[c].there = chan[c].there
      /\ chan'[c].closedByPeer = chan[c].closedByPeer
  <2>1. chan \in [Ids -> Bufs]
    BY Parts DEF EndTypes
  <2> QED
    BY <1>1, <1>3, <2>1 DEF Bufs
<1>6. /\ cli' \in [Ids -> Clients] /\ (\A d \in Ids : d # c => cli'[d] = cli[d])
      /\ cli'[c].ran = ran /\ cli'[c].life = cli[c].life
      /\ \/ cli'[c].out = cli[c].out /\ cli'[c].wrote = cli[c].wrote
         \/ cli'[c].out = more /\ cli'[c].wrote = cli[c].wrote + 1
  <2>1. cli \in [Ids -> Clients] /\ cli[c].wrote + 0 = cli[c].wrote
    BY Parts, Known DEF EndTypes
  <2>2. CASE replies = 0
    <3>1. cli' = [cli EXCEPT ![c].ran = ran, ![c].wrote = cli[c].wrote, ![c].out = cli[c].out]
      BY <1>2, <1>4, <2>1, <2>2
    <3> QED
      BY <1>4, <2>1, <3>1 DEF Clients
  <2>3. CASE replies = 1
    <3>1. cli' = [cli EXCEPT ![c].ran = Append(@, x), ![c].wrote = @ + 1,
                             ![c].out = Append(@, cli[c].wrote + 1)]
      BY <1>2, <2>3
    <3>2. cli' = [cli EXCEPT ![c].ran = ran, ![c].wrote = cli[c].wrote + 1, ![c].out = more]
      BY <1>4, <2>1, <3>1
    <3> QED
      BY <1>4, <2>1, <3>2 DEF Clients
  <2> QED
    BY <2>2, <2>3
<1>7. Types' /\ PhaseInv' /\ OpensFirst(down)' /\ OpensFirst(events)'
  <2>1. EndTypes' /\ PipeTypes'
    BY <1>1, <1>5, <1>6, Parts DEF EndTypes, PipeTypes
  <2> QED
    BY <1>1, <2>1, Parts DEF Types, PhaseInv
<1>8. ASSUME NEW d \in Ids, d # c PROVE Sound(d)'
  BY <1>1, <1>5, <1>6, <1>8, Parts, AlikeSame, Unmoved
<1>9. Sound(c)'
  <2>1. Linked(c)' /\ Taking(c)' = Taking(c)
    BY <1>1, <1>5, <1>6, LiveClient, LinksStay
  <2>2. RequestInv(c)'
    <3>1. RequestsCount(cli[c].ran, <<x>> \o rest, Units(down, c), ssh[c].out, ssh[c].said, MaxData[c],
                        Taking(c), tun[c].life = "live")
      <4>1. RequestsCount(cli[c].ran, chan[c].data, Units(down, c), ssh[c].out, ssh[c].said, MaxData[c],
                          Taking(c), tun[c].life = "live")
        BY Parts DEF Sound, RequestInv
      <4> QED
        BY <1>3, <4>1
    <3>2. RequestsCount(cli[c].ran \o <<x>>, rest, Units(down, c), ssh[c].out, ssh[c].said, MaxData[c],
                        Taking(c), tun[c].life = "live")
      BY <1>3, <3>1, Known, RequestRun
    <3> QED
      BY <1>1, <1>5, <1>6, <2>1, <3>2 DEF RequestInv, ran
  <2>3. ReplyInv(c)'
    <3>1. RepliesCount(ssh[c].got, tun[c].toChannel, Units(q, c), Units(up, c), cli[c].out,
                       cli[c].wrote, tun[c].life = "live")
      BY Parts DEF Sound, ReplyInv
    <3>2. RepliesCount(ssh[c].got, tun[c].toChannel, Units(q, c), Units(up, c), more,
                       cli[c].wrote + 1, tun[c].life = "live")
      BY <3>1, Known, ReplyMade DEF more
    <3> QED
      BY <1>1, <1>6, <3>1, <3>2 DEF ReplyInv
  <2> QED
    BY <2>1, <2>2, <2>3 DEF Sound, Linked
<1> QED
  BY <1>7, <1>8, <1>9 DEF Inv

LEMMA ReadEndKeeps ==
  ASSUME Inv, NEW c \in Ids, ReadEnd(c)
  PROVE  Inv'
<1>1. /\ next' = next /\ budget' = budget /\ tun' = tun /\ ssh' = ssh /\ st' = st /\ open' = open
      /\ q' = q /\ ended' = ended /\ hst' = hst /\ down' = down /\ up' = up /\ events' = events
      /\ chan' = chan /\ cli[c].life = "live" /\ cli' = [cli EXCEPT ![c].life = "over"]
  BY DEF ReadEnd, session, controller
<1>2. /\ cli' \in [Ids -> Clients] /\ (\A d \in Ids : d # c => cli'[d] = cli[d])
      /\ cli'[c].ran = cli[c].ran /\ cli'[c].out = cli[c].out /\ cli'[c].wrote = cli[c].wrote
      /\ cli'[c].life = "over"
  <2>1. cli \in [Ids -> Clients]
    BY Parts DEF EndTypes
  <2> QED
    BY <1>1, <2>1 DEF Clients, Lives
<1>3. Types' /\ PhaseInv' /\ OpensFirst(down)' /\ OpensFirst(events)'
  <2>1. EndTypes' /\ PipeTypes'
    BY <1>1, <1>2, Parts DEF EndTypes, PipeTypes
  <2> QED
    BY <1>1, <2>1, Parts DEF Types, PhaseInv
<1>4. ASSUME NEW d \in Ids, d # c PROVE Sound(d)'
  BY <1>1, <1>2, <1>4, Parts, AlikeSame, Unmoved
<1>5. Sound(c)'
  <2>1. Sound(c) /\ ~(c >= next) /\ ~InFlight(c, "open") /\ ~Holds(events, Event("open", c))
    BY <1>1, LiveClient
  <2>2. /\ InFlight(c, "open")' <=> InFlight(c, "open")
        /\ InFlight(c, "close")' <=> InFlight(c, "close")
    BY <1>1, FlightIsHeld, FlightIsHeldNext
  <2>3. Taking(c)' = Taking(c)
    BY <1>1, <2>2 DEF Taking, OpenBuf, InFlight
  <2>4. FreshInv(c)' /\ LiveInv(c)'
    BY <1>1, <2>1 DEF FreshInv, Sound, LiveInv
  <2>5. HostInv(c)' /\ TableInv(c)'
    BY <1>1, <1>2, <2>1, <2>2, <2>3 DEF Sound, HostInv, TableInv
  <2>6. RequestInv(c)' /\ ReplyInv(c)'
    BY <1>1, <1>2, <2>1, <2>3 DEF Sound, RequestInv, ReplyInv
  <2> QED
    BY <2>4, <2>5, <2>6 DEF Sound
<1> QED
  BY <1>3, <1>4, <1>5 DEF Inv

\* A client that is given up, flushed first if it can be.
LEMMA EndKeeps ==
  ASSUME Inv, NEW c \in Ids, cli[c].life = "live", chan' = Closed(c),
         cli' \in [Ids -> Clients], \A d \in Ids : d # c => cli'[d] = cli[d],
         cli'[c].ran = cli[c].ran, cli'[c].wrote = cli[c].wrote, cli'[c].out = <<>>,
         cli'[c].life = "over",
         up' = up \o FlushFirst(c) \/ (up' = up /\ ~OpenBuf(c)),
         UNCHANGED <<session, controller, hst, events, down>>
  PROVE  Inv'
<1> DEFINE g == FlushFirst(c)
<1>1. /\ next' = next /\ budget' = budget /\ tun' = tun /\ ssh' = ssh /\ st' = st /\ open' = open
      /\ q' = q /\ ended' = ended /\ hst' = hst /\ down' = down /\ events' = events
  BY DEF session, controller
<1>2. /\ Sound(c) /\ ~(c >= next) /\ ~InFlight(c, "open") /\ ~Holds(events, Event("open", c))
      /\ ~OpenBuf(c) => tun[c].life = "over"
  BY LiveClient
<1>3. chan' \in [Ids -> Bufs] /\ chan'[c] = NoBuf /\ \A d \in Ids : d # c => chan'[d] = chan[d]
  BY ClosedIs
<1>4. /\ up' \in Seq(Frames) /\ (\A d \in Ids : d # c => Alike(up, up', d))
      /\ OpenBuf(c) => Units(up', c) = Units(up, c) \o cli[c].out
  <2>1. g \in Seq(Frames) /\ (OpenBuf(c) => Units(g, c) = cli[c].out) /\ \A d : d # c => ~Names(g, d)
    BY Known, FlushIs
  <2>2. CASE up' = up \o g
    <3> HIDE DEF g
    <3>1. /\ up \o g \in Seq(Frames) /\ Units(up \o g, c) = Units(up, c) \o Units(g, c)
          /\ \A d \in Ids : d # c => Alike(up, up \o g, d)
      BY <2>1, Parts, Behind
    <3> QED
      BY <2>1, <2>2, <3>1
  <2>3. CASE up' = up /\ ~OpenBuf(c)
    BY <2>3, Parts, AlikeSame
  <2> QED
    BY <2>2, <2>3
<1>5. Types' /\ PhaseInv' /\ OpensFirst(down)' /\ OpensFirst(events)'
  <2>1. EndTypes' /\ PipeTypes'
    BY <1>1, <1>3, <1>4, Parts DEF EndTypes, PipeTypes
  <2> QED
    BY <1>1, <2>1, Parts DEF Types, PhaseInv
<1>6. ASSUME NEW d \in Ids, d # c PROVE Sound(d)'
  BY <1>1, <1>3, <1>4, <1>6, Parts, AlikeSame, Unmoved
<1>7. Sound(c)'
  <2>1. ~InFlight(c, "open")' /\ (InFlight(c, "close")' <=> InFlight(c, "close"))
    BY <1>1, <1>2, FlightIsHeld, FlightIsHeldNext
  <2>2. ~Taking(c)'
    BY <1>3, <2>1 DEF Taking, OpenBuf, NoBuf
  <2>3. FreshInv(c)' /\ LiveInv(c)'
    BY <1>1, <1>2 DEF FreshInv, Sound, LiveInv
  <2>4. HostInv(c)' /\ TableInv(c)'
    BY <1>1, <1>2, <1>3, <2>1, <2>2 DEF Sound, HostInv, TableInv, NoBuf
  <2>5. RequestInv(c)'
    <3>1. RequestsCount(cli[c].ran, <<>>, Units(down, c), ssh[c].out, ssh[c].said, MaxData[c],
                        FALSE, tun[c].life = "live")
      BY RequestsDropped
    <3>2. chan'[c].data = <<>>
      BY <1>3 DEF NoBuf
    <3> QED
      BY <1>1, <2>2, <3>1, <3>2 DEF RequestInv, RequestsCount
  <2>6. ReplyInv(c)'
    <3>1. RepliesCount(ssh[c].got, tun[c].toChannel, Units(q, c), Units(up, c), cli[c].out,
                       cli[c].wrote, tun[c].life = "live")
      BY <1>2 DEF Sound, ReplyInv
    <3>2. RepliesCount(ssh[c].got, tun[c].toChannel, Units(q, c), Units(up', c), <<>>,
                       cli[c].wrote, tun[c].life = "live")
      <4>1. CASE OpenBuf(c)
        <5>1. RepliesCount(ssh[c].got, tun[c].toChannel, Units(q, c), Units(up, c) \o cli[c].out, <<>>,
                           cli[c].wrote, tun[c].life = "live")
          BY <3>1, Known, RepliesFlushed
        <5> QED
          BY <1>4, <4>1, <5>1
      <4>2. CASE ~OpenBuf(c)
        BY <1>2, <3>1, <4>2 DEF RepliesCount
      <4> QED
        BY <4>1, <4>2
    <3> QED
      BY <1>1, <3>2 DEF ReplyInv
  <2> QED
    BY <2>3, <2>4, <2>5, <2>6 DEF Sound
<1> QED
  BY <1>5, <1>6, <1>7 DEF Inv

LEMMA CloseDownClientKeeps ==
  ASSUME Inv, NEW c \in Ids, CloseDownClient(c)
  PROVE  Inv'
<1>1. /\ cli[c].life = "live" /\ chan' = Closed(c) /\ up' = up \o FlushFirst(c)
      /\ UNCHANGED <<session, controller, hst, events, down>>
      /\ cli' = [cli EXCEPT ![c].life = "over", ![c].out = <<>>]
  BY DEF CloseDownClient
<1>2. /\ cli' \in [Ids -> Clients] /\ (\A d \in Ids : d # c => cli'[d] = cli[d])
      /\ cli'[c].ran = cli[c].ran /\ cli'[c].wrote = cli[c].wrote /\ cli'[c].out = <<>>
      /\ cli'[c].life = "over"
  <2> DEFINE none == <<>>
  <2>1. cli \in [Ids -> Clients] /\ none \in Seq(Nat)
    BY Parts DEF EndTypes
  <2>2. cli' = [cli EXCEPT ![c].life = "over", ![c].out = none]
    BY <1>1
  <2> HIDE DEF none
  <2>3. /\ cli' \in [Ids -> Clients] /\ (\A d \in Ids : d # c => cli'[d] = cli[d])
        /\ cli'[c].ran = cli[c].ran /\ cli'[c].wrote = cli[c].wrote /\ cli'[c].out = none
        /\ cli'[c].life = "over"
    BY <2>1, <2>2 DEF Clients, Lives
  <2> QED
    BY <2>3 DEF none
<1> QED
  BY <1>1, <1>2, EndKeeps

LEMMA FlushKeeps ==
  ASSUME Inv, NEW c \in Ids, Flush(c)
  PROVE  Inv'
<1> DEFINE g == DataFrames(c, cli[c].out)
<1>1. /\ cli[c].life = "live" /\ UNCHANGED <<session, controller, hst, events, down>>
      /\ next' = next /\ budget' = budget /\ tun' = tun /\ ssh' = ssh /\ st' = st /\ open' = open
      /\ q' = q /\ ended' = ended /\ hst' = hst /\ down' = down /\ events' = events
      /\ cli \in [Ids -> Clients]
  BY Parts DEF Flush, session, controller, EndTypes
<1>2. CASE OpenBuf(c)
  <2>1. up' = up \o g /\ cli' = [cli EXCEPT ![c].out = <<>>] /\ chan' = chan
    BY <1>2 DEF Flush
  <2>2. /\ cli' \in [Ids -> Clients] /\ (\A d \in Ids : d # c => cli'[d] = cli[d])
        /\ cli'[c].ran = cli[c].ran /\ cli'[c].wrote = cli[c].wrote /\ cli'[c].out = <<>>
        /\ cli'[c].life = cli[c].life
    <3> DEFINE none == <<>>
    <3>1. none \in Seq(Nat) /\ cli' = [cli EXCEPT ![c].out = none]
      BY <2>1
    <3> HIDE DEF none
    <3>2. /\ cli' \in [Ids -> Clients] /\ (\A d \in Ids : d # c => cli'[d] = cli[d])
          /\ cli'[c].ran = cli[c].ran /\ cli'[c].wrote = cli[c].wrote /\ cli'[c].out = none
          /\ cli'[c].life = cli[c].life
      BY <1>1, <3>1 DEF Clients
    <3> QED
      BY <3>2 DEF none
  <2>3. g \in Seq(Frames) /\ Units(g, c) = cli[c].out /\ \A d : d # c => ~Names(g, d)
    BY Known, DataFramesAre, UnitsOfData, DataNames
  <2> HIDE DEF g
  <2>4. /\ up' \in Seq(Frames) /\ Units(up', c) = Units(up, c) \o cli[c].out
        /\ \A d \in Ids : d # c => Alike(up, up', d)
    <3>1. /\ up \o g \in Seq(Frames) /\ Units(up \o g, c) = Units(up, c) \o Units(g, c)
          /\ \A d \in Ids : d # c => Alike(up, up \o g, d)
      BY <2>3, Parts, Behind
    <3> QED
      BY <2>1, <2>3, <3>1
  <2>5. Types' /\ PhaseInv' /\ OpensFirst(down)' /\ OpensFirst(events)'
    <3>1. EndTypes' /\ PipeTypes'
      BY <1>1, <2>1, <2>2, <2>4, Parts DEF EndTypes, PipeTypes
    <3> QED
      BY <1>1, <3>1, Parts DEF Types, PhaseInv
  <2>6. ASSUME NEW d \in Ids, d # c PROVE Sound(d)'
    BY <1>1, <2>1, <2>2, <2>4, <2>6, Parts, AlikeSame, Unmoved
  <2>7. Sound(c)'
    <3>1. Sound(c) /\ Linked(c)' /\ Taking(c)' = Taking(c)
      BY <1>1, <2>1, <2>2, LiveClient, LinksStay
    <3>2. RequestInv(c)'
      BY <1>1, <2>1, <2>2, <3>1 DEF Sound, RequestInv
    <3>3. RepliesCount(ssh[c].got, tun[c].toChannel, Units(q, c), Units(up, c), cli[c].out,
                       cli[c].wrote, tun[c].life = "live")
      BY <3>1 DEF Sound, ReplyInv
    <3>4. RepliesCount(ssh[c].got, tun[c].toChannel, Units(q, c), Units(up, c) \o cli[c].out, <<>>,
                       cli[c].wrote, tun[c].life = "live")
      BY <3>3, Known, RepliesFlushed
    <3>5. ReplyInv(c)'
      BY <1>1, <2>2, <2>4, <3>4 DEF ReplyInv
    <3> QED
      BY <3>1, <3>2, <3>5 DEF Sound, Linked
  <2> QED
    BY <2>5, <2>6, <2>7 DEF Inv
<1>3. CASE ~OpenBuf(c)
  <2>1. up' = up /\ chan' = Closed(c) /\ cli' = [cli EXCEPT ![c].out = <<>>, ![c].life = "over"]
    BY <1>3 DEF Flush
  <2>2. /\ cli' \in [Ids -> Clients] /\ (\A d \in Ids : d # c => cli'[d] = cli[d])
        /\ cli'[c].ran = cli[c].ran /\ cli'[c].wrote = cli[c].wrote /\ cli'[c].out = <<>>
        /\ cli'[c].life = "over"
    <3> DEFINE none == <<>>
    <3>1. none \in Seq(Nat) /\ cli' = [cli EXCEPT ![c].out = none, ![c].life = "over"]
      BY <2>1
    <3> HIDE DEF none
    <3>2. /\ cli' \in [Ids -> Clients] /\ (\A d \in Ids : d # c => cli'[d] = cli[d])
          /\ cli'[c].ran = cli[c].ran /\ cli'[c].wrote = cli[c].wrote /\ cli'[c].out = none
          /\ cli'[c].life = "over"
      BY <1>1, <3>1 DEF Clients, Lives
    <3> QED
      BY <3>2 DEF none
  <2> QED
    BY <1>1, <1>3, <2>1, <2>2, EndKeeps
<1> QED
  BY <1>2, <1>3

----------------------------------------------------------------------------
(* The theorems.                                                           *)

LEMMA StepKeeps ==
  ASSUME Inv, [Next]_vars
  PROVE  Inv'
<1>1. CASE NetworkThread
  <2>1. CASE StartPolls
    BY <2>1, OthersKeep
  <2>2. CASE Poll
    BY <2>2, PollKeeps
  <2>3. CASE Leave
    BY <2>3, LeaveKeeps
  <2>4. ASSUME NEW c \in Ids, NewChannel(c) PROVE Inv'
    BY <2>4, NewChannelKeeps
  <2>5. ASSUME NEW c \in Ids, Visits(c) PROVE Inv'
    BY <2>5, VisitKeeps DEF Visits
  <2> QED
    BY <1>1, <2>1, <2>2, <2>3, <2>4, <2>5 DEF NetworkThread
<1>2. CASE StartUp
  BY <1>2, StartUpKeeps
<1>3. CASE ServerThread
  <2>1. CASE TakeEvent
    <3>1. Head(events) \in Events
      BY <2>1, Parts, Parted DEF TakeEvent
    <3>2. Head(events).ch \in Ids
      BY <3>1 DEF Events
    <3> QED
      BY <2>1, <3>2, TakeEventKeeps
  <2>2. ASSUME NEW c \in Ids, ReadRequest(c) PROVE Inv'
    BY <2>2, ReadRequestKeeps
  <2>3. ASSUME NEW c \in Ids, ReadEnd(c) PROVE Inv'
    BY <2>3, ReadEndKeeps
  <2>4. ASSUME NEW c \in Ids, Flush(c) PROVE Inv'
    BY <2>4, FlushKeeps
  <2>5. ASSUME NEW c \in Ids, CloseDownClient(c) PROVE Inv'
    BY <2>5, CloseDownClientKeeps
  <2> QED
    BY <1>3, <2>1, <2>2, <2>3, <2>4, <2>5 DEF ServerThread
<1>4. CASE Read
  BY <1>4, ReadKeeps
<1>5. CASE TakeFrame
  <2>1. Head(down) \in Frames
    BY <1>5, Parts, Parted DEF TakeFrame
  <2>2. Head(down).type \in {"open", "data", "close"}
    BY <1>5 DEF TakeFrame
  <2>3. Head(down).ch \in Ids
    BY <2>1, <2>2, FrameKinds
  <2> QED
    BY <1>5, <2>3, TakeFrameKeeps
<1>6. CASE HostDies
  BY <1>6, OthersKeep
<1>7. ASSUME NEW c \in Ids, Says(c) \/ Exits(c) PROVE Inv'
  BY <1>7, ProgramKeeps
<1>8. CASE UNCHANGED vars
  <2>1. /\ next' = next /\ budget' = budget /\ tun' = tun /\ ssh' = ssh /\ st' = st /\ open' = open
        /\ q' = q /\ ended' = ended /\ hst' = hst /\ chan' = chan /\ events' = events /\ cli' = cli
        /\ down' = down /\ up' = up
    BY <1>8 DEF vars, session, controller, host
  <2>2. Types' /\ PhaseInv' /\ OpensFirst(down)' /\ OpensFirst(events)'
    BY <2>1, Parts DEF Types, PipeTypes, EndTypes, PhaseInv
  <2>3. ASSUME NEW d \in Ids PROVE Sound(d)'
    BY <2>1, Parts, AlikeSame, Unmoved
  <2> QED
    BY <2>2, <2>3 DEF Inv
<1> QED
  BY <1>1, <1>2, <1>3, <1>4, <1>5, <1>6, <1>7, <1>8 DEF Next

\* The inductive invariant: the types, the life of every channel from its open to the
\* last frame that names it, the two tables, and where each request and reply is.
THEOREM ChannelsAreSound == Spec => []Inv
<1>1. Inv /\ [Next]_vars => Inv'
  BY StepKeeps
<1> QED
  BY <1>1, Begins, PTL DEF Spec

\* Both streams of a forwarded X client arrive in order and whole: through the SSH
\* channel, the pipe and the four threads between, no request and no reply is lost,
\* doubled or moved while the channel's way is up, and what was run or delivered
\* before an end is a beginning of what was sent.
THEOREM InOrder == Spec => []StreamsInOrder
<1>1. Inv => StreamsInOrder
  <2> SUFFICES ASSUME Inv, NEW c \in Ids
               PROVE  /\ cli[c].ran = [i \in 1 .. Len(cli[c].ran) |-> i]
                      /\ Whole(c) => cli[c].ran \o chan[c].data \o Units(down, c) \o ssh[c].out
                                       = [i \in 1 .. ssh[c].said |-> i]
                      /\ ssh[c].got = [i \in 1 .. Len(ssh[c].got) |-> i]
                      /\ tun[c].life = "live" =>
                           ssh[c].got \o tun[c].toChannel \o Units(q, c) \o Units(up, c) \o cli[c].out
                             = [i \in 1 .. cli[c].wrote |-> i]
    BY DEF StreamsInOrder, RequestsInOrder, RepliesInOrder
  <2>1. RequestsCount(cli[c].ran, chan[c].data, Units(down, c), ssh[c].out, ssh[c].said, MaxData[c],
                      Taking(c), tun[c].life = "live")
    BY Parts DEF Sound, RequestInv
  <2>2. RepliesCount(ssh[c].got, tun[c].toChannel, Units(q, c), Units(up, c), cli[c].out,
                     cli[c].wrote, tun[c].life = "live")
    BY Parts DEF Sound, ReplyInv
  <2>3. Counts(cli[c].ran, 0) /\ Counts(ssh[c].got, 0)
    BY <2>1, <2>2 DEF RequestsCount, RepliesCount
  <2>4. cli[c].ran = [i \in 1 .. Len(cli[c].ran) |-> i] /\ ssh[c].got = [i \in 1 .. Len(ssh[c].got) |-> i]
    <3>1. Len(cli[c].ran) \in Nat /\ Len(ssh[c].got) \in Nat
      BY Known
    <3> QED
      BY <2>3, <3>1, Known, CountsIsAll
  <2>5. ASSUME Whole(c)
        PROVE  cli[c].ran \o chan[c].data \o Units(down, c) \o ssh[c].out = [i \in 1 .. ssh[c].said |-> i]
    <3>1. tun[c].life = "live" /\ Taking(c)
      BY <2>5, Parts DEF Whole, Taking, OpenBuf, Sound, HostInv
    <3>2. RequestsCount(cli[c].ran, chan[c].data, Units(down, c), ssh[c].out, ssh[c].said, MaxData[c],
                        TRUE, TRUE)
      BY <2>1, <3>1 DEF RequestsCount
    <3> QED
      BY <3>2, Known, RequestsAreAll
  <2>6. ASSUME tun[c].life = "live"
        PROVE  ssh[c].got \o tun[c].toChannel \o Units(q, c) \o Units(up, c) \o cli[c].out
                 = [i \in 1 .. cli[c].wrote |-> i]
    <3>1. RepliesCount(ssh[c].got, tun[c].toChannel, Units(q, c), Units(up, c), cli[c].out,
                       cli[c].wrote, TRUE)
      BY <2>2, <2>6 DEF RepliesCount
    <3> QED
      BY <3>1, Known, RepliesAreAll
  <2> QED
    BY <2>4, <2>5, <2>6
<1> QED
  BY <1>1, ChannelsAreSound, PTL

\* The tables at the two ends of the pipe agree up to what is in the pipe: a channel the
\* host takes data on is one the controller has open or has just closed, and the
\* controller's table is the live tunnels.
THEOREM InStep == Spec => []TablesInStep
<1>1. Inv => TypeOK
  <2> SUFFICES ASSUME Inv, NEW c \in Ids
               PROVE  /\ tun[c].life \in Lives /\ tun[c].chanEof \in BOOLEAN /\ cli[c].life \in Lives
                      /\ Len(ssh[c].out) + Len(chan[c].data) + Len(cli[c].ran) <= MaxData[c]
    BY Parts DEF TypeOK, Types, Lives
  <2>1. tun[c].life \in Lives /\ tun[c].chanEof \in BOOLEAN /\ cli[c].life \in Lives
    BY Known DEF Tunnels, Clients
  <2>2. Len(ssh[c].out) + Len(chan[c].data) + Len(cli[c].ran) <= MaxData[c]
    <3> DEFINE ran == Len(cli[c].ran)  data == Len(chan[c].data)  w == Len(Units(down, c))
               out == Len(ssh[c].out)  said == ssh[c].said  max == MaxData[c]
    <3>1. ran + data + w + out <= said /\ said <= max
      BY Parts DEF Sound, RequestInv, RequestsCount
    <3>2. ran \in Nat /\ data \in Nat /\ w \in Nat /\ out \in Nat /\ said \in Nat /\ max \in Nat
      <4>1. /\ cli[c].ran \in Seq(Nat) /\ chan[c].data \in Seq(Nat) /\ ssh[c].out \in Seq(Nat)
            /\ Units(down, c) \in Seq(Nat) /\ said \in Nat /\ max \in Nat
        BY Known
      <4> QED
        BY <4>1
    <3> HIDE DEF ran, data, w, out, said, max
    <3>3. out + data + ran <= max
      BY <3>1, <3>2
    <3> QED
      BY <3>3 DEF out, data, ran, max
  <2> QED
    BY <2>1, <2>2
<1>2. Inv => TablesAgree
  <2> SUFFICES ASSUME Inv PROVE TablesAgree
    OBVIOUS
  <2>1. \A c \in Ids : TableInv(c)
    BY Parts DEF Sound
  <2>2. open \subseteq Ids
    BY Parts DEF Types
  <2> QED
    BY <2>1, <2>2 DEF TablesAgree, TableInv, Taking, Live, Serving
<1> QED
  BY <1>1, <1>2, ChannelsAreSound, PTL DEF TablesInStep
=============================================================================
