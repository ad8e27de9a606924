------------------------------ MODULE SpscRing ------------------------------
(***************************************************************************)
(* The lock-free byte ring between the network thread and the UI thread    *)
(* (src/src/ssh/ring.h), which SshSession takes for a bounded sequence.    *)
(* m_head and m_tail are free-running counters of Mod values; Push and Pop *)
(* load the other side's counter, copy byte by byte and publish with one   *)
(* store.  An acquire load may return an older value than the last stored, *)
(* as long as it is not older than what the thread loaded before.          *)
(*                                                                         *)
(* The k-th byte ever pushed is written as the number k.                   *)
(***************************************************************************)
EXTENDS Naturals, Sequences

CONSTANTS Cap,        \* m_buf.size(), a power of two
          Mod,        \* 2^width of size_t, a power of two and above Cap
          MaxBytes    \* bound: bytes a behaviour pushes

ASSUME RingAssumption ==
  /\ Cap \in Nat \ {0} /\ Mod \in Nat \ {0} /\ MaxBytes \in Nat
  /\ Mod > Cap /\ Mod % Cap = 0

VARIABLES buf, head, tail,      \* m_buf, m_head, m_tail
          pushing, pn, pi,      \* Push: inside it; bytes it will copy; copied
          popping, cn, out,     \* Pop: inside it; bytes it will copy; copied
          written, taken,       \* history: bytes ever published; ever released
          pSeen, cSeen          \* the counts behind the last values loaded

producer == <<pushing, pn, pi, pSeen>>
consumer == <<popping, cn, out, cSeen>>
ringVars == <<buf, head, tail, producer, consumer, written, taken>>

RingInit ==
  /\ buf = [k \in 0 .. Cap - 1 |-> 0] /\ head = 0 /\ tail = 0
  /\ pushing = FALSE /\ pn = 0 /\ pi = 0
  /\ popping = FALSE /\ cn = 0 /\ out = <<>>
  /\ written = 0 /\ taken = 0 /\ pSeen = 0 /\ cSeen = 0

AtMost(n, bound) == IF n < bound THEN n ELSE bound
Minus(a, b)      == (a + Mod - b) % Mod            \* size_t subtraction

\* Push, the loads: how much fits.
Space(t)      == Cap - Minus(head, t)
BeginPush(len) ==
  /\ ~pushing /\ written + len <= MaxBytes
  /\ \E t \in pSeen .. taken :
       pSeen' = t /\ pn' = AtMost(len, Space(t % Mod))
  /\ pushing' = TRUE /\ pi' = 0
  /\ UNCHANGED <<buf, head, tail, consumer, written, taken>>

\* Push, one byte of the copy, behind the mask.
CopyIn ==
  /\ pushing /\ pi < pn
  /\ buf' = [buf EXCEPT ![(head + pi) % Cap] = written + pi + 1]
  /\ pi' = pi + 1
  /\ UNCHANGED <<head, tail, pushing, pn, pSeen, consumer, written, taken>>

\* Push, the release store.
PublishFirst == TRUE                                            \* (faulty)
AllCopied    == pi = pn
EndPush ==
  /\ pushing /\ AllCopied
  /\ head' = (head + pn) % Mod /\ written' = written + pn
  /\ pushing' = FALSE
  /\ UNCHANGED <<buf, tail, pn, pi, pSeen, consumer, taken>>

\* Pop, the loads: how much there is (Available).
Ready(h)       == Minus(h % Mod, tail)
BeginPop(maxLen) ==
  /\ ~popping
  /\ \E h \in cSeen .. written :
       cSeen' = h /\ cn' = AtMost(maxLen, Ready(h))
  /\ popping' = TRUE /\ out' = <<>>
  /\ UNCHANGED <<buf, head, tail, producer, written, taken>>

\* Pop, one byte of the copy.
CopyOut ==
  /\ popping /\ Len(out) < cn
  /\ out' = Append(out, buf[(tail + Len(out)) % Cap])
  /\ UNCHANGED <<buf, head, tail, producer, popping, cn, cSeen, written, taken>>

\* Pop, the release store.
EndPop ==
  /\ popping /\ Len(out) = cn
  /\ tail' = (tail + cn) % Mod /\ taken' = taken + cn
  /\ popping' = FALSE
  /\ UNCHANGED <<buf, head, producer, cn, out, cSeen, written>>

\* Clear, called by Start once the producer was joined: the join orders the
\* producer's stores before it and its own before the next producer.
Clear ==
  /\ ~pushing /\ ~popping
  /\ tail' = head /\ taken' = written /\ pSeen' = written /\ cSeen' = written
  /\ UNCHANGED <<buf, head, pushing, pn, pi, popping, cn, out, written>>

RingNext == \/ \E n \in 1 .. Cap + 1 : BeginPush(n) \/ BeginPop(n)
        \/ CopyIn \/ EndPush \/ CopyOut \/ EndPop \/ Clear

RingSpec == RingInit /\ [][RingNext]_ringVars

----------------------------------------------------------------------------
RingTypeOK ==
  /\ buf \in [0 .. Cap - 1 -> 0 .. MaxBytes]
  /\ head \in 0 .. Mod - 1 /\ tail \in 0 .. Mod - 1
  /\ pushing \in BOOLEAN /\ pn \in 0 .. Cap /\ pi \in 0 .. pn
  /\ popping \in BOOLEAN /\ cn \in 0 .. Cap /\ out \in Seq(Nat)
  /\ written \in 0 .. MaxBytes /\ taken \in 0 .. written
  /\ pSeen \in 0 .. taken /\ cSeen \in 0 .. written

\* First in, first out, and nothing torn or lost: what Pop copies is exactly the
\* bytes that follow those released before, across every wrap of the counters
\* and whatever Push does meanwhile.
InOrder == popping => \A k \in 1 .. Len(out) : out[k] = taken + k

\* The two threads never touch one slot at the same time: what Push is about to
\* write is outside what Pop still has to read.
NoSharedSlot ==
  pushing /\ popping =>
    {(head + k) % Cap : k \in pi .. pn - 1} \cap {(tail + k) % Cap : k \in Len(out) .. cn - 1}
      = {}

\* The ring is one of bytes in order although both ends work on it at once: its
\* positions stay in range, no slot is shared, and no byte is torn or lost.
NothingTorn == RingTypeOK /\ NoSharedSlot /\ InOrder
=============================================================================
