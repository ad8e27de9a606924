--------------------------- MODULE TransfersProofs ---------------------------
(***************************************************************************)
(* Theorems about what the file browser does.  About Transfers, for any    *)
(* sizes of the file, any number of transfers and any troubles: pausing,   *)
(* resuming, retrying, cancelling and clearing meet the worker in any      *)
(* order, every transfer that waits or runs is posted or in the worker's   *)
(* hands exactly once, and what has landed is one version of the file      *)
(* where no open fails.  About Sync, for any two trees, patterns and       *)
(* directories that cannot be listed: its plans can be executed, leave     *)
(* alone what they should, and end in agreement.                           *)
(***************************************************************************)
EXTENDS Transfers, Sync, FiniteSetTheorems, TLAPS

Versions == 1 .. Len(Sizes)
Times    == 0 .. 2 * Len(Sizes)
FileRecs == [data : Seq(Versions), time : Times]
Records  == [size : Nat, time : Times]
States   == {"queued", "running", "verifying", "paused"} \cup Ended
Waiting  == {"queued", "running", "verifying"}
TransferRecs ==
  [down : BOOLEAN, st : States, cancel : BOOLEAN, rec : Records, keep : Times]
Places == {"connecting", "idle", "start", "gate", "decide", "open", "move", "closing",
           "over", "landed", "hash", "out"}
\* Where the worker has no transfer in its hands.
Resting == {"connecting", "idle", "out"}

FilesInv  == local \in FileRecs /\ remote \in FileRecs /\ saved \in Versions
WorkerInv ==
  /\ wk \in [at : Places, x : Ids \cup {0}, from : Nat, pos : Nat]
  /\ wk.x = 0 <=> wk.at \in Resting
TabInv ==
  /\ paused \in BOOLEAN /\ watch \in [on : BOOLEAN, seen : Times]
  /\ tab \in {"open", "resuming", "closing", "closed"}

\* Transfer x is among the jobs q.
In(q, x) == \E i \in 1 .. Len(q) : q[i] = x

\* A transfer is posted once and not while the worker has it, and those are the ones
\* that wait or run; the list keeps every one that has not ended.
QueueInv ==
  /\ xfers \in Seq(TransferRecs) /\ Len(xfers) <= MaxTransfers /\ listed \subseteq Ids
  /\ jobs \in Seq(Ids \cup {0}) /\ wk.x \in Ids \cup {0}
  /\ \A i, j \in 1 .. Len(jobs) : jobs[i] = jobs[j] /\ jobs[i] # 0 => i = j
  /\ wk.x # 0 => ~In(jobs, wk.x)
  /\ \A x \in Ids : xfers[x].st \in Waiting <=> wk.x = x \/ In(jobs, x)
  /\ \A x \in Ids : xfers[x].st \notin Ended => x \in listed

Inv == FilesInv /\ WorkerInv /\ TabInv /\ QueueInv

LEMMA Typed == Inv => TypeOK
  BY DEF Inv, FilesInv, WorkerInv, TabInv, QueueInv, TypeOK, Versions, Times, FileRecs,
         Records, States, TransferRecs, Places

LEMMA Sizing == Len(Sizes) \in Nat \ {0} /\ \A v \in Versions : Sizes[v] \in Nat \ {0}
  BY TransfersAssumption DEF Versions

----------------------------------------------------------------------------
(* Finite sets in order.                                                   *)

\* R orders S: two different members one way, a member not before itself.
Orders(R, S) ==
  /\ \A x \in S, y \in S, z \in S : <<x, y>> \in R /\ <<y, z>> \in R => <<x, z>> \in R
  /\ \A x \in S : <<x, x>> \notin R
  /\ \A x \in S, y \in S : x # y => <<x, y>> \in R \/ <<y, x>> \in R

\* The members of a finite set can be listed in any order of them.
LEMMA CountsUp ==
  ASSUME NEW S, IsFiniteSet(S), NEW R, Orders(R, S), NEW n, n = Cardinality(S)
  PROVE  \E s \in [1 .. n -> S] : \A i, j \in 1 .. n : i < j => <<s[i], s[j]>> \in R
<1> DEFINE Upto(x) == {y \in S : y = x \/ <<y, x>> \in R}
           rank == [x \in S |-> Cardinality(Upto(x))]
<1>1. n \in Nat
  BY FS_CardinalityType
<1>2. \A x \in S : IsFiniteSet(Upto(x)) /\ Cardinality(Upto(x)) \in Nat /\ Cardinality(Upto(x)) <= n
  <2> SUFFICES ASSUME NEW x \in S
               PROVE  IsFiniteSet(Upto(x)) /\ Cardinality(Upto(x)) \in Nat /\ Cardinality(Upto(x)) <= n
    OBVIOUS
  <2>1. Upto(x) \in SUBSET S
    OBVIOUS
  <2> HIDE DEF Upto
  <2> QED
    BY <2>1, FS_Subset, FS_CardinalityType
<1>3. \A x \in S : Cardinality(Upto(x)) # 0
  <2> SUFFICES ASSUME NEW x \in S PROVE Cardinality(Upto(x)) # 0
    OBVIOUS
  <2>1. x \in Upto(x)
    OBVIOUS
  <2> HIDE DEF Upto
  <2> QED
    BY <1>2, <2>1, FS_EmptySet
<1>4. \A x, y \in S : <<x, y>> \in R => Cardinality(Upto(x)) < Cardinality(Upto(y))
  <2> SUFFICES ASSUME NEW x \in S, NEW y \in S, <<x, y>> \in R
               PROVE  Cardinality(Upto(x)) < Cardinality(Upto(y))
    OBVIOUS
  <2>0. x # y /\ <<y, x>> \notin R
    BY DEF Orders
  <2>1. Upto(x) \in SUBSET Upto(y) /\ y \in Upto(y) /\ y \notin Upto(x)
    BY <2>0 DEF Orders
  <2> HIDE DEF Upto
  <2>2. Upto(x) # Upto(y)
    BY <2>1
  <2>3. Cardinality(Upto(x)) <= Cardinality(Upto(y)) /\ Cardinality(Upto(x)) # Cardinality(Upto(y))
    BY <1>2, <2>1, <2>2, FS_Subset
  <2> QED
    BY <1>2, <2>3
<1> HIDE DEF Upto
<1>5. rank \in [S -> 1 .. n]
  BY <1>1, <1>2, <1>3
<1>6. \A x, y \in S : <<x, y>> \in R => rank[x] < rank[y]
  BY <1>4
<1>6a. \A x \in S : rank[x] \in Nat
  BY <1>1, <1>5
<1> HIDE DEF rank
<1>6b. \A x, y \in S : rank[x] = rank[y] => x = y
  <2> SUFFICES ASSUME NEW x \in S, NEW y \in S, rank[x] = rank[y], x # y PROVE FALSE
    OBVIOUS
  <2>1. rank[x] < rank[y] \/ rank[y] < rank[x]
    BY <1>6 DEF Orders
  <2> QED
    BY <1>6a, <2>1
<1>7. rank \in Injection(S, 1 .. n)
  BY <1>5, <1>6b DEF Injection, IsInjective
<1>8. rank \in Surjection(S, 1 .. n)
  <2>1. IsFiniteSet(1 .. n) /\ Cardinality(1 .. n) = n
    BY <1>1, FS_Interval
  <2> QED
    BY <1>7, <2>1, FS_Injection
<1>9. \A i \in 1 .. n : \E x \in S : rank[x] = i
  BY <1>8 DEF Surjection
<1> DEFINE s == [i \in 1 .. n |-> CHOOSE x \in S : rank[x] = i]
<1>10. \A i \in 1 .. n : s[i] \in S /\ rank[s[i]] = i
  BY <1>9
<1>11. s \in [1 .. n -> S]
  BY <1>10
<1> HIDE DEF s
<1>12. \A i, j \in 1 .. n : i < j => <<s[i], s[j]>> \in R
  <2> SUFFICES ASSUME NEW i \in 1 .. n, NEW j \in 1 .. n, i < j, <<s[i], s[j]>> \notin R PROVE FALSE
    OBVIOUS
  <2>1. s[i] \in S /\ s[j] \in S /\ rank[s[i]] = i /\ rank[s[j]] = j
    BY <1>10
  <2>2. i \in Nat /\ j \in Nat
    BY <1>1
  <2>3. s[i] # s[j]
    BY <2>1, <2>2
  <2>4. <<s[j], s[i]>> \in R
    BY <2>1, <2>3 DEF Orders
  <2>5. j < i
    BY <1>6, <2>1, <2>4
  <2> QED
    BY <2>2, <2>5
<1> QED
  BY <1>11, <1>12

\* The list's order names each of the set once.
LEMMA Ordered ==
  ASSUME NEW ids, ids \subseteq Nat, IsFiniteSet(ids)
  PROVE  /\ InListOrder(ids) \in Seq(ids)
         /\ \A i, j \in 1 .. Len(InListOrder(ids)) :
              InListOrder(ids)[i] = InListOrder(ids)[j] => i = j
         /\ \A x \in ids : \E i \in 1 .. Len(InListOrder(ids)) : InListOrder(ids)[i] = x
<1> DEFINE n == Cardinality(ids)
           s == InListOrder(ids)
<1>0. \A x \in ids : x \in Nat
  OBVIOUS
<1>1. n \in Nat
  BY FS_CardinalityType
<1>2. s \in [1 .. n -> ids] /\ \A i, j \in 1 .. n : i < j => s[i] < s[j]
  <2> DEFINE R == {x \in ids \X ids : x[1] < x[2]}
  <2>1. \A x \in ids, y \in ids : <<x, y>> \in R <=> x < y
    OBVIOUS
  <2> HIDE DEF R, s
  <2>2. Orders(R, ids)
    BY <1>0, <2>1 DEF Orders
  <2>3. PICK f \in [1 .. n -> ids] : \A i, j \in 1 .. n : i < j => <<f[i], f[j]>> \in R
    BY <2>2, CountsUp
  <2>4. \A i, j \in 1 .. n : i < j => f[i] < f[j]
    BY <2>1, <2>3
  <2> QED
    BY <2>3, <2>4 DEF InListOrder, s
<1> HIDE DEF s
<1>3. s \in Seq(ids) /\ Len(s) = n
  BY <1>1, <1>2
<1>4. \A i, j \in 1 .. n : s[i] = s[j] => i = j
  <2> SUFFICES ASSUME NEW i \in 1 .. n, NEW j \in 1 .. n, s[i] = s[j] PROVE i = j
    OBVIOUS
  <2>1. s[i] \in ids
    BY <1>2
  <2>3a. s[i] \in Nat
    BY <1>0, <2>1, Zenon
  <2>3b. i \in Nat /\ j \in Nat
    BY <1>1
  <2>2. s[i] \in Nat /\ i \in Nat /\ j \in Nat
    BY <2>3a, <2>3b
  <2> QED
    BY <1>2, <2>2
<1>5. s \in Surjection(1 .. n, ids)
  <2>1. s \in Injection(1 .. n, ids)
    BY <1>2, <1>4 DEF Injection, IsInjective
  <2>2. IsFiniteSet(1 .. n) /\ Cardinality(1 .. n) = n
    BY <1>1, FS_Interval
  <2> QED
    BY <2>1, <2>2, FS_Injection
<1>6. \A x \in ids : \E i \in 1 .. n : s[i] = x
  BY <1>5 DEF Surjection
<1> QED
  BY <1>3, <1>4, <1>6 DEF s

----------------------------------------------------------------------------
(* What may happen to the queue.                                           *)

LEMMA QueueFacts ==
  ASSUME QueueInv
  PROVE  /\ Ids = 1 .. Len(xfers) /\ Len(xfers) \in Nat /\ Len(jobs) \in Nat /\ 0 \notin Ids
         /\ \A x \in Ids : xfers[x] \in TransferRecs
         /\ \A i \in 1 .. Len(jobs) : jobs[i] \in Ids \cup {0}
         /\ MaxTransfers \in Nat
  BY TransfersAssumption DEF QueueInv, Ids

\* It stays as it is, and so does what the worker has in its hands.
LEMMA QueueStays ==
  ASSUME QueueInv, UNCHANGED queue, wk'.x = wk.x PROVE QueueInv'
  BY DEF QueueInv, queue, In, Ids

\* A record with other flags is a transfer's.
LEMMA NewRecord == \A b \in BOOLEAN : NewTransfer(b) \in TransferRecs /\ NewTransfer(b).st = "queued"
  BY Sizing DEF NewTransfer, TransferRecs, States, Records, Times, NoRecord

\* The worker changes the transfer in its hands, and keeps it while it runs.
LEMMA RecordChanges ==
  ASSUME QueueInv, wk.x # 0, NEW r \in TransferRecs, xfers' = [xfers EXCEPT ![wk.x] = r],
         UNCHANGED <<listed, jobs>>,
         \/ wk'.x = wk.x /\ r.st \in Waiting
         \/ wk'.x = 0 /\ r.st \notin Waiting
  PROVE  QueueInv'
<1>1. wk.x \in Ids /\ xfers[wk.x].st \in Waiting /\ wk.x \in listed /\ ~In(jobs, wk.x)
  BY DEF QueueInv, Waiting, Ended
<1>2. /\ xfers' \in Seq(TransferRecs) /\ Len(xfers') = Len(xfers) /\ Ids' = Ids
      /\ \A x \in Ids : xfers'[x] = IF x = wk.x THEN r ELSE xfers[x]
  BY <1>1 DEF QueueInv, Ids
<1>3. \A x : In(jobs', x) <=> In(jobs, x)
  BY DEF In
<1>4. wk'.x \in Ids \cup {0} /\ (wk'.x # 0 => ~In(jobs, wk'.x))
  BY <1>1
<1>5. \A x \in Ids : xfers'[x].st \in Waiting <=> wk'.x = x \/ In(jobs, x)
  BY <1>1, <1>2, QueueFacts DEF QueueInv
<1>6. \A x \in Ids : xfers'[x].st \notin Ended => x \in listed
  BY <1>1, <1>2 DEF QueueInv
<1> QED
  BY <1>2, <1>3, <1>4, <1>5, <1>6 DEF QueueInv, In

\* One more job at the end of those posted.
LEMMA Appends ==
  ASSUME NEW S, NEW s \in Seq(S), NEW x \in S
  PROVE  /\ Append(s, x) \in Seq(S) /\ Len(Append(s, x)) = Len(s) + 1 /\ Len(s) \in Nat
         /\ \A i \in 1 .. Len(s) : Append(s, x)[i] = s[i]
         /\ Append(s, x)[Len(s) + 1] = x
  OBVIOUS

\* A function on the numbers up to n is a sequence.
LEMMA Listing ==
  ASSUME NEW S, NEW n \in Nat, NEW s \in [1 .. n -> S] PROVE s \in Seq(S) /\ Len(s) = n
  OBVIOUS

\* Sequences of a larger set.
LEMMA Wider == ASSUME NEW S, NEW T, S \subseteq T, NEW s \in Seq(S) PROVE s \in Seq(T)
  OBVIOUS

\* A new transfer is listed, and posted once.
LEMMA Adds ==
  ASSUME QueueInv, NEW b \in BOOLEAN, Len(xfers) < MaxTransfers,
         xfers' = Append(xfers, NewTransfer(b)), listed' = listed \cup {Len(xfers) + 1},
         jobs' = Append(jobs, Len(xfers) + 1), wk'.x = wk.x
  PROVE  QueueInv'
<1> DEFINE n == Len(xfers) + 1
           r == NewTransfer(b)
           m == Len(jobs)
<1>1. r \in TransferRecs /\ r.st = "queued"
  BY NewRecord
<1>2. n \in Nat /\ n \notin Ids /\ n # 0 /\ m \in Nat
  BY QueueFacts
<1> HIDE DEF r
<1>3. /\ xfers' \in Seq(TransferRecs) /\ Len(xfers') = n /\ Len(xfers') <= MaxTransfers
      /\ \A x \in Ids : xfers'[x] = xfers[x]
      /\ xfers'[n] = r
  <2>1. xfers \in Seq(TransferRecs) /\ Ids = 1 .. Len(xfers)
    BY QueueFacts DEF QueueInv
  <2> QED
    BY <1>1, <2>1, Appends, QueueFacts DEF r
<1>4. Ids' = Ids \cup {n}
  <2>1. Ids' = 1 .. n
    BY <1>2, <1>3 DEF Ids
  <2> QED
    BY <1>2, <2>1, QueueFacts
<1>5. /\ jobs' \in Seq(Ids' \cup {0}) /\ Len(jobs') = m + 1 /\ jobs'[m + 1] = n
      /\ \A i \in 1 .. m : jobs'[i] = jobs[i]
  <2>1. jobs \in Seq(Ids' \cup {0})
    BY <1>4, Wider DEF QueueInv
  <2> HIDE DEF n
  <2> QED
    BY <1>4, <2>1, Appends DEF n
<1>6. \A i \in 1 .. m + 1 : i \in 1 .. m \/ i = m + 1
  BY <1>2
<1>7. \A i \in 1 .. m : jobs[i] # n /\ i \in 1 .. m + 1
  BY <1>2, QueueFacts
<1> HIDE DEF n, m
<1>8. \A x : In(jobs', x) <=> In(jobs, x) \/ x = n
  <2>1. m + 1 \in 1 .. m + 1
    BY <1>2
  <2> QED
    BY <1>5, <1>6, <1>7, <2>1 DEF In, m
<1>9. \A i, j \in 1 .. Len(jobs') : jobs'[i] = jobs'[j] /\ jobs'[i] # 0 => i = j
  <2>1. \A i, j \in 1 .. m : jobs[i] = jobs[j] /\ jobs[i] # 0 => i = j
    BY DEF QueueInv, m
  <2> QED
    BY <1>5, <1>6, <1>7, <2>1
<1>10. wk.x # n /\ wk.x \in Ids \cup {0}
  BY <1>2 DEF QueueInv
<1>11. \A x \in Ids' : xfers'[x].st \in Waiting <=> wk'.x = x \/ In(jobs', x)
  <2>1. \A x \in Ids : xfers'[x].st \in Waiting <=> wk'.x = x \/ In(jobs', x)
    BY <1>2, <1>3, <1>8 DEF QueueInv
  <2>2. xfers'[n].st \in Waiting /\ In(jobs', n)
    BY <1>1, <1>3, <1>8 DEF Waiting
  <2> QED
    BY <1>4, <2>1, <2>2
<1>12. listed' = listed \cup {n} /\ \A x \in Ids' : xfers'[x].st \notin Ended => x \in listed'
  <2>1. listed' = listed \cup {n}
    BY DEF n
  <2> QED
    BY <1>3, <1>4, <2>1 DEF QueueInv
<1>13. listed' \subseteq Ids'
  BY <1>4, <1>12 DEF QueueInv
<1>14. wk'.x \in Ids' \cup {0} /\ (wk'.x # 0 => ~In(jobs', wk'.x))
  BY <1>4, <1>8, <1>10 DEF QueueInv
<1> QED
  BY <1>3, <1>5, <1>9, <1>11, <1>12, <1>13, <1>14 DEF QueueInv

\* The directory's plan, job 0, may be posted beside the transfers.
LEMMA PostsTree ==
  ASSUME QueueInv, jobs' = Append(jobs, 0), UNCHANGED <<xfers, listed>>, wk'.x = wk.x
  PROVE  QueueInv'
<1> DEFINE m == Len(jobs)
<1>1. /\ jobs' \in Seq(Ids \cup {0}) /\ Len(jobs') = m + 1 /\ jobs'[m + 1] = 0
      /\ \A i \in 1 .. m : jobs'[i] = jobs[i]
  BY Appends DEF QueueInv
<1>2. m \in Nat /\ Ids' = Ids
  BY QueueFacts DEF Ids
<1>3. /\ \A i \in 1 .. m + 1 : i \in 1 .. m \/ i = m + 1
      /\ \A i \in 1 .. m : i \in 1 .. m + 1
  BY <1>2
<1> HIDE DEF m
<1>4. \A x \in Ids : In(jobs', x) <=> In(jobs, x)
  BY <1>1, <1>3, QueueFacts DEF In, m
<1>5. \A i, j \in 1 .. Len(jobs') : jobs'[i] = jobs'[j] /\ jobs'[i] # 0 => i = j
  <2>1. \A i, j \in 1 .. m : jobs[i] = jobs[j] /\ jobs[i] # 0 => i = j
    BY DEF QueueInv, m
  <2> QED
    BY <1>1, <1>3, <2>1
<1>6. wk'.x # 0 => ~In(jobs', wk'.x)
  BY <1>4 DEF QueueInv
<1> QED
  BY <1>1, <1>2, <1>4, <1>5, <1>6 DEF QueueInv

\* Listed transfers that had stopped are posted again, each once.
LEMMA Reposts ==
  ASSUME QueueInv, NEW ids, ids \subseteq listed, \A x \in ids : xfers[x].st \notin Waiting,
         xfers' \in Seq(TransferRecs), Len(xfers') = Len(xfers),
         \A x \in ids : xfers'[x].st = "queued", \A x \in Ids \ ids : xfers'[x] = xfers[x],
         jobs' = jobs \o InListOrder(ids), listed' = listed, wk'.x = wk.x
  PROVE  QueueInv'
<1> DEFINE s == InListOrder(ids)
           m == Len(jobs)
           k == Len(s)
<1>1. Ids' = Ids /\ m \in Nat /\ ids \subseteq Ids /\ 0 \notin Ids
  BY QueueFacts DEF Ids, QueueInv
<1>2. ids \subseteq Nat /\ IsFiniteSet(ids)
  <2> DEFINE k0 == Len(xfers)
  <2>0. k0 \in Nat /\ Ids = 1 .. k0 /\ 1 \in Int /\ k0 \in Int
    BY QueueFacts
  <2> HIDE DEF k0
  <2>1. IsFiniteSet(Ids) /\ Ids \subseteq Nat
    BY <2>0, FS_Interval
  <2> QED
    BY <1>1, <2>1, FS_Subset
<1>3. /\ s \in Seq(ids) /\ \A i, j \in 1 .. k : s[i] = s[j] => i = j
      /\ \A x \in ids : \E i \in 1 .. k : s[i] = x
  BY <1>2, Ordered
<1> HIDE DEF s
<1>4. k \in Nat /\ \A i \in 1 .. k : s[i] \in ids
  BY <1>3
<1>5. /\ jobs' \in Seq(Ids \cup {0}) /\ Len(jobs') = m + k
      /\ \A i \in 1 .. m : jobs'[i] = jobs[i]
      /\ \A i \in 1 .. k : jobs'[m + i] = s[i]
  <2>1. s \in Seq(Ids \cup {0}) /\ jobs \in Seq(Ids \cup {0}) /\ jobs' = jobs \o s
    BY <1>1, <1>3, Wider DEF QueueInv, s
  <2> QED
    BY <2>1
<1>6. /\ \A i \in 1 .. m + k : i \in 1 .. m \/ \E j \in 1 .. k : i = m + j
      /\ \A i \in 1 .. m : i \in 1 .. m + k
      /\ \A i \in 1 .. k : m + i \in 1 .. m + k
  <2>1. ASSUME NEW i \in 1 .. m + k, i \notin 1 .. m PROVE \E j \in 1 .. k : i = m + j
    <3>1. i - m \in 1 .. k /\ i = m + (i - m)
      BY <1>1, <1>4, <2>1
    <3> QED
      BY <3>1
  <2> QED
    BY <1>1, <1>4, <2>1
<1> HIDE DEF m, k
<1>7. \A x : In(jobs', x) <=> In(jobs, x) \/ x \in ids
  <2>1. \A x \in ids : In(jobs', x)
    <3> SUFFICES ASSUME NEW x \in ids PROVE In(jobs', x)
      OBVIOUS
    <3>1. PICK i \in 1 .. k : s[i] = x
      BY <1>3
    <3>2. jobs'[m + i] = x /\ m + i \in 1 .. Len(jobs')
      BY <1>5, <1>6, <3>1
    <3> QED
      BY <3>2 DEF In
  <2>2. ASSUME NEW x, In(jobs, x) PROVE In(jobs', x)
    BY <1>5, <1>6, <2>2 DEF In, m
  <2>3. ASSUME NEW x, In(jobs', x) PROVE In(jobs, x) \/ x \in ids
    <3>1. PICK i \in 1 .. m + k : jobs'[i] = x
      BY <1>5, <2>3 DEF In
    <3>2. CASE i \in 1 .. m
      BY <1>5, <3>1, <3>2 DEF In, m
    <3>3. CASE \E j \in 1 .. k : i = m + j
      BY <1>4, <1>5, <3>1, <3>3
    <3> QED
      BY <1>6, <3>2, <3>3
  <2> QED
    BY <2>1, <2>2, <2>3
<1>8. \A x \in ids : ~In(jobs, x) /\ wk.x # x
  BY <1>1 DEF QueueInv
<1>9. \A i \in 1 .. m : jobs[i] \notin ids
  BY <1>8 DEF In, m
<1>10. \A i, j \in 1 .. Len(jobs') : jobs'[i] = jobs'[j] /\ jobs'[i] # 0 => i = j
  <2> SUFFICES ASSUME NEW i \in 1 .. m + k, NEW j \in 1 .. m + k,
                      jobs'[i] = jobs'[j], jobs'[i] # 0
               PROVE  i = j
    BY <1>5
  <2>1. \A a, b \in 1 .. m : jobs[a] = jobs[b] /\ jobs[a] # 0 => a = b
    BY DEF QueueInv, m
  <2>2. CASE i \in 1 .. m /\ j \in 1 .. m
    BY <1>5, <2>1, <2>2
  <2>3. ASSUME i \in 1 .. m, NEW b \in 1 .. k, j = m + b PROVE FALSE
    <3>1. jobs'[j] = s[b] /\ s[b] \in ids /\ jobs'[i] = jobs[i] /\ jobs[i] \notin ids
      BY <1>4, <1>5, <1>9, <2>3
    <3> QED
      BY <3>1
  <2>4. ASSUME NEW a \in 1 .. k, i = m + a, j \in 1 .. m PROVE FALSE
    <3>1. jobs'[i] = s[a] /\ s[a] \in ids /\ jobs'[j] = jobs[j] /\ jobs[j] \notin ids
      BY <1>4, <1>5, <1>9, <2>4
    <3> QED
      BY <3>1
  <2>5. ASSUME NEW a \in 1 .. k, i = m + a, NEW b \in 1 .. k, j = m + b PROVE i = j
    <3>1. jobs'[i] = s[a] /\ jobs'[j] = s[b]
      BY <1>5, <2>5
    <3>2. s[a] = s[b]
      BY <2>5, <3>1
    <3>3. a = b
      BY <1>3, <2>5, <3>2
    <3> QED
      BY <2>5, <3>3
  <2> QED
    BY <1>6, <2>2, <2>3, <2>4, <2>5
<1>11. \A x \in Ids : xfers'[x].st \in Waiting <=> wk.x = x \/ In(jobs', x)
  <2>1. \A x \in ids : xfers'[x].st \in Waiting
    BY DEF Waiting
  <2>2. \A x \in Ids \ ids : xfers'[x].st \in Waiting <=> wk.x = x \/ In(jobs, x)
    BY DEF QueueInv
  <2> QED
    BY <1>7, <2>1, <2>2
<1>12. \A x \in Ids : xfers'[x].st \notin Ended => x \in listed
  BY DEF QueueInv
<1>13. wk'.x # 0 => ~In(jobs', wk'.x)
  BY <1>7, <1>8 DEF QueueInv
<1>14. wk'.x \in Ids \cup {0} /\ Len(xfers') <= MaxTransfers /\ listed' \subseteq Ids
  BY DEF QueueInv
<1> QED
  BY <1>1, <1>5, <1>10, <1>11, <1>12, <1>13, <1>14 DEF QueueInv

\* What is taken was posted once, and is not any more.
LEMMA Taken ==
  ASSUME QueueInv, jobs # <<>>
  PROVE  LET t == Tail(jobs)
         IN  /\ t \in Seq(Ids \cup {0}) /\ Head(jobs) \in Ids \cup {0}
             /\ \A i, j \in 1 .. Len(t) : t[i] = t[j] /\ t[i] # 0 => i = j
             /\ \A x \in Ids : (\E i \in 1 .. Len(t) : t[i] = x) <=> In(jobs, x) /\ x # Head(jobs)
             /\ Head(jobs) # 0 => In(jobs, Head(jobs))
<1> DEFINE t == Tail(jobs)
           m == Len(jobs)
<1>1. jobs \in Seq(Ids \cup {0}) /\ jobs # <<>>
  BY DEF QueueInv
<1>2. /\ t \in Seq(Ids \cup {0}) /\ Head(jobs) \in Ids \cup {0} /\ Head(jobs) = jobs[1]
      /\ m \in Nat \ {0} /\ Len(t) = m - 1
      /\ \A i \in 1 .. Len(t) : t[i] = jobs[i + 1]
  BY <1>1
<1> HIDE DEF t
<1>3. /\ \A i \in 1 .. Len(t) : i + 1 \in 1 .. m /\ i + 1 # 1
      /\ \A i \in 1 .. m : i = 1 \/ i - 1 \in 1 .. Len(t)
      /\ \A i \in 1 .. m : (i - 1) + 1 = i
      /\ 1 \in 1 .. m
      /\ \A i, j \in 1 .. Len(t) : i + 1 = j + 1 => i = j
  BY <1>2
<1>4. \A i, j \in 1 .. m : jobs[i] = jobs[j] /\ jobs[i] # 0 => i = j
  BY DEF QueueInv
<1> HIDE DEF m
<1>5. \A i, j \in 1 .. Len(t) : t[i] = t[j] /\ t[i] # 0 => i = j
  <2> SUFFICES ASSUME NEW i \in 1 .. Len(t), NEW j \in 1 .. Len(t), t[i] = t[j], t[i] # 0
               PROVE  i = j
    OBVIOUS
  <2>1. jobs[i + 1] = jobs[j + 1] /\ jobs[i + 1] # 0 /\ i + 1 \in 1 .. m /\ j + 1 \in 1 .. m
    BY <1>2, <1>3
  <2>2. i + 1 = j + 1
    BY <1>4, <2>1
  <2> QED
    BY <1>3, <2>2
<1>6. ASSUME NEW x \in Ids
      PROVE  (\E i \in 1 .. Len(t) : t[i] = x) <=> In(jobs, x) /\ x # Head(jobs)
  <2>1. x # 0
    BY QueueFacts
  <2>2. ASSUME NEW i \in 1 .. Len(t), t[i] = x PROVE In(jobs, x) /\ x # jobs[1]
    <3>1. jobs[i + 1] = x /\ i + 1 \in 1 .. m /\ i + 1 # 1
      BY <1>2, <1>3, <2>2
    <3> QED
      BY <1>3, <1>4, <2>1, <3>1 DEF In, m
  <2>3. ASSUME NEW i \in 1 .. m, jobs[i] = x, x # jobs[1]
        PROVE  \E j \in 1 .. Len(t) : t[j] = x
    <3>1. i - 1 \in 1 .. Len(t) /\ (i - 1) + 1 = i
      BY <1>3, <2>3
    <3>2. t[i - 1] = jobs[i]
      BY <1>2, <3>1
    <3> QED
      BY <2>3, <3>1, <3>2
  <2> QED
    BY <1>2, <2>2, <2>3 DEF In, m
<1>7. In(jobs, Head(jobs))
  BY <1>2, <1>3 DEF In, m
<1> QED
  BY <1>2, <1>5, <1>6, <1>7 DEF t

\* The worker takes a transfer in its hands.
LEMMA TakesOne ==
  ASSUME QueueInv, jobs # <<>>, Head(jobs) # 0, wk.x = 0, wk'.x = Head(jobs),
         jobs' = Tail(jobs), UNCHANGED <<xfers, listed>>
  PROVE  QueueInv'
<1> DEFINE h == Head(jobs)
<1>1. /\ jobs' \in Seq(Ids \cup {0}) /\ h \in Ids
      /\ \A i, j \in 1 .. Len(jobs') : jobs'[i] = jobs'[j] /\ jobs'[i] # 0 => i = j
      /\ \A x \in Ids : In(jobs', x) <=> In(jobs, x) /\ x # h
      /\ In(jobs, h)
  BY Taken DEF In
<1>2. Ids' = Ids /\ 0 \notin Ids
  BY QueueFacts DEF Ids
<1> HIDE DEF h
<1>3. wk'.x = h
  BY DEF h
<1>4. \A x \in Ids : xfers[x].st \in Waiting <=> wk'.x = x \/ In(jobs', x)
  BY <1>1, <1>2, <1>3 DEF QueueInv
<1> QED
  BY <1>1, <1>2, <1>3, <1>4 DEF QueueInv

\* The directory's plan is taken; what it finds is queued as any other.
LEMMA TakesTree ==
  ASSUME QueueInv, jobs # <<>>, Head(jobs) = 0, Planned, wk.x = 0 PROVE QueueInv'
<1> DEFINE t == Tail(jobs)
<1>1. /\ t \in Seq(Ids \cup {0})
      /\ \A i, j \in 1 .. Len(t) : t[i] = t[j] /\ t[i] # 0 => i = j
      /\ \A x \in Ids : In(t, x) <=> In(jobs, x)
  BY Taken, QueueFacts DEF In
<1>2. wk'.x = 0
  BY DEF Planned, Idles, Idle
<1>3. CASE UNCHANGED <<xfers, listed>> /\ jobs' = t
  <2>1. Ids' = Ids
    BY <1>3 DEF Ids
  <2> QED
    BY <1>1, <1>2, <1>3, <2>1 DEF QueueInv
<1>4. CASE /\ Len(xfers) < MaxTransfers /\ xfers' = Append(xfers, NewTransfer(TRUE))
           /\ listed' = listed \cup {Len(xfers) + 1} /\ jobs' = Append(t, Len(xfers) + 1)
  <2> DEFINE n == Len(xfers) + 1
             r == NewTransfer(TRUE)
             m == Len(t)
  <2>1. r \in TransferRecs /\ r.st = "queued"
    BY NewRecord
  <2>2. n \in Nat /\ n \notin Ids /\ n # 0
    BY QueueFacts
  <2> HIDE DEF r
  <2>3. /\ xfers' \in Seq(TransferRecs) /\ Len(xfers') = n /\ Len(xfers') <= MaxTransfers
        /\ \A x \in Ids : xfers'[x] = xfers[x]
        /\ xfers'[n] = r
    <3>1. xfers \in Seq(TransferRecs) /\ Ids = 1 .. Len(xfers) /\ xfers' = Append(xfers, r)
      BY <1>4, QueueFacts DEF QueueInv, r
    <3>2. Len(xfers) < MaxTransfers /\ Len(xfers) \in Nat /\ MaxTransfers \in Nat
      BY <1>4, QueueFacts
    <3> QED
      BY <2>1, <3>1, <3>2, Appends
  <2>4. Ids' = Ids \cup {n}
    <3>1. Ids' = 1 .. n
      BY <2>2, <2>3 DEF Ids
    <3> QED
      BY <2>2, <3>1, QueueFacts
  <2> HIDE DEF t
  <2>5. /\ jobs' \in Seq(Ids' \cup {0}) /\ Len(jobs') = m + 1 /\ jobs'[m + 1] = n
        /\ m \in Nat /\ \A i \in 1 .. m : jobs'[i] = t[i]
    <3>1. t \in Seq(Ids' \cup {0})
      BY <1>1, <2>4, Wider
    <3>2. jobs' = Append(t, n)
      BY <1>4
    <3> HIDE DEF n
    <3> QED
      BY <2>4, <3>1, <3>2, Appends
  <2>6. \A i \in 1 .. m : t[i] \in Ids \cup {0}
    BY <1>1
  <2>7. /\ \A i \in 1 .. m + 1 : i \in 1 .. m \/ i = m + 1
        /\ \A i \in 1 .. m : t[i] # n /\ i \in 1 .. m + 1
        /\ m + 1 \in 1 .. m + 1
    BY <2>2, <2>5, <2>6
  <2> HIDE DEF n, m
  <2>8. \A x : In(jobs', x) <=> In(t, x) \/ x = n
    BY <2>5, <2>7 DEF In, m
  <2>9. \A i, j \in 1 .. Len(jobs') : jobs'[i] = jobs'[j] /\ jobs'[i] # 0 => i = j
    <3>1. \A i, j \in 1 .. m : t[i] = t[j] /\ t[i] # 0 => i = j
      BY <1>1 DEF m
    <3> QED
      BY <2>5, <2>7, <3>1
  <2>10. \A x \in Ids' : xfers'[x].st \in Waiting <=> wk'.x = x \/ In(jobs', x)
    <3>1. \A x \in Ids : xfers'[x].st \in Waiting <=> wk'.x = x \/ In(jobs', x)
      BY <1>1, <1>2, <2>2, <2>3, <2>8, QueueFacts DEF QueueInv
    <3>2. xfers'[n].st \in Waiting /\ In(jobs', n)
      BY <2>1, <2>3, <2>8 DEF Waiting
    <3> QED
      BY <2>4, <3>1, <3>2
  <2>11. listed' = listed \cup {n}
    BY <1>4 DEF n
  <2>12. /\ \A x \in Ids' : xfers'[x].st \notin Ended => x \in listed'
         /\ listed' \subseteq Ids'
    BY <2>3, <2>4, <2>11 DEF QueueInv
  <2> QED
    BY <1>2, <2>3, <2>5, <2>9, <2>10, <2>12 DEF QueueInv
<1> QED
  BY <1>3, <1>4 DEF Planned

\* Flags of transfers change nothing of where they are.
LEMMA Flags ==
  ASSUME QueueInv, NEW ids, Flag(ids), UNCHANGED <<listed, jobs>>, wk'.x = wk.x PROVE QueueInv'
<1>1. \A x \in Ids : xfers[x] \in TransferRecs /\ [xfers[x] EXCEPT !.cancel = TRUE] \in TransferRecs
                     /\ [xfers[x] EXCEPT !.cancel = TRUE].st = xfers[x].st
  BY QueueFacts DEF TransferRecs
<1>2. /\ xfers' \in [Ids -> TransferRecs]
      /\ \A x \in Ids : xfers'[x].st = xfers[x].st
  BY <1>1 DEF Flag
<1>3. xfers' \in Seq(TransferRecs) /\ Len(xfers') = Len(xfers) /\ Ids' = Ids
  BY <1>2, QueueFacts DEF Ids
<1> QED
  BY <1>2, <1>3 DEF QueueInv

\* Transfers posted again with other flags.
LEMMA PostsAgain ==
  ASSUME QueueInv, NEW ids, ids \subseteq listed, \A x \in ids : xfers[x].st \notin Waiting,
         NEW f \in BOOLEAN,
         xfers' = [x \in Ids |->
           IF x \in ids THEN IF f THEN [xfers[x] EXCEPT !.st = "queued", !.cancel = FALSE]
                                  ELSE [xfers[x] EXCEPT !.st = "queued"]
           ELSE xfers[x]],
         jobs' = jobs \o InListOrder(ids), listed' = listed, wk'.x = wk.x
  PROVE  QueueInv'
<1>1. \A x \in Ids :
        /\ xfers[x] \in TransferRecs
        /\ [xfers[x] EXCEPT !.st = "queued"] \in TransferRecs
        /\ [xfers[x] EXCEPT !.st = "queued", !.cancel = FALSE] \in TransferRecs
        /\ [xfers[x] EXCEPT !.st = "queued"].st = "queued"
        /\ [xfers[x] EXCEPT !.st = "queued", !.cancel = FALSE].st = "queued"
  BY QueueFacts DEF TransferRecs, States
<1>2. /\ xfers' \in [Ids -> TransferRecs]
      /\ \A x \in Ids : IF x \in ids THEN xfers'[x].st = "queued" ELSE xfers'[x] = xfers[x]
  BY <1>1
<1>3. xfers' \in Seq(TransferRecs) /\ Len(xfers') = Len(xfers)
  <2>1. PICK n \in Nat : n = Len(xfers) /\ Ids = 1 .. n
    BY QueueFacts
  <2>2. xfers' \in [1 .. n -> TransferRecs]
    BY <1>2, <2>1
  <2>3. PICK g \in [1 .. n -> TransferRecs] : g = xfers'
    BY <2>2
  <2>4. g \in Seq(TransferRecs) /\ Len(g) = n
    BY Listing
  <2> QED
    BY <2>1, <2>3, <2>4
<1>4. ids \subseteq Ids
  BY DEF QueueInv
<1> QED
  BY <1>2, <1>3, <1>4, Reposts

----------------------------------------------------------------------------
(* The files and the worker.                                               *)

LEMMA Empty == <<>> \in Seq(Versions) /\ Missing \in FileRecs /\ Missing.data = <<>>
  BY Sizing DEF Missing, FileRecs, Times

\* What a save leaves.
LEMMA Saves == ASSUME NEW v \in Versions PROVE Saved(v) \in FileRecs
<1>1. Sizes[v] \in Nat /\ v \in Times
  BY Sizing DEF Versions, Times
<1>2. [b \in 1 .. Sizes[v] |-> v] \in Seq(Versions)
  BY <1>1
<1> QED
  BY <1>1, <1>2 DEF Saved, FileRecs

\* What a file is asked for.
LEMMA Stats == ASSUME NEW f \in FileRecs PROVE Stat(f) \in Records /\ Len(f.data) \in Nat
  BY DEF FileRecs, Stat, Records

\* A file with one more block, or another one, at position p.
LEMMA Puts ==
  ASSUME NEW x, NEW f \in FileRecs, NEW k \in Nat, NEW v \in Versions
  PROVE  Put(x, f, k, v) \in FileRecs
<1>1. f.data \in Seq(Versions) /\ f.time \in Times /\ Now(v) \in Times
  BY Sizing DEF FileRecs, Now, Versions, Times
<1>2. Append(f.data, v) \in Seq(Versions)
  BY <1>1
<1>3. ASSUME ~(k >= Len(f.data)) PROVE [f.data EXCEPT ![k + 1] = v] \in Seq(Versions)
  BY <1>1, <1>3
<1> QED
  BY <1>1, <1>2, <1>3 DEF Put, FileRecs

\* A write goes to one of the two files.
LEMMA Stores ==
  ASSUME FilesInv, NEW x, NEW f \in FileRecs, Store(x, f), saved' = saved PROVE FilesInv'
  BY DEF FilesInv, Store, Versions, FileRecs, Times

\* The files of a transfer.
LEMMA Ends == ASSUME FilesInv, NEW x PROVE Source(x) \in FileRecs /\ Dest(x) \in FileRecs
  BY DEF FilesInv, Source, Dest

\* The queue's part of the invariant names the worker's hands only.
LEMMA Hands == ASSUME Inv PROVE wk.x \in Ids \cup {0} /\ (wk.x # 0 => wk.x \in Ids)
  BY DEF Inv, QueueInv

\* A worker at a place with another transfer, or the same.
LEMMA Moves ==
  ASSUME Inv, Len(xfers') \in Nat, Ids \subseteq Ids', NEW at \in Places, wk' = [wk EXCEPT !.at = at],
         at \in Resting <=> wk.at \in Resting
  PROVE  WorkerInv' /\ wk'.x = wk.x /\ wk'.at = at
  BY DEF Inv, WorkerInv, Places, Resting

LEMMA Rests ==
  ASSUME Inv, Ids \subseteq Ids', Idles PROVE WorkerInv' /\ wk'.x = 0
  BY DEF Inv, WorkerInv, Idles, Idle, Places, Resting

\* The invariant, when the files or the queue are as they were.
LEMMA SameFiles == ASSUME FilesInv, UNCHANGED files PROVE FilesInv'
  BY DEF FilesInv, files, Versions, FileRecs, Times
LEMMA SameTab == ASSUME TabInv, UNCHANGED <<paused, watch, tab>> PROVE TabInv'
  BY DEF TabInv, Times
LEMMA SameWorker == ASSUME WorkerInv, UNCHANGED <<xfers, wk>> PROVE WorkerInv'
  BY DEF WorkerInv, Ids

LEMMA Starts == ASSUME Init PROVE Inv
<1>1. /\ Missing \in FileRecs /\ Saved(1) \in FileRecs /\ saved = 1 /\ 1 \in Versions
  BY Empty, Saves, Sizing DEF Init, Versions
<1>2. FilesInv
  BY <1>1 DEF Init, FilesInv
<1>3. xfers = <<>> /\ jobs = <<>> /\ listed = {} /\ wk.x = 0 /\ wk.at = "connecting"
  BY DEF Init, Idle
<1>4. Ids = {} /\ Len(xfers) = 0 /\ Len(jobs) = 0 /\ xfers \in Seq(TransferRecs)
      /\ jobs \in Seq(Ids \cup {0})
  BY <1>3 DEF Ids
<1>5. QueueInv
  BY <1>3, <1>4, TransfersAssumption DEF QueueInv
<1>6. WorkerInv
  BY <1>3 DEF Init, Idle, WorkerInv, Places, Resting
<1>7. TabInv
  <2>1. 0 \in Times
    BY Sizing DEF Times
  <2> QED
    BY <2>1 DEF Init, TabInv
<1> QED
  BY <1>2, <1>5, <1>6, <1>7 DEF Inv

----------------------------------------------------------------------------
(* One action at a time.                                                   *)

\* A transfer that ends, or stops, leaves the worker's hands.
LEMMA Closes ==
  ASSUME Inv, wk.x # 0, NEW st \in Ended \cup {"paused"},
         \/ xfers' = [xfers EXCEPT ![wk.x] = [NewTransfer(@.down) EXCEPT !.st = st]]
         \/ xfers' = [xfers EXCEPT ![wk.x].st = st],
         UNCHANGED <<listed, jobs>>, Idles
  PROVE  QueueInv' /\ WorkerInv'
<1>1. QueueInv /\ wk.x \in Ids /\ xfers[wk.x] \in TransferRecs
  BY Hands, QueueFacts DEF Inv
<1>2. st \in States /\ st \notin Waiting
  BY DEF States, Ended, Waiting
<1> DEFINE a == [NewTransfer(xfers[wk.x].down) EXCEPT !.st = st]
           b == [xfers[wk.x] EXCEPT !.st = st]
<1>3. a \in TransferRecs /\ a.st = st
  <2>1. NewTransfer(xfers[wk.x].down) \in TransferRecs
    BY <1>1, NewRecord DEF TransferRecs
  <2> HIDE DEF NewTransfer
  <2> QED
    BY <1>2, <2>1 DEF TransferRecs
<1>4. b \in TransferRecs /\ b.st = st
  BY <1>1, <1>2 DEF TransferRecs
<1>5. xfers' = [xfers EXCEPT ![wk.x] = a] \/ xfers' = [xfers EXCEPT ![wk.x] = b]
  BY <1>1
<1>6. wk'.x = 0
  BY DEF Idles, Idle
<1> HIDE DEF a, b
<1>7. QueueInv'
  BY <1>1, <1>2, <1>3, <1>4, <1>5, <1>6, RecordChanges
<1>8. Ids' = Ids
  BY <1>1, <1>5 DEF Ids, QueueInv
<1> QED
  BY <1>7, <1>8, Rests

LEMMA ByConnect == ASSUME Inv, Connect PROVE Inv'
<1>1. wk.x = 0 /\ UNCHANGED <<xfers, listed, jobs, paused, watch, tab, local, remote, saved>>
      /\ wk.at = "connecting"
  BY DEF Inv, WorkerInv, Resting, Connect, Worker, OnQueue, OnFiles
<1>2. wk'.x = 0 /\ WorkerInv'
  <2>1. CASE Idles
    BY <1>1, <2>1, Rests DEF Ids
  <2>2. CASE wk' = [wk EXCEPT !.at = "out"]
    BY <1>1, <2>2 DEF Inv, WorkerInv, Places, Resting, Ids
  <2> QED
    BY <2>1, <2>2 DEF Connect
<1> QED
  BY <1>1, <1>2, QueueStays, SameFiles, SameTab DEF Inv, queue, files

LEMMA ByStop == ASSUME Inv, Stop PROVE Inv'
<1>1. wk.x = 0 /\ UNCHANGED <<xfers, listed, jobs, paused, watch, tab, local, remote, saved>>
      /\ wk' = [wk EXCEPT !.at = "out"]
  BY DEF Inv, WorkerInv, Resting, Stop, Worker, OnQueue, OnFiles
<1>2. wk'.x = 0 /\ WorkerInv'
  BY <1>1 DEF Inv, WorkerInv, Places, Resting, Ids
<1> QED
  BY <1>1, <1>2, QueueStays, SameFiles, SameTab DEF Inv, queue, files

LEMMA ByTake == ASSUME Inv, Take PROVE Inv'
<1>1. /\ wk.x = 0 /\ jobs # <<>> /\ QueueInv
      /\ UNCHANGED <<paused, watch, tab, local, remote, saved>>
  BY DEF Inv, WorkerInv, Resting, Take, Worker, Awake, files
<1>2. CASE Head(jobs) = 0 /\ Planned
  <2>1. QueueInv'
    BY <1>1, <1>2, TakesTree
  <2>2. Ids \subseteq Ids'
    <3>1. xfers' = xfers \/ xfers' = Append(xfers, NewTransfer(TRUE))
      BY <1>2 DEF Planned
    <3>2. xfers \in Seq(TransferRecs) /\ NewTransfer(TRUE) \in TransferRecs
      BY <1>1, NewRecord DEF QueueInv
    <3>3. PICK q \in Seq(TransferRecs) : q = Append(xfers, NewTransfer(TRUE)) /\ Len(q) = Len(xfers) + 1
      BY <3>2, Appends
    <3>4. xfers' = xfers \/ xfers' = q
      BY <3>1, <3>3
    <3>5. Len(xfers') \in {Len(xfers), Len(xfers) + 1} /\ xfers' \in Seq(TransferRecs)
      BY <3>2, <3>3, <3>4
    <3>6. Ids' = 1 .. Len(xfers')
      BY <3>5 DEF Ids
    <3> QED
      BY <1>1, <3>5, <3>6, QueueFacts
  <2>3. WorkerInv'
    BY <1>2, <2>2, Rests DEF Planned
  <2> QED
    BY <1>1, <2>1, <2>3, SameFiles, SameTab DEF Inv, files
<1>3. CASE /\ Head(jobs) # 0 /\ wk' = [Idle EXCEPT !.at = "start", !.x = Head(jobs)]
           /\ jobs' = Tail(jobs) /\ UNCHANGED <<xfers, listed>>
  <2>1. wk'.x = Head(jobs)
    BY <1>3 DEF Idle
  <2>2. QueueInv'
    BY <1>1, <1>3, <2>1, TakesOne
  <2>3. Head(jobs) \in Ids /\ Ids' = Ids
    BY <1>1, <1>3, Taken DEF Ids
  <2>4. WorkerInv'
    BY <1>3, <2>3 DEF WorkerInv, Idle, Places, Resting
  <2> QED
    BY <1>1, <2>2, <2>4, SameFiles, SameTab DEF Inv, files
<1> QED
  BY <1>2, <1>3 DEF Take

LEMMA ByStart == ASSUME Inv, Start PROVE Inv'
<1>1. /\ wk.at = "start" /\ wk.x # 0 /\ wk.x \in Ids
      /\ UNCHANGED <<listed, jobs, paused, watch, tab, local, remote, saved>>
  BY Hands DEF Inv, WorkerInv, Resting, Start, Worker, OnQueue, OnFiles
<1>2. CASE Close(wk.x, "cancelled") /\ Idles
  BY <1>1, <1>2, Closes, SameFiles, SameTab DEF Inv, files, Close, Ended
<1>3. CASE wk' = [wk EXCEPT !.at = "gate"] /\ UNCHANGED xfers
  <2>1. WorkerInv' /\ wk'.x = wk.x
    BY <1>1, <1>3 DEF Inv, WorkerInv, Places, Resting, Ids
  <2> QED
    BY <1>1, <1>3, <2>1, QueueStays, SameFiles, SameTab DEF Inv, files, queue
<1> QED
  BY <1>2, <1>3 DEF Start

LEMMA ByGate == ASSUME Inv, Gate PROVE Inv'
<1>1. /\ wk.at = "gate" /\ wk.x # 0 /\ wk.x \in Ids
      /\ UNCHANGED <<listed, jobs, paused, watch, tab, local, remote, saved>>
  BY Hands DEF Inv, WorkerInv, Resting, Gate, Worker, OnQueue, OnFiles
<1>2. CASE Set(wk.x, "paused") /\ Idles
  BY <1>1, <1>2, Closes, SameFiles, SameTab DEF Inv, files, Set
<1>3. CASE wk' = [wk EXCEPT !.at = "decide"] /\ UNCHANGED xfers
  <2>1. WorkerInv' /\ wk'.x = wk.x
    BY <1>1, <1>3 DEF Inv, WorkerInv, Places, Resting, Ids
  <2> QED
    BY <1>1, <1>3, <2>1, QueueStays, SameFiles, SameTab DEF Inv, files, queue
<1> QED
  BY <1>2, <1>3 DEF Gate

\* The record of the source is taken, whatever it says.
LEMMA ByDecide == ASSUME Inv, Decide PROVE Inv'
<1>1. /\ wk.at = "decide" /\ wk.x # 0 /\ wk.x \in Ids
      /\ UNCHANGED <<listed, jobs, paused, watch, tab, local, remote, saved>>
      /\ QueueInv /\ FilesInv /\ WorkerInv
  BY Hands DEF Inv, WorkerInv, Resting, Decide, Worker, OnQueue, OnFiles
<1>2. PICK src \in {Stat(Source(wk.x)), NoRecord} :
        /\ wk' = [wk EXCEPT !.at = "open",
                            !.from = Offset(Len(Dest(wk.x).data), src, xfers[wk.x].rec)]
        /\ xfers' = [xfers EXCEPT ![wk.x].st = "running",
                                  ![wk.x].rec = IF src.size # 0 THEN src ELSE NoRecord,
                                  ![wk.x].keep = IF src.size # 0 THEN src.time ELSE @]
  BY DEF Decide
<1>3. NoRecord \in Records /\ src \in Records
  <2>1. NoRecord \in Records
    BY Sizing DEF NoRecord, Records, Times
  <2>2. Stat(Source(wk.x)) \in Records
    BY <1>1, Ends, Stats
  <2> QED
    BY <2>1, <2>2
<1> DEFINE d == Offset(Len(Dest(wk.x).data), src, xfers[wk.x].rec)
           r == [xfers[wk.x] EXCEPT !.st = "running",
                                    !.rec = IF src.size # 0 THEN src ELSE NoRecord,
                                    !.keep = IF src.size # 0 THEN src.time ELSE @]
<1>4. d \in Nat
  <2>1. Len(Dest(wk.x).data) \in Nat
    BY <1>1, Ends, Stats
  <2> QED
    BY <2>1 DEF Offset
<1>5. r \in TransferRecs /\ r.st = "running"
  <2>1. xfers[wk.x] \in TransferRecs /\ src.time \in Times
    BY <1>1, <1>3, QueueFacts DEF Records
  <2> QED
    BY <1>3, <2>1 DEF TransferRecs, States
<1>6. wk' = [wk EXCEPT !.at = "open", !.from = d] /\ xfers' = [xfers EXCEPT ![wk.x] = r]
  BY <1>1, <1>2
<1> HIDE DEF d, r
<1>7. Ids' = Ids
  BY <1>1, <1>6 DEF Ids
<1>8. WorkerInv' /\ wk'.x = wk.x
  BY <1>1, <1>4, <1>6, <1>7 DEF WorkerInv, Places, Resting
<1>9. QueueInv'
  BY <1>1, <1>5, <1>6, <1>8, RecordChanges DEF Waiting
<1> QED
  BY <1>1, <1>8, <1>9, SameFiles, SameTab DEF Inv, files

\* A step of a running transfer that writes its copy, or does not.
LEMMA Runs ==
  ASSUME Inv, wk.x # 0, UNCHANGED <<xfers, saved, listed, jobs, paused, watch, tab>>,
         NEW at \in Places \ Resting, NEW k \in Nat, wk' = [wk EXCEPT !.at = at, !.pos = k],
         NEW f \in FileRecs, UNCHANGED <<local, remote>> \/ Store(wk.x, f)
  PROVE  Inv'
<1>1. WorkerInv' /\ wk'.x = wk.x
  BY DEF Inv, WorkerInv, Places, Resting, Ids
<1>2. FilesInv'
  BY Stores, SameFiles DEF Inv, files
<1> QED
  BY <1>1, <1>2, QueueStays, SameTab DEF Inv, queue

\* The place alone.
LEMMA SamePlace ==
  ASSUME Inv, NEW at PROVE wk.pos \in Nat /\ [wk EXCEPT !.at = at] = [wk EXCEPT !.at = at, !.pos = wk.pos]
  BY DEF Inv, WorkerInv

LEMMA ByOpenBoth == ASSUME Inv, OpenBoth PROVE Inv'
<1>1. /\ wk.x # 0 /\ UNCHANGED <<xfers, saved, listed, jobs, paused, watch, tab>>
      /\ wk.from \in Nat /\ wk.at = "open"
  BY DEF Inv, WorkerInv, Resting, OpenBoth, Worker, OnFiles
<1>2. CASE /\ wk' = [wk EXCEPT !.at = "move", !.pos = wk.from]
           /\ IF wk.from > 0 THEN UNCHANGED <<local, remote>> ELSE Store(wk.x, Missing)
  BY <1>1, <1>2, Runs, Empty DEF Places, Resting
<1>3. CASE wk' = [wk EXCEPT !.at = "over"] /\ UNCHANGED <<local, remote>>
  <2>1. wk' = [wk EXCEPT !.at = "over", !.pos = wk.pos] /\ wk.pos \in Nat
    BY <1>3, SamePlace
  <2> QED
    BY <1>1, <1>3, <2>1, Runs, Empty DEF Places, Resting
<1> QED
  BY <1>2, <1>3 DEF OpenBoth, Fails

\* A block of the source.
LEMMA Block ==
  ASSUME FilesInv, NEW x, NEW k \in Nat, k < Len(Source(x).data)
  PROVE  Source(x).data[k + 1] \in Versions
  BY Ends DEF FileRecs

LEMMA ByMove == ASSUME Inv, Move PROVE Inv'
<1>1. /\ wk.x # 0 /\ UNCHANGED <<xfers, saved, listed, jobs, paused, watch, tab>>
      /\ wk.pos \in Nat /\ wk.at = "move" /\ FilesInv
  BY DEF Inv, WorkerInv, Resting, Move, Worker, OnFiles
<1> DEFINE f == Put(wk.x, Dest(wk.x), wk.pos, Source(wk.x).data[wk.pos + 1])
<1>2. f \in FileRecs
  BY <1>1, Block, Ends, Puts DEF Move
<1>3. \/ /\ Store(wk.x, f)
         /\ \/ wk' = [wk EXCEPT !.pos = wk.pos + 1]
            \/ wk' = [wk EXCEPT !.pos = wk.pos + 1, !.at = "closing"]
      \/ wk' = [wk EXCEPT !.at = "closing"] /\ UNCHANGED <<local, remote>>
  BY DEF Move, Fails
<1> HIDE DEF f
<1>4. CASE Store(wk.x, f) /\ wk' = [wk EXCEPT !.pos = wk.pos + 1]
  <2>1. wk' = [wk EXCEPT !.at = "move", !.pos = wk.pos + 1]
    BY <1>1, <1>4 DEF Inv, WorkerInv
  <2>2. wk.pos + 1 \in Nat /\ "move" \in Places \ Resting
    BY <1>1 DEF Places, Resting
  <2> QED
    BY <1>1, <1>2, <1>4, <2>1, <2>2, Runs
<1>5. CASE Store(wk.x, f) /\ wk' = [wk EXCEPT !.pos = wk.pos + 1, !.at = "closing"]
  <2>1. wk' = [wk EXCEPT !.at = "closing", !.pos = wk.pos + 1]
    BY <1>1, <1>5 DEF Inv, WorkerInv
  <2>2. wk.pos + 1 \in Nat /\ "closing" \in Places \ Resting
    BY <1>1 DEF Places, Resting
  <2> QED
    BY <1>1, <1>2, <1>5, <2>1, <2>2, Runs
<1>6. CASE wk' = [wk EXCEPT !.at = "closing"] /\ UNCHANGED <<local, remote>>
  <2>1. wk' = [wk EXCEPT !.at = "closing", !.pos = wk.pos]
    BY <1>6, SamePlace
  <2> QED
    BY <1>1, <1>2, <1>6, <2>1, Runs DEF Places, Resting
<1> QED
  BY <1>3, <1>4, <1>5, <1>6

LEMMA ByEndOfFile == ASSUME Inv, EndOfFile PROVE Inv'
<1>1. /\ wk.x # 0 /\ UNCHANGED <<xfers, saved, listed, jobs, paused, watch, tab, local, remote>>
      /\ wk' = [wk EXCEPT !.at = "landed"]
  BY DEF Inv, WorkerInv, Resting, EndOfFile, Worker, OnFiles, OnQueue
<1> QED
  BY <1>1, SamePlace, Runs, Empty DEF Places, Resting

LEMMA ByAbandon == ASSUME Inv, Abandon PROVE Inv'
<1>1. /\ wk.x # 0 /\ UNCHANGED <<xfers, saved, listed, jobs, paused, watch, tab>>
      /\ wk' = [wk EXCEPT !.at = "over"]
      /\ UNCHANGED <<local, remote>> \/ Store(wk.x, Missing)
  BY DEF Inv, WorkerInv, Resting, Abandon, Worker, OnFiles, Store
<1> QED
  BY <1>1, SamePlace, Runs, Empty DEF Places, Resting

LEMMA ByFailed == ASSUME Inv, Failed PROVE Inv'
<1>1. /\ wk.x # 0 /\ UNCHANGED <<listed, jobs, paused, watch, tab, local, remote, saved>> /\ Idles
  BY DEF Inv, WorkerInv, Resting, Failed, Worker, OnFiles, OnQueue
<1>2. \/ Close(wk.x, "cancelled") \/ Set(wk.x, "paused") \/ Set(wk.x, "failed")
  BY DEF Failed
<1> QED
  BY <1>1, <1>2, Closes, SameFiles, SameTab DEF Inv, files, Close, Set, Ended

LEMMA ByFinish == ASSUME Inv, Finish PROVE Inv'
<1>1. /\ wk.at = "landed" /\ wk.x # 0 /\ wk.x \in Ids
      /\ UNCHANGED <<listed, jobs, paused, watch, tab, saved>>
      /\ QueueInv /\ FilesInv /\ WorkerInv /\ TabInv
  BY Hands DEF Inv, WorkerInv, Resting, Finish, Worker, OnFiles
<1>2. FilesInv'
  <2>1. CASE UNCHANGED <<local, remote>>
    BY <1>1, <2>1, SameFiles DEF files
  <2>2. CASE Store(wk.x, [Dest(wk.x) EXCEPT !.time = xfers[wk.x].keep])
    <3>1. Dest(wk.x) \in FileRecs /\ xfers[wk.x].keep \in Times
      BY <1>1, Ends, QueueFacts DEF TransferRecs
    <3>2. [Dest(wk.x) EXCEPT !.time = xfers[wk.x].keep] \in FileRecs
      BY <3>1 DEF FileRecs
    <3> QED
      BY <1>1, <2>2, <3>2, Stores
  <2> QED
    BY <2>1, <2>2 DEF Finish, Preserve
<1>3. CASE Set(wk.x, "verifying") /\ wk' = [wk EXCEPT !.at = "hash"]
  <2> DEFINE r == [xfers[wk.x] EXCEPT !.st = "verifying"]
  <2>1. r \in TransferRecs /\ r.st = "verifying"
    BY <1>1, QueueFacts DEF TransferRecs, States
  <2>2. xfers' = [xfers EXCEPT ![wk.x] = r]
    BY <1>1, <1>3 DEF Set
  <2> HIDE DEF r
  <2>3. Ids' = Ids
    BY <1>1, <2>2 DEF Ids
  <2>4. WorkerInv' /\ wk'.x = wk.x
    BY <1>1, <1>3, <2>3 DEF WorkerInv, Places, Resting
  <2>5. QueueInv'
    BY <1>1, <2>1, <2>2, <2>4, RecordChanges DEF Waiting
  <2> QED
    BY <1>1, <1>2, <2>4, <2>5, SameTab DEF Inv
<1>4. CASE Close(wk.x, "done") /\ Idles
  BY <1>1, <1>2, <1>4, Closes, SameTab DEF Inv, Close, Ended
<1> QED
  BY <1>3, <1>4 DEF Finish

LEMMA ByHash == ASSUME Inv, Hash PROVE Inv'
<1>1. /\ wk.x # 0 /\ UNCHANGED <<listed, jobs, paused, watch, tab, local, remote, saved>> /\ Idles
      /\ Close(wk.x, "done")
  BY DEF Inv, WorkerInv, Resting, Hash, Worker, OnFiles, OnQueue
<1> QED
  BY <1>1, Closes, SameFiles, SameTab DEF Inv, files, Close, Ended

----------------------------------------------------------------------------
(* The user's commands, the window's timer and the world.                  *)

LEMMA ByAdd ==
  ASSUME Inv, NEW b \in BOOLEAN, Add(b), wk' = wk PROVE QueueInv' /\ WorkerInv'
<1>1. /\ QueueInv /\ WorkerInv /\ Len(xfers) < MaxTransfers
      /\ xfers' = Append(xfers, NewTransfer(b)) /\ listed' = listed \cup {Len(xfers) + 1}
      /\ jobs' = Append(jobs, Len(xfers) + 1)
  BY DEF Inv, Add, Post
<1>2. QueueInv'
  BY <1>1, Adds
<1>3. Ids \subseteq Ids'
  <2>1. xfers \in Seq(TransferRecs) /\ NewTransfer(b) \in TransferRecs
    BY <1>1, NewRecord DEF QueueInv
  <2>2. PICK q \in Seq(TransferRecs) : q = Append(xfers, NewTransfer(b)) /\ Len(q) = Len(xfers) + 1
    BY <2>1, Appends
  <2>3. Ids' = 1 .. Len(xfers) + 1
    BY <1>1, <2>2 DEF Ids
  <2> QED
    BY <1>1, <2>3, QueueFacts
<1> QED
  BY <1>1, <1>2, <1>3 DEF WorkerInv

LEMMA ByQueue == ASSUME Inv, NEW b \in BOOLEAN, Queue(b) PROVE Inv'
  BY ByAdd, SameFiles, SameTab DEF Inv, Queue

LEMMA ByOpenRemote == ASSUME Inv, OpenRemote PROVE Inv'
<1>1. 0 \in Times
  BY Sizing DEF Times
<1>2. TabInv'
  BY <1>1 DEF Inv, TabInv, OpenRemote, Times
<1> QED
  BY <1>2, ByAdd, SameFiles DEF Inv, OpenRemote

LEMMA ByQueueTree == ASSUME Inv, QueueTree PROVE Inv'
  BY PostsTree, SameFiles, SameTab, SameWorker DEF Inv, QueueTree, Post

\* The switches of the tab.
LEMMA BySwitch ==
  ASSUME Inv, Pause \/ Unpause \/ CloseTab \/ Joined PROVE Inv'
<1>1. UNCHANGED <<files, queue, wk>> /\ TabInv'
  BY DEF Inv, TabInv, Pause, Unpause, CloseTab, Joined, Times
<1>2. UNCHANGED xfers
  BY <1>1 DEF queue
<1> QED
  BY <1>1, <1>2, QueueStays, SameFiles, SameWorker DEF Inv

LEMMA ByRepost == ASSUME Inv, Repost PROVE Inv'
<1> DEFINE ids == PausedOnes
<1>1. ids \subseteq listed /\ \A x \in ids : xfers[x].st \notin Waiting
  BY DEF PausedOnes, Waiting
<1>2. /\ QueueInv /\ jobs' = jobs \o InListOrder(ids) /\ listed' = listed /\ wk' = wk
      /\ xfers' = [x \in Ids |-> IF x \in ids THEN [xfers[x] EXCEPT !.st = "queued"] ELSE xfers[x]]
  BY DEF Inv, Repost, Again
<1> HIDE DEF ids
<1>3. QueueInv'
  <2>1. xfers' = [x \in Ids |->
           IF x \in ids THEN IF FALSE THEN [xfers[x] EXCEPT !.st = "queued", !.cancel = FALSE]
                                      ELSE [xfers[x] EXCEPT !.st = "queued"]
           ELSE xfers[x]]
    BY <1>2
  <2> QED
    BY <1>1, <1>2, <2>1, PostsAgain
<1>4. WorkerInv'
  BY <1>2 DEF Inv, WorkerInv, Ids
<1>5. TabInv'
  BY DEF Inv, TabInv, Repost, Times
<1> QED
  BY <1>3, <1>4, <1>5, SameFiles DEF Inv, Repost

LEMMA ByRetryFailed == ASSUME Inv, RetryFailed PROVE Inv'
<1>1. PICK ids \in SUBSET {x \in listed : xfers[x].st = "failed"} \ {{}} :
        /\ xfers' = [x \in Ids |-> IF x \in ids THEN [xfers[x] EXCEPT !.st = "queued", !.cancel = FALSE]
                                   ELSE xfers[x]]
        /\ jobs' = jobs \o InListOrder(ids)
  BY DEF RetryFailed
<1>2. ids \subseteq listed /\ \A x \in ids : xfers[x].st \notin Waiting
  BY DEF Waiting
<1>3. QueueInv /\ listed' = listed /\ wk' = wk
  BY DEF Inv, RetryFailed
<1>4. QueueInv'
  <2>1. xfers' = [x \in Ids |->
           IF x \in ids THEN IF TRUE THEN [xfers[x] EXCEPT !.st = "queued", !.cancel = FALSE]
                                     ELSE [xfers[x] EXCEPT !.st = "queued"]
           ELSE xfers[x]]
    BY <1>1
  <2> QED
    BY <1>1, <1>2, <1>3, <2>1, PostsAgain
<1>5. WorkerInv'
  BY <1>1, <1>3 DEF Inv, WorkerInv, Ids
<1> QED
  BY <1>4, <1>5, SameFiles, SameTab DEF Inv, RetryFailed

LEMMA ByCancel == ASSUME Inv, Cancel PROVE Inv'
<1>1. PICK ids : Flag(ids)
  BY DEF Cancel
<1>2. UNCHANGED <<files, listed, jobs, paused, watch, wk, tab>>
  BY DEF Cancel
<1>3. WorkerInv'
  BY <1>1, <1>2 DEF Inv, WorkerInv, Flag, Ids
<1> QED
  BY <1>1, <1>2, <1>3, Flags, SameFiles, SameTab DEF Inv

\* Only what has ended is cleared from the list.
LEMMA ByClearQueue == ASSUME Inv, ClearQueue PROVE Inv'
<1>1. UNCHANGED <<files, xfers, jobs, paused, watch, wk, tab>> /\ listed' = listed \ Cleared
  BY DEF ClearQueue
<1>2. QueueInv'
  <2>1. \A x \in Cleared : xfers[x].st \in Ended
    BY DEF Cleared
  <2> HIDE DEF Cleared
  <2> QED
    BY <1>1, <2>1 DEF Inv, QueueInv, Ids, In
<1> QED
  BY <1>1, <1>2, SameFiles, SameTab, SameWorker DEF Inv

LEMMA ByPollEdits == ASSUME Inv, PollEdits PROVE Inv'
<1>1. UNCHANGED <<files, paused, wk, tab>>
  BY DEF PollEdits
<1>2. TabInv'
  <2>1. watch' = [watch EXCEPT !.seen = local.time]
    BY DEF PollEdits, OpenEditor, Reupload
  <2>2. local.time \in Times
    BY DEF Inv, FilesInv, FileRecs
  <2> QED
    BY <1>1, <2>1, <2>2 DEF Inv, TabInv, Times
<1>3. QueueInv' /\ WorkerInv'
  <2>1. CASE UNCHANGED queue
    <3>1. UNCHANGED xfers
      BY <2>1 DEF queue
    <3> QED
      BY <1>1, <2>1, <3>1, QueueStays, SameWorker DEF Inv
  <2>2. CASE Add(FALSE)
    BY <1>1, <2>2, ByAdd
  <2> QED
    BY <2>1, <2>2 DEF PollEdits, OpenEditor, Reupload
<1> QED
  BY <1>1, <1>2, <1>3, SameFiles DEF Inv

LEMMA BySaves == ASSUME Inv, EditorSaves \/ ServerSaves PROVE Inv'
<1>1. UNCHANGED <<queue, paused, watch, wk, tab>> /\ UNCHANGED xfers
  BY DEF EditorSaves, ServerSaves, queue
<1>2. saved + 1 \in Versions /\ Saved(saved + 1) \in FileRecs /\ saved' = saved + 1
  <2>1. saved \in 1 .. Len(Sizes) /\ Len(Sizes) \in Nat
    BY Sizing DEF Inv, FilesInv, Versions
  <2>2. saved < Len(Sizes) /\ saved' = saved + 1
    BY DEF EditorSaves, ServerSaves, Save
  <2>3. saved + 1 \in Versions
    BY <2>1, <2>2 DEF Versions
  <2> QED
    BY <2>2, <2>3, Saves
<1>3. \/ local' = Saved(saved + 1) /\ remote' = remote
      \/ remote' = Saved(saved + 1) /\ local' = local
  BY DEF EditorSaves, ServerSaves, Save
<1>4. FilesInv'
  BY <1>2, <1>3 DEF Inv, FilesInv, Versions, FileRecs, Times
<1> QED
  BY <1>1, <1>4, QueueStays, SameTab, SameWorker DEF Inv

LEMMA Keeps == ASSUME Inv, [Next]_vars PROVE Inv'
<1>1. ASSUME UNCHANGED vars PROVE Inv'
  <2>1. UNCHANGED <<files, queue, paused, watch, wk, tab>> /\ UNCHANGED xfers
    BY <1>1 DEF vars, files, queue
  <2> QED
    BY <2>1, QueueStays, SameFiles, SameTab, SameWorker DEF Inv
<1>2. ASSUME WorkerNext PROVE Inv'
  BY <1>2, ByConnect, ByStop, ByTake, ByStart, ByGate, ByDecide, ByOpenBoth, ByMove,
     ByEndOfFile, ByAbandon, ByFailed, ByFinish, ByHash DEF WorkerNext
<1>3. ASSUME UiNext PROVE Inv'
  BY <1>3, ByQueue, ByOpenRemote, ByQueueTree, BySwitch, ByRepost, ByRetryFailed, ByCancel,
     ByClearQueue, ByPollEdits DEF UiNext
<1> QED
  BY <1>1, <1>2, <1>3, BySaves DEF Next

\* What the invariant says of how often a transfer is held.
LEMMA HeldOnce == ASSUME Inv PROVE OneJob
<1> SUFFICES ASSUME NEW x \in Ids
             PROVE  /\ Held(x) = IF xfers[x].st \in Waiting THEN 1 ELSE 0
                    /\ xfers[x].st \notin Ended => x \in listed
  BY DEF OneJob, Waiting
<1> DEFINE at == {i \in DOMAIN jobs : jobs[i] = x}
<1>1. QueueInv /\ x # 0 /\ DOMAIN jobs = 1 .. Len(jobs)
  BY QueueFacts DEF Inv, QueueInv
<1>2. CASE In(jobs, x)
  <2>1. PICK i \in 1 .. Len(jobs) : jobs[i] = x
    BY <1>2 DEF In
  <2>2. at = {i}
    BY <1>1, <2>1 DEF QueueInv
  <2>3. Cardinality(at) = 1
    BY <2>2, FS_Singleton
  <2>4. wk.x # x /\ xfers[x].st \in Waiting
    BY <1>1, <1>2 DEF QueueInv
  <2> QED
    BY <1>1, <2>3, <2>4 DEF Held, QueueInv
<1>3. CASE ~In(jobs, x)
  <2>1. at = {}
    BY <1>1, <1>3 DEF In
  <2>2. Cardinality(at) = 0
    BY <2>1, FS_EmptySet
  <2>3. xfers[x].st \in Waiting <=> wk.x = x
    BY <1>1, <1>3 DEF QueueInv
  <2> QED
    BY <1>1, <2>2, <2>3 DEF Held, QueueInv
<1> QED
  BY <1>2, <1>3

\* Every transfer of a tab that waits or runs is posted or in the worker's hands once, any
\* other not at all, and one that has not ended is in the list, for any number of transfers
\* and any order in which SetPaused, Retry, Cancel, Clear, the edit watch and the worker
\* thread meet (SftpBrowser.cpp).
THEOREM EachPostedOnce == Spec => []QueueSound
<1>1. Inv => QueueSound
  BY Typed, HeldOnce DEF QueueSound
<1> QED
  BY <1>1, Starts, Keeps, PTL DEF Spec

----------------------------------------------------------------------------
(* What is appended to.                                                    *)

\* s is how t begins.
Begins(s, t) == Len(s) <= Len(t) /\ \A i \in 1 .. Len(s) : s[i] = t[i]

\* A time that no save to come will give a file.
Past(t) == t <= saved \/ t > Len(Sizes)
Over(st) == st \in {"done", "cancelled"}

\* The worker has its copy as it will append to it, or is about to truncate it.
Appending  == wk.at \in {"move", "landed"} \/ (wk.at = "open" /\ wk.from > 0)
Truncating == wk.at = "open" /\ wk.from = 0
Spot == IF wk.at = "open" THEN wk.from ELSE wk.pos

PastInv ==
  /\ Past(local.time) /\ Past(remote.time)
  /\ \A x \in Ids : Past(xfers[x].rec.time) /\ Past(xfers[x].keep)

\* A transfer that is over has no record, and no record is one of an empty file.
RecordInv ==
  \A x \in Ids : /\ Over(xfers[x].st) => xfers[x].rec = NoRecord
                 /\ xfers[x].rec # NoRecord => xfers[x].rec.size > 0

\* The source of transfer x is as it recorded it.
Unmoved(x) == xfers[x].rec # NoRecord /\ xfers[x].rec = Stat(Source(x))
\* As long as its copy is shorter than that, or being written, it is how the source begins.
BeginInv ==
  \A x \in Ids :
    /\ Unmoved(x)
    /\ Len(Dest(x).data) < xfers[x].rec.size \/ (wk.x = x /\ Appending)
    /\ ~(wk.x = x /\ Truncating)
    => Begins(Dest(x).data, Source(x).data)

\* No transfer the other way has a record.
NoneBack(x) == \A y \in Ids : xfers[y].down # xfers[x].down => xfers[y].rec = NoRecord
\* The worker is at the end of its copy, which is no longer than the source, unless
\* somebody saved a shorter one and no transfer the other way may miss what it was.
EndInv ==
  wk.x # 0 /\ Appending =>
    /\ Len(Dest(wk.x).data) = Spot
    /\ Spot <= Len(Source(wk.x).data) \/ NoneBack(wk.x)

\* What it finds the end of the source has been copied.
AllInv == wk.at = "landed" /\ Unmoved(wk.x) => xfers[wk.x].rec.size <= wk.pos

LandInv == PastInv /\ RecordInv /\ BeginInv /\ EndInv

\* The types of it all.
LEMMA LandTypes ==
  ASSUME Inv
  PROVE  /\ saved \in Nat /\ Len(Sizes) \in Nat /\ saved <= Len(Sizes)
         /\ local \in FileRecs /\ remote \in FileRecs
         /\ wk.from \in Nat /\ wk.pos \in Nat /\ wk.at \in Places
         /\ wk.x \in Ids \cup {0} /\ 0 \notin Ids
         /\ \A x \in Ids : /\ xfers[x].down \in BOOLEAN /\ xfers[x].rec \in Records
                           /\ xfers[x].keep \in Nat /\ xfers[x].rec.time \in Nat
                           /\ xfers[x].rec.size \in Nat
                           /\ Source(x) \in FileRecs /\ Dest(x) \in FileRecs
                           /\ Len(Source(x).data) \in Nat /\ Len(Dest(x).data) \in Nat
<1>1. FilesInv /\ WorkerInv /\ QueueInv
  BY DEF Inv
<1>2. \A x \in Ids : xfers[x] \in TransferRecs
  BY <1>1, QueueFacts
<1>3. \A x \in Ids : /\ Source(x) \in FileRecs /\ Dest(x) \in FileRecs
                     /\ Len(Source(x).data) \in Nat /\ Len(Dest(x).data) \in Nat
  BY <1>1, Ends, Stats
<1>4. saved \in 1 .. Len(Sizes) /\ Len(Sizes) \in Nat
  BY <1>1, Sizing DEF FilesInv, Versions
<1> QED
  BY <1>1, <1>2, <1>3, <1>4, QueueFacts, Hands
     DEF FilesInv, WorkerInv, TransferRecs, Records, Times

\* What a later save cannot give stays so.
LEMMA StaysPast ==
  ASSUME Inv, NEW t \in Nat, Past(t), saved' \in Nat, saved <= saved' PROVE Past(t)'
  BY LandTypes DEF Past

\* The files of a transfer, when one is written by the transfer w.
LEMMA Directions ==
  ASSUME Inv, NEW w \in Ids, NEW f, Store(w, f), Ids' = Ids,
         \A x \in Ids : xfers'[x].down = xfers[x].down
  PROVE  \A x \in Ids :
           /\ xfers[x].down = xfers[w].down =>
                /\ Source(x)' = Source(x) /\ Source(x) = Source(w)
                /\ Dest(x)' = f /\ Dest(x) = Dest(w)
           /\ xfers[x].down # xfers[w].down =>
                /\ Source(x)' = f /\ Source(x) = Dest(w)
                /\ Dest(x)' = Dest(x) /\ Dest(x) = Source(w)
  BY LandTypes DEF Store, Source, Dest

\* The files of a transfer, when none is.
LEMMA SameEnds ==
  ASSUME NEW x, xfers'[x].down = xfers[x].down, UNCHANGED <<local, remote>>
  PROVE  Source(x)' = Source(x) /\ Dest(x)' = Dest(x)
  BY DEF Source, Dest

\* A transfer keeps its record, or has none.
RecordsKept ==
  /\ Ids \subseteq Ids' /\ \A x \in Ids : xfers'[x].down = xfers[x].down
  /\ \A x \in Ids' :
       \/ xfers'[x].rec = NoRecord /\ xfers'[x].keep = 0
       \/ /\ x \in Ids /\ xfers'[x].rec = xfers[x].rec /\ xfers'[x].keep = xfers[x].keep
          /\ Over(xfers'[x].st) => Over(xfers[x].st)

\* A step that writes no file: the records are kept, and the worker is
\* where it was, at the end of the source, or where it writes nothing.
LEMMA WritesNothing ==
  ASSUME Inv, LandInv, Inv', UNCHANGED <<local, remote, saved>>, RecordsKept,
         \/ wk' = wk
         \/ wk.at # "open" /\ wk'.at \notin {"open", "move", "landed"}
         \/ wk.at = "move" /\ wk' = [wk EXCEPT !.at = "landed"]
  PROVE  LandInv'
<1> USE DEF RecordsKept
<1>1. PastInv'
  <2>1. \A x \in Ids' : Past(xfers'[x].rec.time) /\ Past(xfers'[x].keep)
    BY LandTypes DEF LandInv, PastInv, Past, NoRecord
  <2> QED
    BY <2>1 DEF LandInv, PastInv, Past
<1>2. RecordInv'
  BY DEF LandInv, RecordInv
<1>3. /\ Truncating' /\ wk'.x # 0 => Truncating /\ wk'.x = wk.x
      /\ Appending' /\ wk'.x # 0 => Appending /\ wk'.x = wk.x /\ Spot' = Spot
      /\ Truncating /\ wk.x # 0 => Truncating' /\ wk'.x = wk.x
  BY LandTypes DEF Truncating, Appending, Spot, Inv, WorkerInv
<1>4. BeginInv'
  <2> SUFFICES ASSUME NEW x \in Ids', Unmoved(x)',
                      Len(Dest(x)'.data) < xfers'[x].rec.size \/ (wk'.x = x /\ Appending'),
                      ~(wk'.x = x /\ Truncating')
               PROVE  Begins(Dest(x).data, Source(x).data)'
    BY DEF BeginInv
  <2>1. x \in Ids /\ xfers'[x].rec = xfers[x].rec /\ x # 0
    BY LandTypes DEF Unmoved
  <2>2. Source(x)' = Source(x) /\ Dest(x)' = Dest(x)
    BY <2>1, SameEnds
  <2>3. Unmoved(x)
    BY <2>1, <2>2 DEF Unmoved, Stat
  <2>4. Len(Dest(x).data) < xfers[x].rec.size \/ (wk.x = x /\ Appending)
    <3>1. wk'.x = x /\ Appending' => wk.x = x /\ Appending
      BY <1>3, <2>1
    <3> QED
      BY <2>1, <2>2, <3>1
  <2>5. ~(wk.x = x /\ Truncating)
    BY <1>3, <2>1
  <2>6. Begins(Dest(x).data, Source(x).data)
    BY <2>1, <2>3, <2>4, <2>5 DEF LandInv, BeginInv
  <2> QED
    BY <2>2, <2>6 DEF Begins
<1>5. EndInv'
  <2> SUFFICES ASSUME wk'.x # 0, Appending'
               PROVE  (/\ Len(Dest(wk.x).data) = Spot
                       /\ Spot <= Len(Source(wk.x).data) \/ NoneBack(wk.x))'
    BY DEF EndInv
  <2>1. Appending /\ wk'.x = wk.x /\ Spot' = Spot /\ wk.x \in Ids /\ wk.x # 0
    BY <1>3, LandTypes
  <2>2. Source(wk.x)' = Source(wk.x) /\ Dest(wk.x)' = Dest(wk.x)
    BY <2>1 DEF Source, Dest
  <2>3. NoneBack(wk.x) => NoneBack(wk.x)'
    BY <2>1 DEF NoneBack
  <2>4. Len(Dest(wk.x).data) = Spot /\ (Spot <= Len(Source(wk.x).data) \/ NoneBack(wk.x))
    BY <2>1 DEF LandInv, EndInv
  <2> QED
    BY <2>1, <2>2, <2>3, <2>4
<1> QED
  BY <1>1, <1>2, <1>4, <1>5 DEF LandInv

\* A step that writes f over the copy: the worker is at its end then, if it goes on, and f
\* is how the source begins wherever that is asked of it.
LEMMA WritesCopy ==
  ASSUME Inv, LandInv, Inv', wk.x # 0, saved' = saved, RecordsKept, Ids' = Ids,
         NEW f \in FileRecs, Store(wk.x, f), Past(f.time),
         Len(f.data) <= Len(Source(wk.x).data) \/ NoneBack(wk.x),
         \A x \in Ids :
           /\ xfers[x].down = xfers[wk.x].down /\ Unmoved(x)
           /\ Len(f.data) < xfers[x].rec.size \/ (wk.x = x /\ Appending')
           => Begins(f.data, Source(x).data),
         wk'.x # 0 /\ Appending' => wk'.x = wk.x /\ Spot' = Len(f.data)
  PROVE  LandInv'
<1> USE DEF RecordsKept
<1>1. /\ wk.x \in Ids /\ Len(f.data) \in Nat
      /\ \A x \in Ids : x # 0 /\ xfers'[x].down = xfers[x].down
  BY LandTypes, Stats
<1>2. PastInv'
  <2>1. \A x \in Ids' : Past(xfers'[x].rec.time) /\ Past(xfers'[x].keep)
    BY LandTypes DEF LandInv, PastInv, Past, NoRecord
  <2>2. local' \in {local, f} /\ remote' \in {remote, f}
    BY DEF Store
  <2> QED
    BY <2>1, <2>2 DEF LandInv, PastInv, Past
<1>3. RecordInv'
  BY DEF LandInv, RecordInv
<1>4. BeginInv'
  <2> SUFFICES ASSUME NEW x \in Ids, Unmoved(x)',
                      Len(Dest(x)'.data) < xfers'[x].rec.size \/ (wk'.x = x /\ Appending')
               PROVE  Begins(Dest(x).data, Source(x).data)'
    BY DEF BeginInv
  <2>1. xfers'[x].rec = xfers[x].rec /\ xfers[x].rec # NoRecord
    BY DEF Unmoved
  <2>2. CASE xfers[x].down = xfers[wk.x].down
    <3>1. Source(x)' = Source(x) /\ Dest(x)' = f
      BY <1>1, <2>2, Directions
    <3>2. Unmoved(x)
      BY <2>1, <3>1 DEF Unmoved, Stat
    <3>3. Len(f.data) < xfers[x].rec.size \/ (wk.x = x /\ Appending')
      BY <1>1, <2>1, <3>1
    <3>4. Begins(f.data, Source(x).data)
      BY <2>2, <3>2, <3>3
    <3> QED
      BY <3>1, <3>4 DEF Begins
  <2>3. CASE xfers[x].down # xfers[wk.x].down
    <3>1. Source(x)' = f /\ Dest(x)' = Source(wk.x)
      BY <1>1, <2>3, Directions
    <3>2. xfers[x].rec.size = Len(f.data)
      BY <2>1, <3>1 DEF Unmoved, Stat
    <3>3. ~NoneBack(wk.x)
      BY <2>1, <2>3 DEF NoneBack
    <3>4. ~(Len(Dest(x)'.data) < xfers'[x].rec.size)
      BY <1>1, <2>1, <3>1, <3>2, <3>3, LandTypes
    <3>5. wk.x = x
      BY <1>1, <3>4
    <3> QED
      BY <2>3, <3>5
  <2> QED
    BY <2>2, <2>3
<1>5. EndInv'
  <2> SUFFICES ASSUME wk'.x # 0, Appending'
               PROVE  (/\ Len(Dest(wk.x).data) = Spot
                       /\ Spot <= Len(Source(wk.x).data) \/ NoneBack(wk.x))'
    BY DEF EndInv
  <2>1. wk'.x = wk.x /\ Spot' = Len(f.data)
    OBVIOUS
  <2>2. Source(wk.x)' = Source(wk.x) /\ Dest(wk.x)' = f
    <3> DEFINE w == wk.x
    <3>1. (Source(w)' = Source(w) /\ Dest(w)' = f) 
      BY <1>1, <2>1 DEF Source, Dest, Store
    <3> QED
      BY <3>1
  <2>3. NoneBack(wk.x) => NoneBack(wk.x)'
    BY <2>1, <1>1 DEF NoneBack
  <2> QED
    BY <2>1, <2>2, <2>3
<1> QED
  BY <1>2, <1>3, <1>4, <1>5 DEF LandInv

\* Nothing is how everything begins, and a beginning goes on with the next of it.
LEMMA BeginsEmpty ==
  ASSUME NEW t \in Seq(Versions), NEW s, s = <<>> PROVE Begins(s, t)
  BY DEF Begins
LEMMA BeginsOn ==
  ASSUME NEW s \in Seq(Versions), NEW t \in Seq(Versions), Begins(s, t), Len(s) < Len(t)
  PROVE  Begins(Append(s, t[Len(s) + 1]), t)
<1>1. t[Len(s) + 1] \in Versions
  OBVIOUS
<1>2. PICK u \in Seq(Versions) : /\ u = Append(s, t[Len(s) + 1]) /\ Len(u) = Len(s) + 1
                                 /\ \A i \in 1 .. Len(s) : u[i] = s[i]
                                 /\ u[Len(s) + 1] = t[Len(s) + 1]
  BY <1>1, Appends
<1>3. Begins(u, t)
  BY <1>2 DEF Begins
<1> QED
  BY <1>2, <1>3

LEMMA LandStarts == ASSUME Init PROVE LandInv
<1>1. xfers = <<>> /\ wk.x = 0 /\ saved = 1 /\ local.time <= 1 /\ remote.time <= 1
  BY DEF Init, Idle, Missing, Saved
<1>2. Ids = {}
  BY <1>1 DEF Ids
<1> QED
  BY <1>1, <1>2 DEF LandInv, PastInv, Past, RecordInv, BeginInv, EndInv

----------------------------------------------------------------------------
(* The records, through the queue's steps.                                 *)

LEMMA KeptSame == ASSUME Inv, UNCHANGED xfers PROVE RecordsKept /\ Ids' = Ids
  BY DEF RecordsKept, Ids

LEMMA KeptAdded ==
  ASSUME Inv, NEW b \in BOOLEAN, xfers' = Append(xfers, NewTransfer(b)) PROVE RecordsKept
<1>1. xfers \in Seq(TransferRecs) /\ NewTransfer(b) \in TransferRecs
  BY NewRecord DEF Inv, QueueInv
<1>2. PICK q \in Seq(TransferRecs) : /\ q = Append(xfers, NewTransfer(b)) /\ Len(q) = Len(xfers) + 1
                                     /\ \A i \in 1 .. Len(xfers) : q[i] = xfers[i]
                                     /\ q[Len(xfers) + 1] = NewTransfer(b)
  BY <1>1, Appends
<1>3. Ids = 1 .. Len(xfers) /\ Ids' = 1 .. Len(xfers) + 1 /\ Len(xfers) \in Nat
  BY <1>1, <1>2 DEF Ids
<1>4. NewTransfer(b).rec = NoRecord /\ NewTransfer(b).keep = 0
  BY DEF NewTransfer
<1> HIDE DEF NewTransfer
<1> QED
  BY <1>2, <1>3, <1>4 DEF RecordsKept

\* One transfer is changed, and keeps its record or loses it.
LEMMA KeptOne ==
  ASSUME Inv, NEW w \in Ids, NEW r, xfers' = [xfers EXCEPT ![w] = r], r.down = xfers[w].down,
         \/ r.rec = NoRecord /\ r.keep = 0
         \/ r.rec = xfers[w].rec /\ r.keep = xfers[w].keep /\ ~Over(r.st)
  PROVE  RecordsKept /\ Ids' = Ids
<1>1. Ids' = Ids /\ \A x \in Ids : xfers'[x] = IF x = w THEN r ELSE xfers[x]
  BY DEF Ids, Inv, QueueInv
<1> QED
  BY <1>1 DEF RecordsKept

LEMMA KeptClosed ==
  ASSUME Inv, NEW w \in Ids, NEW st, Close(w, st) PROVE RecordsKept /\ Ids' = Ids
<1> DEFINE r == [NewTransfer(xfers[w].down) EXCEPT !.st = st]
<1>1. r.down = xfers[w].down /\ r.rec = NoRecord /\ r.keep = 0
  BY DEF NewTransfer
<1>2. xfers' = [xfers EXCEPT ![w] = r]
  BY DEF Close, Inv, QueueInv
<1> HIDE DEF r
<1> QED
  BY <1>1, <1>2, KeptOne

LEMMA KeptSet ==
  ASSUME Inv, NEW w \in Ids, NEW st, Set(w, st), ~Over(st) PROVE RecordsKept /\ Ids' = Ids
<1> DEFINE r == [xfers[w] EXCEPT !.st = st]
<1>1. xfers[w] \in TransferRecs
  BY QueueFacts DEF Inv
<1>2. r.down = xfers[w].down /\ r.rec = xfers[w].rec /\ r.keep = xfers[w].keep /\ r.st = st
  BY <1>1 DEF TransferRecs
<1>3. xfers' = [xfers EXCEPT ![w] = r]
  BY DEF Set, Inv, QueueInv
<1> HIDE DEF r
<1> QED
  BY <1>2, <1>3, KeptOne

\* Some are posted again or flagged.
LEMMA KeptMany ==
  ASSUME Inv, NEW ids,
         \/ xfers' = [x \in Ids |-> IF x \in ids THEN [xfers[x] EXCEPT !.st = "queued"] ELSE xfers[x]]
         \/ xfers' = [x \in Ids |-> IF x \in ids THEN [xfers[x] EXCEPT !.st = "queued", !.cancel = FALSE]
                                    ELSE xfers[x]]
         \/ xfers' = [x \in Ids |-> IF x \in ids THEN [xfers[x] EXCEPT !.cancel = TRUE] ELSE xfers[x]]
  PROVE  RecordsKept
<1>1. Ids' = Ids /\ \A x \in Ids : xfers[x] \in TransferRecs
  BY QueueFacts DEF Inv, Ids
<1>2. \A x \in Ids : /\ xfers'[x].down = xfers[x].down /\ xfers'[x].rec = xfers[x].rec
                     /\ xfers'[x].keep = xfers[x].keep
                     /\ xfers'[x].st = xfers[x].st \/ xfers'[x].st = "queued"
  BY <1>1 DEF TransferRecs
<1> QED
  BY <1>1, <1>2 DEF RecordsKept, Over

----------------------------------------------------------------------------
(* The steps that write no file.                                           *)

LEMMA LandByConnect == ASSUME Inv, LandInv, Inv', Connect \/ Stop PROVE LandInv'
<1>1. /\ UNCHANGED <<xfers, local, remote, saved>> /\ wk.at \in {"connecting", "idle"}
      /\ wk'.at \in {"idle", "out"}
  BY DEF Connect, Stop, Worker, OnQueue, OnFiles, Idles, Idle, Inv, WorkerInv
<1> QED
  BY <1>1, KeptSame, WritesNothing

LEMMA LandByTake == ASSUME Inv, LandInv, Inv', Take PROVE LandInv'
<1>1. /\ UNCHANGED <<local, remote, saved>> /\ wk.at = "idle"
      /\ xfers' = xfers \/ xfers' = Append(xfers, NewTransfer(TRUE))
      /\ wk'.at \in {"idle", "start"}
  <2>1. UNCHANGED <<local, remote, saved>> /\ wk.at = "idle"
    BY DEF Take, Worker, files
  <2>2. CASE Head(jobs) = 0 /\ Planned
    BY <2>1, <2>2 DEF Planned, Idles, Idle
  <2>3. CASE wk' = [Idle EXCEPT !.at = "start", !.x = Head(jobs)] /\ UNCHANGED xfers
    BY <2>1, <2>3 DEF Idle
  <2> QED
    BY <2>1, <2>2, <2>3 DEF Take
<1>2. RecordsKept
  BY <1>1, KeptSame, KeptAdded
<1> QED
  BY <1>1, <1>2, WritesNothing

\* The worker's transfer ends, stops or goes on without a write.
LEMMA LandByStart == ASSUME Inv, LandInv, Inv', Start \/ Gate \/ Failed \/ Hash PROVE LandInv'
<1>1. /\ UNCHANGED <<local, remote, saved>> /\ wk.at \in {"start", "gate", "over", "hash"}
      /\ wk.x \in Ids
  BY Hands DEF Start, Gate, Failed, Hash, Worker, OnQueue, OnFiles, Inv, WorkerInv, Resting
<1>2. wk'.at \in {"gate", "decide", "idle"}
  BY DEF Start, Gate, Failed, Hash, Idles, Idle, Inv, WorkerInv
<1>3. RecordsKept
  <2>1. \/ UNCHANGED xfers \/ Close(wk.x, "cancelled") \/ Close(wk.x, "done")
        \/ Set(wk.x, "paused") \/ Set(wk.x, "failed")
    BY DEF Start, Gate, Failed, Hash
  <2> QED
    BY <1>1, <2>1, KeptSame, KeptClosed, KeptSet DEF Over
<1> QED
  BY <1>1, <1>2, <1>3, WritesNothing

LEMMA LandByEndOfFile == ASSUME Inv, LandInv, Inv', EndOfFile PROVE LandInv'
  BY KeptSame, WritesNothing DEF EndOfFile, Worker, OnQueue, OnFiles

LEMMA UiKeeps == ASSUME Inv, UiNext PROVE RecordsKept /\ UNCHANGED <<local, remote, saved, wk>>
<1>1. UNCHANGED <<local, remote, saved, wk>>
  BY DEF UiNext, Queue, OpenRemote, QueueTree, Pause, Unpause, Repost, RetryFailed, Cancel,
         ClearQueue, PollEdits, CloseTab, Joined, files
<1>2. \/ UNCHANGED xfers \/ Add(TRUE) \/ Add(FALSE) \/ Again(PausedOnes) \/ RetryFailed \/ Cancel
  BY DEF UiNext, Queue, OpenRemote, QueueTree, Pause, Unpause, Repost, ClearQueue, PollEdits,
         OpenEditor, Reupload, CloseTab, Joined, queue
<1>3. RecordsKept
  <2>1. CASE UNCHANGED xfers
    BY <2>1, KeptSame
  <2>2. CASE Add(TRUE) \/ Add(FALSE)
    BY <2>2, KeptAdded DEF Add
  <2>3. CASE Again(PausedOnes)
    BY <2>3, KeptMany DEF Again
  <2>4. CASE RetryFailed
    BY <2>4, KeptMany DEF RetryFailed
  <2>5. CASE Cancel
    BY <2>5, KeptMany DEF Cancel, Flag
  <2> QED
    BY <1>2, <2>1, <2>2, <2>3, <2>4, <2>5
<1> QED
  BY <1>1, <1>3

LEMMA LandByUi == ASSUME Inv, LandInv, Inv', UiNext PROVE LandInv'
  BY UiKeeps, WritesNothing

----------------------------------------------------------------------------
(* The steps that do.                                                      *)

\* What the worker has in its hands is not over.
LEMMA HandsOn ==
  ASSUME Inv, wk.x \in Ids PROVE ~Over(xfers[wk.x].st) /\ wk.x # 0
  BY QueueFacts DEF Inv, QueueInv, Waiting, Over

\* An attempt that resumes finds its copy to be how the source begins, as the record that
\* says so was taken of the source as it is.
LEMMA LandByDecide == ASSUME Inv, LandInv, Inv', Decide PROVE LandInv'
<1> DEFINE w == wk.x
<1>1. /\ wk.at = "decide" /\ w \in Ids /\ w # 0 /\ UNCHANGED <<local, remote, saved>>
  BY Hands DEF Inv, WorkerInv, Resting, Decide, Worker, OnQueue, OnFiles
<1>2. PICK src \in {Stat(Source(w)), NoRecord} :
        /\ wk' = [wk EXCEPT !.at = "open", !.from = Offset(Len(Dest(w).data), src, xfers[w].rec)]
        /\ xfers' = [xfers EXCEPT ![w].st = "running",
                                  ![w].rec = IF src.size # 0 THEN src ELSE NoRecord,
                                  ![w].keep = IF src.size # 0 THEN src.time ELSE @]
  BY DEF Decide
<1> DEFINE d == Offset(Len(Dest(w).data), src, xfers[w].rec)
           rec == IF src.size # 0 THEN src ELSE NoRecord
           keep == IF src.size # 0 THEN src.time ELSE xfers[w].keep
<1>3. /\ Ids' = Ids /\ \A x \in Ids : xfers'[x].down = xfers[x].down
      /\ \A x \in Ids \ {w} : xfers'[x] = xfers[x]
      /\ xfers'[w].rec = rec /\ xfers'[w].keep = keep /\ xfers'[w].st = "running"
  <2> DEFINE r == [xfers[w] EXCEPT !.st = "running", !.rec = rec, !.keep = keep]
  <2>1. xfers' = [xfers EXCEPT ![w] = r]
    BY <1>1, <1>2
  <2>2. xfers[w] \in TransferRecs
    BY <1>1, QueueFacts DEF Inv
  <2>3. r.down = xfers[w].down /\ r.rec = rec /\ r.keep = keep /\ r.st = "running"
    BY <2>2 DEF TransferRecs
  <2> HIDE DEF r, rec, keep
  <2>4. Ids' = Ids /\ \A x \in Ids : xfers'[x] = IF x = w THEN r ELSE xfers[x]
    BY <2>1 DEF Ids, Inv, QueueInv
  <2> QED
    BY <1>1, <2>3, <2>4
<1>4. wk'.at = "open" /\ wk'.from = d /\ wk'.x = w
  BY <1>2 DEF Inv, WorkerInv
<1>5. \A x \in Ids : Source(x)' = Source(x) /\ Dest(x)' = Dest(x)
  BY <1>1, <1>3, SameEnds
<1>6. src.size \in Nat /\ src.time \in Nat /\ Past(src.time)
  <2>1. NoRecord.size = 0 /\ NoRecord.time = 0 /\ Past(0)
    BY LandTypes DEF NoRecord, Past
  <2>2. Source(w) \in {local, remote} /\ Source(w) \in FileRecs
    BY <1>1, LandTypes DEF Source
  <2>3. Stat(Source(w)).size \in Nat /\ Stat(Source(w)).time = Source(w).time /\ Source(w).time \in Nat
    BY <2>2, Stats DEF Stat, FileRecs, Times
  <2> QED
    BY <2>1, <2>2, <2>3 DEF LandInv, PastInv
\* What a resumed attempt starts from.
<1>7. ASSUME d > 0
      PROVE  /\ d = Len(Dest(w).data) /\ d < src.size /\ src = Stat(Source(w)) /\ rec = src
             /\ Begins(Dest(w).data, Source(w).data)
  <2>1. /\ d = Len(Dest(w).data) /\ d < src.size /\ xfers[w].rec # NoRecord
        /\ xfers[w].rec.size = src.size /\ xfers[w].rec.time = src.time
    BY <1>1, <1>7, LandTypes DEF Offset, Resumes
  <2>2. src = Stat(Source(w)) /\ rec = src
    BY <1>1, <2>1, LandTypes DEF NoRecord
  <2>3. xfers[w].rec = src
    BY <1>1, <2>1, <2>2, LandTypes DEF Records, Stat
  <2>4. Begins(Dest(w).data, Source(w).data)
    BY <1>1, <2>1, <2>2, <2>3 DEF LandInv, BeginInv, Unmoved, Truncating
  <2> QED
    BY <2>1, <2>2, <2>4
<1>8. d \in Nat
  BY <1>1, LandTypes DEF Offset
<1> HIDE DEF d
<1>9. PastInv'
  <2>1. Past(rec.time) /\ Past(keep)
    BY <1>1, <1>6, LandTypes DEF LandInv, PastInv, NoRecord, Past
  <2> HIDE DEF rec, keep
  <2> QED
    BY <1>1, <1>3, <2>1 DEF LandInv, PastInv, Past
<1>10. RecordInv'
  <2>1. rec # NoRecord => rec.size > 0
    BY <1>6
  <2> HIDE DEF rec
  <2> QED
    BY <1>1, <1>3, <2>1 DEF LandInv, RecordInv, Over
<1>11. BeginInv'
  <2> SUFFICES ASSUME NEW x \in Ids, Unmoved(x)',
                      Len(Dest(x)'.data) < xfers'[x].rec.size \/ (wk'.x = x /\ Appending'),
                      ~(wk'.x = x /\ Truncating')
               PROVE  Begins(Dest(x).data, Source(x).data)'
    BY <1>3 DEF BeginInv
  <2>1. CASE x = w
    <3>1. d > 0
      BY <1>4, <1>8, <2>1 DEF Truncating
    <3> QED
      BY <1>5, <1>7, <2>1, <3>1 DEF Begins
  <2>2. CASE x # w
    <3>1. Unmoved(x) /\ Len(Dest(x).data) < xfers[x].rec.size
      BY <1>3, <1>4, <1>5, <2>2 DEF Unmoved, Stat
    <3>2. Begins(Dest(x).data, Source(x).data)
      BY <2>2, <3>1 DEF LandInv, BeginInv
    <3> QED
      BY <1>5, <3>2 DEF Begins
  <2> QED
    BY <2>1, <2>2
<1>12. EndInv'
  <2> SUFFICES ASSUME Appending'
               PROVE  (Len(Dest(wk.x).data) = Spot /\ Spot <= Len(Source(wk.x).data))'
    BY DEF EndInv
  <2>1. d > 0 /\ Spot' = d
    BY <1>4 DEF Appending, Spot
  <2>2. Dest(wk.x)' = Dest(w) /\ Source(wk.x)' = Source(w)
    BY <1>1, <1>3, <1>4 DEF Source, Dest
  <2>3. d = Len(Dest(w).data) /\ d <= Len(Source(w).data)
    BY <1>1, <1>7, <1>8, <2>1, LandTypes DEF Stat
  <2> QED
    BY <2>1, <2>2, <2>3
<1> QED
  BY <1>9, <1>10, <1>11, <1>12 DEF LandInv

\* A fresh attempt truncates its copy, a resumed one has found its end; an attempt that
\* recorded a source does not find it empty.
LEMMA LandByOpenBoth == ASSUME Inv, LandInv, Inv', OpenBoth, "open" \notin Troubles PROVE LandInv'
<1> DEFINE w == wk.x
<1>1. /\ wk.at = "open" /\ w \in Ids /\ w # 0 /\ saved' = saved /\ UNCHANGED xfers
      /\ wk.from \in Nat
  BY Hands DEF Inv, WorkerInv, Resting, OpenBoth, Worker, OnFiles
<1>2. RecordsKept /\ Ids' = Ids
  BY <1>1, KeptSame
<1>3. CASE /\ wk' = [wk EXCEPT !.at = "move", !.pos = wk.from]
           /\ IF wk.from > 0 THEN UNCHANGED <<local, remote>> ELSE Store(w, Missing)
  <2>1. wk'.at = "move" /\ wk'.pos = wk.from /\ wk'.x = w
    BY <1>3 DEF Inv, WorkerInv
  <2>2. Appending' /\ Spot' = wk.from
    BY <2>1 DEF Appending, Spot
  <2>3. CASE wk.from > 0
    <3>1. Appending /\ Spot = wk.from /\ UNCHANGED <<local, remote>> /\ ~Truncating
      BY <1>1, <1>3, <2>3 DEF Appending, Spot, Truncating
    <3>2. \A x \in Ids : Source(x)' = Source(x) /\ Dest(x)' = Dest(x)
      BY <1>1, <3>1, SameEnds
    <3>3. PastInv' /\ RecordInv'
      BY <1>1, <1>2, <3>1 DEF LandInv, PastInv, RecordInv, Past
    <3>4. BeginInv'
      <4> SUFFICES ASSUME NEW x \in Ids, Unmoved(x)',
                          Len(Dest(x)'.data) < xfers'[x].rec.size \/ (wk'.x = x /\ Appending')
                   PROVE  Begins(Dest(x).data, Source(x).data)'
        BY <1>2 DEF BeginInv
      <4>1. Unmoved(x) /\ (Len(Dest(x).data) < xfers[x].rec.size \/ wk.x = x)
        BY <1>1, <2>1, <3>2 DEF Unmoved, Stat
      <4>2. Begins(Dest(x).data, Source(x).data)
        BY <3>1, <4>1 DEF LandInv, BeginInv
      <4> QED
        BY <3>2, <4>2 DEF Begins
    <3>5. EndInv'
      <4>1. Source(wk.x)' = Source(w) /\ Dest(wk.x)' = Dest(w)
        BY <1>1, <2>1, <3>1 DEF Source, Dest
      <4>2. NoneBack(wk.x)' <=> NoneBack(w)
        BY <1>1, <1>2, <2>1 DEF NoneBack
      <4> QED
        BY <1>1, <2>1, <2>2, <3>1, <4>1, <4>2 DEF LandInv, EndInv
    <3> QED
      BY <3>3, <3>4, <3>5 DEF LandInv
  <2>4. CASE ~(wk.from > 0)
    <3>1. Store(w, Missing) /\ wk.from = 0
      BY <1>1, <1>3, <2>4
    <3>2. Missing \in FileRecs /\ Len(Missing.data) = 0 /\ Missing.data = <<>> /\ Missing.time = 0
      BY Empty DEF Missing
    <3>3. Past(Missing.time)
      BY <3>2, LandTypes DEF Past
    <3>4. \A x \in Ids : Begins(Missing.data, Source(x).data)
      BY <3>2, BeginsEmpty, LandTypes DEF FileRecs
    <3>5. Len(Missing.data) <= Len(Source(w).data)
      BY <1>1, <3>2, LandTypes
    <3> HIDE DEF w
    <3> QED
      BY <1>1, <1>2, <2>1, <2>2, <3>1, <3>2, <3>3, <3>4, <3>5, WritesCopy DEF w
  <2> QED
    BY <2>3, <2>4
<1>4. CASE ~(/\ wk' = [wk EXCEPT !.at = "move", !.pos = wk.from]
             /\ IF wk.from > 0 THEN UNCHANGED <<local, remote>> ELSE Store(w, Missing))
  <2>1. /\ wk' = [wk EXCEPT !.at = "over"] /\ UNCHANGED <<local, remote>>
        /\ wk.from > 0 \/ Len(Source(w).data) = 0
    BY <1>1, <1>4, LandTypes DEF OpenBoth, Fails
  <2>2. wk'.at = "over"
    BY <2>1 DEF Inv, WorkerInv
  <2>3. ~Appending' /\ ~Truncating'
    BY <2>2 DEF Appending, Truncating
  <2>4. \A x \in Ids : Source(x)' = Source(x) /\ Dest(x)' = Dest(x)
    BY <1>1, <2>1, SameEnds
  <2>5. PastInv' /\ RecordInv'
    BY <1>1, <1>2, <2>1 DEF LandInv, PastInv, RecordInv, Past
  <2>6. BeginInv'
    <3> SUFFICES ASSUME NEW x \in Ids, Unmoved(x)', Len(Dest(x)'.data) < xfers'[x].rec.size
                 PROVE  Begins(Dest(x).data, Source(x).data)'
      BY <1>2, <2>3 DEF BeginInv
    <3>1. Unmoved(x) /\ Len(Dest(x).data) < xfers[x].rec.size
      BY <1>1, <2>4 DEF Unmoved, Stat
    <3>2. xfers[x].rec.size = Len(Source(x).data) /\ xfers[x].rec.size > 0
      BY <3>1 DEF LandInv, RecordInv, Unmoved, Stat
    <3>3. ~(wk.x = x /\ Truncating)
      BY <2>1, <3>2 DEF Truncating
    <3>4. Begins(Dest(x).data, Source(x).data)
      BY <3>1, <3>3 DEF LandInv, BeginInv
    <3> QED
      BY <2>4, <3>4 DEF Begins
  <2>7. EndInv'
    BY <2>3 DEF EndInv
  <2> QED
    BY <2>5, <2>6, <2>7 DEF LandInv
<1> QED
  BY <1>3, <1>4

\* A block goes to the end of the copy, and the copy of no transfer the other way was
\* shorter than what it is now.
LEMMA LandByMove == ASSUME Inv, LandInv, Inv', Move PROVE LandInv'
<1> DEFINE w == wk.x
           v == Source(w).data[wk.pos + 1]
           f == Put(w, Dest(w), wk.pos, v)
<1>1. /\ wk.at = "move" /\ w \in Ids /\ w # 0 /\ saved' = saved /\ UNCHANGED xfers
      /\ wk.pos \in Nat /\ wk.pos < Len(Source(w).data)
  BY Hands DEF Inv, WorkerInv, Resting, Move, Worker, OnFiles
<1>2. RecordsKept /\ Ids' = Ids
  BY <1>1, KeptSame
<1>3. Appending /\ ~Truncating /\ Len(Dest(w).data) = wk.pos
  BY <1>1 DEF Appending, Truncating, Spot, LandInv, EndInv
<1>4. CASE /\ Store(w, f)
           /\ wk' = IF GoesOn(w) THEN [wk EXCEPT !.pos = @ + 1]
                    ELSE [wk EXCEPT !.pos = @ + 1, !.at = "closing"]
  <2>1. v \in Versions /\ Dest(w) \in FileRecs /\ Source(w) \in FileRecs
    BY <1>1, Block, LandTypes DEF Inv
  <2>2. f \in FileRecs
    BY <1>1, <2>1, Puts
  <2>3. f.data = Append(Dest(w).data, v) /\ f.time = Now(v)
    BY <1>1, <1>3 DEF Put
  <2>4. Len(f.data) = wk.pos + 1
    BY <1>3, <2>1, <2>3, Appends DEF FileRecs
  <2>5. Past(f.time)
    BY <2>1, <2>3, LandTypes DEF Now, Past, Versions
  <2>6. wk'.x = w /\ wk'.pos = wk.pos + 1 /\ wk'.at \in {"move", "closing"}
    <3>1. CASE wk' = [wk EXCEPT !.pos = @ + 1]
      BY <1>1, <3>1 DEF Inv, WorkerInv
    <3>2. CASE wk' = [wk EXCEPT !.pos = @ + 1, !.at = "closing"]
      BY <1>1, <3>2 DEF Inv, WorkerInv
    <3> QED
      BY <1>4, <3>1, <3>2
  <2>7. Spot' = wk.pos + 1
    BY <2>6 DEF Spot
  <2>8. ASSUME NEW x \in Ids, xfers[x].down = xfers[w].down, Unmoved(x),
               Len(f.data) < xfers[x].rec.size \/ wk.x = x
        PROVE  Begins(f.data, Source(x).data)
    <3>1. Source(x) = Source(w) /\ Dest(x) = Dest(w)
      BY <2>8 DEF Source, Dest
    <3>2. Len(Dest(x).data) < xfers[x].rec.size \/ wk.x = x
      BY <1>1, <1>3, <2>4, <2>8, <3>1, LandTypes
    <3>3. Begins(Dest(w).data, Source(w).data)
      BY <1>3, <2>8, <3>1, <3>2 DEF LandInv, BeginInv
    <3>4. Dest(w).data \in Seq(Versions) /\ Source(w).data \in Seq(Versions)
      BY <2>1 DEF FileRecs
    <3>5. Begins(Append(Dest(w).data, v), Source(w).data)
      BY <1>1, <1>3, <3>3, <3>4, BeginsOn
    <3> QED
      BY <2>3, <3>1, <3>5
  <2> HIDE DEF f, v
  <2> QED
    BY <1>1, <1>2, <1>4, <2>2, <2>4, <2>5, <2>6, <2>7, <2>8, WritesCopy
<1>5. CASE Fails("move", "closing") /\ UNCHANGED <<local, remote>>
  BY <1>1, <1>2, <1>5, WritesNothing DEF Fails
<1> QED
  BY <1>4, <1>5 DEF Move

LEMMA LandByAbandon == ASSUME Inv, LandInv, Inv', Abandon PROVE LandInv'
<1>1. /\ wk.at = "closing" /\ wk.x \in Ids /\ wk.x # 0 /\ saved' = saved /\ UNCHANGED xfers
      /\ wk' = [wk EXCEPT !.at = "over"]
      /\ UNCHANGED <<local, remote>> \/ Store(wk.x, Missing)
  BY Hands DEF Inv, WorkerInv, Resting, Abandon, Worker, OnFiles, Store
<1>2. RecordsKept /\ Ids' = Ids
  BY <1>1, KeptSame
<1>3. wk'.at = "over" /\ ~Appending'
  BY <1>1 DEF Inv, WorkerInv, Appending
<1>4. CASE UNCHANGED <<local, remote>>
  BY <1>1, <1>2, <1>3, <1>4, WritesNothing
<1>5. CASE Store(wk.x, Missing)
  <2>1. Missing \in FileRecs /\ Len(Missing.data) = 0 /\ Missing.data = <<>> /\ Missing.time = 0
    BY Empty DEF Missing
  <2>2. Past(Missing.time)
    BY <2>1, LandTypes DEF Past
  <2>3. \A x \in Ids : Begins(Missing.data, Source(x).data)
    BY <2>1, BeginsEmpty, LandTypes DEF FileRecs
  <2>4. Len(Missing.data) <= Len(Source(wk.x).data)
    BY <1>1, <2>1, LandTypes
  <2> QED
    BY <1>1, <1>2, <1>3, <1>5, <2>1, <2>2, <2>3, <2>4, WritesCopy
<1> QED
  BY <1>1, <1>4, <1>5

\* The copy gets the source's time, and is not shorter than any copy of it.
LEMMA LandByFinish == ASSUME Inv, LandInv, Inv', Finish PROVE LandInv'
<1> DEFINE w == wk.x
           f == [Dest(w) EXCEPT !.time = xfers[w].keep]
<1>1. wk.at = "landed" /\ w \in Ids /\ w # 0 /\ saved' = saved
  BY Hands DEF Inv, WorkerInv, Resting, Finish, Worker, OnFiles
<1>2. RecordsKept /\ Ids' = Ids
  <2>1. Set(w, "verifying") \/ Close(w, "done")
    BY DEF Finish
  <2> QED
    BY <1>1, <2>1, KeptSet, KeptClosed DEF Over
<1>3. wk'.at \in {"hash", "idle"} /\ ~Appending'
  <2>1. wk'.at \in {"hash", "idle"}
    BY DEF Finish, Idles, Idle, Inv, WorkerInv
  <2> QED
    BY <2>1 DEF Appending
<1>4. CASE UNCHANGED <<local, remote>>
  BY <1>1, <1>2, <1>3, <1>4, WritesNothing
<1>5. CASE Store(w, f)
  <2>1. Dest(w) \in FileRecs /\ xfers[w].keep \in Times
    BY <1>1, LandTypes, QueueFacts DEF Inv, TransferRecs
  <2>2. f \in FileRecs /\ f.data = Dest(w).data /\ f.time = xfers[w].keep
    BY <2>1 DEF FileRecs
  <2>3. Past(f.time)
    BY <1>1, <2>2 DEF LandInv, PastInv
  <2>4. Len(f.data) <= Len(Source(w).data) \/ NoneBack(w)
    BY <1>1, <2>2 DEF LandInv, EndInv, Appending
  <2>5. ASSUME NEW x \in Ids, xfers[x].down = xfers[w].down, Unmoved(x),
               Len(f.data) < xfers[x].rec.size
        PROVE  Begins(f.data, Source(x).data)
    <3>1. Dest(x) = Dest(w) /\ ~Truncating
      BY <1>1, <2>5 DEF Dest, Truncating
    <3>2. Begins(Dest(x).data, Source(x).data)
      BY <2>2, <2>5, <3>1 DEF LandInv, BeginInv
    <3> QED
      BY <2>2, <3>1, <3>2
  <2> HIDE DEF f
  <2> QED
    BY <1>1, <1>2, <1>3, <1>5, <2>2, <2>3, <2>4, <2>5, WritesCopy
<1> QED
  BY <1>4, <1>5 DEF Finish, Preserve

\* Somebody saves the file the transfers b write: none of those has a record, and no
\* transfer the other way recorded what it reads now.
LEMMA LandBySave ==
  ASSUME Inv, LandInv, Inv', NEW b \in BOOLEAN, NEW g \in FileRecs, Unwritten(b),
         saved < Len(Sizes), saved' = saved + 1, g.time = saved + 1, UNCHANGED <<xfers, wk>>,
         IF b THEN local' = g /\ remote' = remote ELSE remote' = g /\ local' = local
  PROVE  LandInv' /\ \A x \in Ids : ~(xfers[x].down # b /\ Unmoved(x)')
<1>1. Ids' = Ids /\ saved \in Nat /\ Len(Sizes) \in Nat
  BY LandTypes DEF Ids
<1>2. \A x \in Ids : xfers[x].down = b => xfers[x].rec = NoRecord /\ Over(xfers[x].st)
  BY DEF Unwritten, Over, LandInv, RecordInv
<1>3. \A x \in Ids : xfers[x].down # b => Source(x)' = g /\ Dest(x)' = Dest(x)
  BY LandTypes DEF Source, Dest
<1>4. PastInv'
  <2>1. Past(g.time)'
    BY <1>1 DEF Past
  <2>2. \A t \in Nat : Past(t) => Past(t)'
    BY <1>1 DEF Past
  <2>3. local.time \in Nat /\ remote.time \in Nat
    BY LandTypes DEF FileRecs, Times
  <2>4. \A x \in Ids : (Past(xfers[x].rec.time) /\ Past(xfers[x].keep))'
    BY <2>2, LandTypes DEF LandInv, PastInv
  <2>5. Past(local.time)' /\ Past(remote.time)'
    BY <2>1, <2>2, <2>3 DEF LandInv, PastInv
  <2> QED
    BY <1>1, <2>4, <2>5 DEF PastInv
<1>5. RecordInv'
  BY <1>1 DEF LandInv, RecordInv
<1>6. \A x \in Ids : ~(xfers[x].down # b /\ Unmoved(x)')
  <2> SUFFICES ASSUME NEW x \in Ids, xfers[x].down # b, Unmoved(x)' PROVE FALSE
    OBVIOUS
  <2>1. xfers[x].rec.time = saved + 1
    BY <1>3 DEF Unmoved, Stat
  <2>2. Past(xfers[x].rec.time)
    BY DEF LandInv, PastInv
  <2> QED
    BY <1>1, <2>1, <2>2 DEF Past
<1>7. BeginInv'
  <2>1. \A x \in Ids : ~Unmoved(x)'
    BY <1>2, <1>6 DEF Unmoved
  <2> QED
    BY <1>1, <2>1 DEF BeginInv
<1>8. EndInv'
  <2> SUFFICES ASSUME wk.x # 0, Appending
               PROVE  (Len(Dest(wk.x).data) = Spot /\ NoneBack(wk.x))'
    BY DEF EndInv, Appending
  <2>1. wk.x \in Ids /\ xfers[wk.x].down # b
    BY <1>2, HandsOn, LandTypes
  <2>2. Dest(wk.x)' = Dest(wk.x) /\ Spot' = Spot
    BY <1>3, <2>1 DEF Spot, Dest
  <2>3. NoneBack(wk.x)'
    BY <1>1, <1>2, <2>1, LandTypes DEF NoneBack
  <2> QED
    BY <2>2, <2>3 DEF LandInv, EndInv
<1> QED
  BY <1>4, <1>5, <1>6, <1>7, <1>8 DEF LandInv

LEMMA LandBySaves ==
  ASSUME Inv, LandInv, Inv', EditorSaves \/ ServerSaves
  PROVE  LandInv' /\ (wk'.at = "landed" => ~Unmoved(wk.x)')
<1>1. saved + 1 \in Versions /\ Saved(saved + 1).time = saved + 1 /\ UNCHANGED <<xfers, wk>>
      /\ saved < Len(Sizes) /\ saved' = saved + 1
  <2>1. UNCHANGED <<xfers, wk>> /\ saved < Len(Sizes) /\ saved' = saved + 1
    BY DEF EditorSaves, ServerSaves, Save, queue
  <2> QED
    BY <2>1, LandTypes DEF Saved, Versions, Inv, FilesInv
<1>2. PICK g \in FileRecs : g = Saved(saved + 1) /\ g.time = saved + 1
  BY <1>1, Saves
<1>3. PICK b \in BOOLEAN :
        /\ Unwritten(b)
        /\ IF b THEN local' = g /\ remote' = remote ELSE remote' = g /\ local' = local
  BY <1>2 DEF EditorSaves, ServerSaves, Save
<1>4. LandInv' /\ \A x \in Ids : ~(xfers[x].down # b /\ Unmoved(x)')
  BY <1>1, <1>2, <1>3, LandBySave
<1>5. ASSUME wk'.at = "landed" PROVE ~Unmoved(wk.x)'
  <2>1. wk.x \in Ids /\ wk' = wk
    BY <1>1, <1>5, Hands DEF Inv, WorkerInv, Resting
  <2>2. xfers[wk.x].down # b
    BY <1>3, <2>1, HandsOn DEF Unwritten, Over
  <2> QED
    BY <1>4, <2>1, <2>2 DEF Unmoved, Source, Stat
<1> QED
  BY <1>4, <1>5

----------------------------------------------------------------------------
(* A step, and what has landed.                                            *)

LEMMA LandKeeps ==
  ASSUME Inv, LandInv, Inv', [Next]_vars, "open" \notin Troubles PROVE LandInv'
<1>1. ASSUME UNCHANGED vars PROVE LandInv'
  BY <1>1, KeptSame, WritesNothing DEF vars
<1>2. ASSUME WorkerNext PROVE LandInv'
  BY <1>2, LandByConnect, LandByTake, LandByStart, LandByDecide, LandByOpenBoth, LandByMove,
     LandByEndOfFile, LandByAbandon, LandByFinish DEF WorkerNext
<1> QED
  BY <1>1, <1>2, LandByUi, LandBySaves DEF Next

LEMMA AllKeeps == ASSUME Inv, LandInv, AllInv, Inv', [Next]_vars PROVE AllInv'
<1> SUFFICES ASSUME wk'.at = "landed", Unmoved(wk.x)' PROVE (xfers[wk.x].rec.size <= wk.pos)'
  BY DEF AllInv
<1>1. CASE EndOfFile
  <2>1. /\ wk.x \in Ids /\ UNCHANGED <<xfers, local, remote>> /\ wk'.x = wk.x /\ wk'.pos = wk.pos
        /\ wk.pos >= Len(Source(wk.x).data)
    BY <1>1, Hands DEF EndOfFile, Worker, OnQueue, OnFiles, Inv, WorkerInv, Resting
  <2>2. xfers[wk.x].rec = Stat(Source(wk.x))
    BY <2>1 DEF Unmoved, Source, Stat
  <2> QED
    BY <2>1, <2>2, LandTypes DEF Stat
<1>2. CASE UNCHANGED <<wk, local, remote>> /\ RecordsKept
  <2>1. wk.x \in Ids /\ wk.at = "landed"
    BY <1>2, Hands DEF Inv, WorkerInv, Resting
  <2>2. xfers'[wk.x].rec = xfers[wk.x].rec /\ xfers'[wk.x].down = xfers[wk.x].down
    BY <1>2, <2>1 DEF RecordsKept, Unmoved
  <2>3. Unmoved(wk.x)
    BY <1>2, <2>2 DEF Unmoved, Source, Stat
  <2> QED
    BY <1>2, <2>1, <2>2, <2>3 DEF AllInv
<1>3. CASE WorkerNext /\ ~EndOfFile
  <2>1. wk'.at # "landed"
    <3>1. WorkerInv
      BY DEF Inv
    <3>2. ~(Connect \/ Stop \/ Start \/ Gate)
      BY <3>1 DEF Connect, Stop, Start, Gate, Idles, Idle, Worker, WorkerInv
    <3>6. ASSUME Take PROVE FALSE
      <4>1. wk' = Idle \/ wk' = [Idle EXCEPT !.at = "start", !.x = Head(jobs)]
        BY <3>6 DEF Take, Planned, Idles
      <4>2. wk' # Idle
        BY DEF Idle
      <4>3. CASE wk' = [Idle EXCEPT !.at = "start", !.x = Head(jobs)]
        BY <4>3 DEF Idle
      <4> QED
        BY <4>1, <4>2, <4>3
    <3>3. ~(Decide \/ OpenBoth)
      BY <3>1 DEF Decide, OpenBoth, Fails, Worker, WorkerInv
    <3>4. ~(Move \/ Abandon)
      BY <3>1 DEF Move, Abandon, Fails, Worker, WorkerInv
    <3>5. ~(Failed \/ Finish \/ Hash)
      BY <3>1 DEF Failed, Finish, Hash, Idles, Idle, Worker, WorkerInv
    <3> QED
      BY <1>3, <3>2, <3>3, <3>4, <3>5, <3>6 DEF WorkerNext
  <2> QED
    BY <2>1
<1>4. CASE UiNext \/ UNCHANGED vars
  <2>1. UNCHANGED <<wk, local, remote>> /\ RecordsKept
    BY <1>4, UiKeeps, KeptSame DEF vars
  <2> QED
    BY <1>2, <2>1
<1>5. CASE EditorSaves \/ ServerSaves
  <2>1. ~Unmoved(wk.x)' /\ wk' = wk
    BY <1>5, LandBySaves DEF EditorSaves, ServerSaves
  <2> QED
    BY <2>1
<1> QED
  BY <1>1, <1>3, <1>4, <1>5 DEF Next

\* A copy that is how a source of its length begins is that source.
LEMMA Whole == ASSUME Inv, LandInv, AllInv PROVE LandedWhole
<1> DEFINE x == wk.x
<1> SUFFICES ASSUME wk.at = "landed", Unmoved(x) PROVE Dest(x).data = Source(x).data
  BY DEF LandedWhole, Worker, Unmoved
<1>1. x \in Ids /\ x # 0
  BY Hands DEF Inv, WorkerInv, Resting
<1>2. Begins(Dest(x).data, Source(x).data)
  BY <1>1 DEF LandInv, BeginInv, Appending, Truncating
<1>3. Len(Dest(x).data) = wk.pos /\ Len(Source(x).data) <= wk.pos
  BY <1>1 DEF LandInv, EndInv, Appending, Spot, AllInv, Unmoved, Stat
<1>4. Dest(x).data \in Seq(Versions) /\ Source(x).data \in Seq(Versions)
  BY <1>1, LandTypes DEF FileRecs
<1> HIDE DEF x
<1> QED
  BY <1>2, <1>3, <1>4 DEF Begins

\* What has landed is one version of the file, for any sizes of its versions, any number of
\* transfers both ways, and any pauses, failures, retries and saves between the attempt
\* that left a partial copy and the one that appends to it (DecideResume, ExecuteTransfer).
THEOREM LandsOneVersion == Spec => []OneVersion
<1> DEFINE Kept == "open" \notin Troubles => LandInv /\ AllInv
<1>1. Init => Inv /\ Kept
  BY Starts, LandStarts DEF Init, Idle, AllInv
<1>2. Inv /\ Kept /\ [Next]_vars => Inv' /\ Kept'
  BY Keeps, LandKeeps, AllKeeps
<1>3. Inv /\ Kept => OneVersion
  BY Whole DEF OneVersion
<1> HIDE DEF Kept
<1> QED
  BY <1>1, <1>2, <1>3, PTL DEF Spec

----------------------------------------------------------------------------
(* Paths.                                                                  *)

LEMMA PathFacts == \A p \in Paths : p \in Seq(STRING) /\ p # <<>> /\ Len(p) \in Nat
<1>1. PathOrder \in Seq(Seq(STRING)) /\ \A p \in Paths : p # <<>>
  BY SyncAssumption
<1>2. \A i \in DOMAIN PathOrder : PathOrder[i] \in Seq(STRING)
  BY ONLY <1>1
<1> QED
  BY <1>1, <1>2 DEF Paths, Range

LEMMA UnderIs ==
  ASSUME NEW p \in Paths, NEW q \in Paths
  PROVE  Under(q, p) <=> Len(q) < Len(p) /\ \A i \in 1 .. Len(q) : q[i] = p[i]
<1> DEFINE m == Len(q)  n == Len(p)
<1>1. p \in Seq(STRING) /\ q \in Seq(STRING) /\ m \in Nat /\ n \in Nat
  BY PathFacts
<1>2. DOMAIN p = 1 .. n /\ DOMAIN q = 1 .. m
  BY <1>1
<1>3. ASSUME m <= n
      PROVE  /\ SubSeq(q, 1, m) = [i \in 1 .. m |-> q[i]]
             /\ SubSeq(p, 1, m) = [i \in 1 .. m |-> p[i]]
  BY ONLY <1>1, <1>2, <1>3
<1>4. IsPrefix(q, p) <=> m <= n /\ \A i \in 1 .. m : q[i] = p[i]
  BY <1>1, <1>3 DEF IsPrefix
<1>5. ASSUME m = n, \A i \in 1 .. m : q[i] = p[i] PROVE q = p
  BY ONLY <1>1, <1>2, <1>5
<1>6. ASSUME q = p PROVE ~(m < n)
  BY ONLY <1>1, <1>6
<1> HIDE DEF m, n
<1> QED
  BY <1>1, <1>4, <1>5, <1>6 DEF Under, IsStrictPrefix, m, n

LEMMA UnderFacts ==
  /\ \A p \in Paths, q \in Paths : Under(q, p) => Len(q) < Len(p) /\ q # p
  /\ \A p \in Paths, q \in Paths, o \in Paths : Under(o, q) /\ Under(q, p) => Under(o, p)
<1>1. ASSUME NEW p \in Paths, NEW q \in Paths, Under(q, p) PROVE Len(q) < Len(p) /\ q # p
  BY <1>1, UnderIs DEF Under, IsStrictPrefix
<1>2. ASSUME NEW p \in Paths, NEW q \in Paths, NEW o \in Paths, Under(o, q), Under(q, p)
      PROVE  Under(o, p)
  <2>1. Len(o) \in Nat /\ Len(q) \in Nat /\ Len(p) \in Nat
    BY PathFacts
  <2>2. Len(o) < Len(q) /\ Len(q) < Len(p)
    BY <1>2, <1>1
  <2>3. \A i \in 1 .. Len(o) : i \in 1 .. Len(q) /\ o[i] = q[i] /\ q[i] = p[i]
    BY <1>2, <2>1, <2>2, UnderIs
  <2>4. Len(o) < Len(p) /\ \A i \in 1 .. Len(o) : o[i] = p[i]
    BY <2>1, <2>2, <2>3
  <2> QED
    BY <2>4, UnderIs
<1> QED
  BY <1>1, <1>2

LEMMA SafeAbove ==
  ASSUME NEW p \in Paths, NEW q \in Paths, Under(q, p), SafeName(p) PROVE SafeName(q)
<1>1. Len(q) < Len(p) /\ Len(q) \in Nat /\ Len(p) \in Nat /\ p \in Seq(STRING) /\ q \in Seq(STRING)
  BY UnderIs, PathFacts
<1>2. \A i \in 1 .. Len(q) : i \in 1 .. Len(p) /\ q[i] = p[i]
  BY <1>1, UnderIs
<1>3. DOMAIN p = 1 .. Len(p) /\ DOMAIN q = 1 .. Len(q)
  BY <1>1
<1>4. Range(q) \subseteq Range(p)
  BY <1>2, <1>3 DEF Range
<1> QED
  BY <1>4 DEF SafeName

LEMMA PathsFinite == IsFiniteSet(Paths)
<1>1. PathOrder \in Seq(Seq(STRING))
  BY SyncAssumption
<1>2. DOMAIN PathOrder = 1 .. Len(PathOrder) /\ Len(PathOrder) \in Nat
  BY <1>1
<1>3. IsFiniteSet(1 .. Len(PathOrder))
  BY <1>2, FS_Interval
<1>4. PathOrder \in Surjection(DOMAIN PathOrder, Paths)
  <2>1. PathOrder = [i \in DOMAIN PathOrder |-> PathOrder[i]]
    BY <1>1
  <2> QED
    BY <2>1 DEF Surjection, Paths, Range
<1> QED
  BY <1>2, <1>3, <1>4, FS_Surjection

LEMMA PlaceIs ==
  \A p \in Paths, q \in Paths : Place(p) \in Nat /\ (Place(p) = Place(q) => p = q)
<1>1. DOMAIN PathOrder \subseteq Nat
  BY SyncAssumption
<1>2. \A p \in Paths : \E i \in DOMAIN PathOrder : PathOrder[i] = p
  BY DEF Paths, Range
<1>3. \A p \in Paths : Place(p) \in DOMAIN PathOrder /\ PathOrder[Place(p)] = p
  BY <1>2 DEF Place
<1> QED
  BY <1>1, <1>3

----------------------------------------------------------------------------
(* The order of a plan.                                                    *)

LEMMA SortedIs ==
  ASSUME NEW part, DOMAIN part \subseteq Paths, \A p \in DOMAIN part : part[p] \in 1 .. 3
  PROVE  /\ DOMAIN Sorted(part) = 1 .. Cardinality(DOMAIN part)
         /\ Sorted(part) \in [1 .. Cardinality(DOMAIN part) -> DOMAIN part]
         /\ Cardinality(DOMAIN part) \in Nat
         /\ \A i \in DOMAIN Sorted(part) : Sorted(part)[i] \in DOMAIN part
         /\ \A i \in DOMAIN Sorted(part), j \in DOMAIN Sorted(part) :
              i < j => Sooner(part, Sorted(part)[i], Sorted(part)[j])
<1> DEFINE S == DOMAIN part
           n == Cardinality(S)
           R == {x \in S \X S : Sooner(part, x[1], x[2])}
<1>1. IsFiniteSet(S) /\ n \in Nat
  BY PathsFinite, FS_Subset, FS_CardinalityType
<1>2. \A p \in S, q \in S : <<p, q>> \in R <=> Sooner(part, p, q)
  OBVIOUS
<1>3. Orders(R, S)
  <2>1. \A p \in S : part[p] \in Int /\ Depth(part[p], p) \in Int /\ Place(p) \in Int
    BY PathFacts, PlaceIs DEF Depth
  <2>2. ASSUME NEW x \in S, NEW y \in S, NEW z \in S, Sooner(part, x, y), Sooner(part, y, z)
        PROVE  Sooner(part, x, z)
    <3> DEFINE Value(p) == /\ part[p] \in Int /\ Depth(part[p], p) \in Int /\ Place(p) \in Int
    <3>1. Value(x) /\ Value(y) /\ Value(z)
      BY <2>1
    <3> QED
      BY ONLY <2>2, <3>1 DEF Sooner
  <2>3. \A x \in S : ~Sooner(part, x, x)
    BY <2>1 DEF Sooner
  <2>4. ASSUME NEW x \in S, NEW y \in S, x # y PROVE Sooner(part, x, y) \/ Sooner(part, y, x)
    <3>1. Place(x) # Place(y)
      BY <2>4, PlaceIs
    <3>2. /\ part[x] \in Int /\ Depth(part[x], x) \in Int /\ Place(x) \in Int
          /\ part[y] \in Int /\ Depth(part[y], y) \in Int /\ Place(y) \in Int
      BY <2>1
    <3> QED
      BY ONLY <3>1, <3>2 DEF Sooner
  <2> HIDE DEF R
  <2> QED
    BY <1>2, <2>2, <2>3, <2>4 DEF Orders
<1> HIDE DEF R
<1>4. PICK s \in [1 .. n -> S] : \A i, j \in 1 .. n : i < j => <<s[i], s[j]>> \in R
  BY <1>1, <1>3, CountsUp
<1>5. \A i, j \in 1 .. n : i < j => Sooner(part, s[i], s[j])
  BY <1>2, <1>4
<1>6. /\ Sorted(part) \in [1 .. n -> S]
      /\ \A i, j \in 1 .. n : i < j => Sooner(part, Sorted(part)[i], Sorted(part)[j])
  BY <1>4, <1>5 DEF Sorted
<1> QED
  BY <1>1, <1>6

----------------------------------------------------------------------------
(* What a plan says.                                                       *)

Acts == {"Skip", "Conflict"} \cup Up \cup Down \cup Mkdirs \cup Deletes
Dirs == {"toRemote", "toLocal", "twoWay"}
Walked(seen) == DOMAIN seen \subseteq Paths /\ \A p \in DOMAIN seen : seen[p] \in Entry
\* What is kept of a walk, and what is to be done with every path of the two.
Kept(seen, ex) == {p \in DOMAIN seen : ~Excluded(ex, p, seen[p].is = "dir")}
Acting(l, r, ex, dir, del) ==
  [p \in Kept(l, ex) \cup Kept(r, ex) |->
     Action(Compare(l, r, ex)[p], At(l, p), At(r, p), dir, del)]
PartOf(acting) == [p \in DOMAIN acting |-> Part(acting[p])]

LEMMA CompareIs ==
  ASSUME NEW l, NEW r, NEW ex
  PROVE  Compare(l, r, ex) =
           [p \in Kept(l, ex) \cup Kept(r, ex) |->
              IF p \notin Kept(r, ex) THEN "LocalOnly"
              ELSE IF p \notin Kept(l, ex) THEN "RemoteOnly" ELSE OfTwo(l[p], r[p])]
  BY DEF Compare, Kept

LEMMA BuildPlanIs ==
  ASSUME NEW l, NEW r, NEW ex, NEW dir, NEW del,
         NEW acting, acting = Acting(l, r, ex, dir, del),
         NEW order, order = Sorted(PartOf(acting))
  PROVE  BuildPlan(l, r, ex, dir, del)
           = [i \in DOMAIN order |-> [act |-> acting[order[i]], path |-> order[i]]]
<1>1. DOMAIN Compare(l, r, ex) = Kept(l, ex) \cup Kept(r, ex)
  BY CompareIs
<1>2. acting = [p \in DOMAIN Compare(l, r, ex) |->
                  Action(Compare(l, r, ex)[p], At(l, p), At(r, p), dir, del)]
  BY <1>1 DEF Acting
<1> QED
  BY <1>2 DEF BuildPlan, PartOf

LEMMA ActionIs ==
  ASSUME NEW st, NEW l, NEW r, NEW dir, NEW del, NEW a, a = Action(st, l, r, dir, del)
  PROVE  /\ st = "Identical" => a = "Skip"
         /\ st \in {"LocalOnly"} => a = OfOneSide(st, l, dir, del)
         /\ st \in {"RemoteOnly"} => a = OfOneSide(st, r, dir, del)
         /\ st \in {"LocalNewer", "RemoteNewer"} => a = OfNewer(st, dir)
         /\ st = "SizeDiffers" =>
              a = IF dir = "twoWay" THEN "Conflict"
                  ELSE IF dir = "toRemote" THEN "ReplaceRemote" ELSE "ReplaceLocal"
         /\ st \notin {"Identical", "LocalOnly", "RemoteOnly", "LocalNewer", "RemoteNewer", "SizeDiffers"}
              => a = "Conflict"
<1>1. CASE st = "Identical"
  BY <1>1, Zenon DEF Action
<1>2. CASE st = "LocalOnly"
  BY <1>2, Zenon DEF Action
<1>3. CASE st = "RemoteOnly"
  BY <1>3, Zenon DEF Action
<1>4. CASE st = "LocalNewer"
  BY <1>4, Zenon DEF Action
<1>5. CASE st = "RemoteNewer"
  BY <1>5, Zenon DEF Action
<1>6. CASE st = "SizeDiffers"
  <2>1. CASE dir = "twoWay"
    BY <1>6, <2>1, Zenon DEF Action
  <2>2. CASE dir # "twoWay"
    BY <1>6, <2>2, Zenon DEF Action
  <2> QED
    BY <2>1, <2>2
<1>7. CASE st \notin {"Identical", "LocalOnly", "RemoteOnly", "LocalNewer", "RemoteNewer", "SizeDiffers"}
  BY <1>7, Zenon DEF Action
<1> QED
  BY <1>1, <1>2, <1>3, <1>4, <1>5, <1>6, <1>7

LEMMA ActionType ==
  ASSUME NEW st, NEW l, NEW r, NEW dir, NEW del PROVE Action(st, l, r, dir, del) \in Acts
<1> DEFINE a == Action(st, l, r, dir, del)
<1>1. st \in {"LocalOnly", "RemoteOnly"} => \A e : OfOneSide(st, e, dir, del) \in Acts
  BY DEF OfOneSide, Acts, Up, Down, Mkdirs, Deletes
<1>2. OfNewer(st, dir) \in Acts
  BY DEF OfNewer, Acts, Up, Down
<1>3. {"Skip", "Conflict", "ReplaceRemote", "ReplaceLocal"} \subseteq Acts
  BY DEF Acts, Up, Down
<1> QED
  BY <1>1, <1>2, <1>3, ActionIs

LEMMA PartIs == \A a : Part(a) \in 1 .. 3 /\ (a \in Mkdirs <=> Part(a) = 1) /\ (a \in Deletes <=> Part(a) = 3)
  BY DEF Part, Mkdirs, Deletes

\* A plan has a step for some paths the walks kept, which does what is to be done with it,
\* and its steps are in order.
LEMMA PlanIs ==
  ASSUME NEW l, Walked(l), NEW r, Walked(r), NEW ex, NEW dir, NEW del,
         NEW acting, acting = Acting(l, r, ex, dir, del),
         NEW steps, steps = BuildPlan(l, r, ex, dir, del)
  PROVE  /\ DOMAIN acting \subseteq Paths /\ \A p \in DOMAIN acting : acting[p] \in Acts
         /\ DOMAIN steps \subseteq Nat
         /\ \A i \in DOMAIN steps :
              /\ steps[i] = [act |-> acting[steps[i].path], path |-> steps[i].path]
              /\ steps[i].path \in DOMAIN acting /\ steps[i].act = acting[steps[i].path]
         /\ \A i \in DOMAIN steps, j \in DOMAIN steps : i < j =>
              Sooner(PartOf(acting), steps[i].path, steps[j].path)
<1> DEFINE order == Sorted(PartOf(acting))
<1>1. DOMAIN acting \subseteq Paths /\ \A p \in DOMAIN acting : acting[p] \in Acts
  BY ActionType DEF Acting, Kept, Walked
<1>2. steps = [i \in DOMAIN order |-> [act |-> acting[order[i]], path |-> order[i]]]
  BY BuildPlanIs
<1>3. DOMAIN PartOf(acting) = DOMAIN acting /\ \A p \in DOMAIN acting : PartOf(acting)[p] \in 1 .. 3
  BY PartIs DEF PartOf
<1>4. /\ DOMAIN order \subseteq Nat
      /\ \A i \in DOMAIN order : order[i] \in DOMAIN acting
      /\ \A i \in DOMAIN order, j \in DOMAIN order : i < j => Sooner(PartOf(acting), order[i], order[j])
  BY <1>1, <1>3, SortedIs
<1> HIDE DEF order
<1> QED
  BY <1>1, <1>2, <1>4

LEMMA InOrder ==
  ASSUME NEW l, Walked(l), NEW r, Walked(r), NEW ex, NEW dir, NEW del,
         NEW steps, steps = BuildPlan(l, r, ex, dir, del),
         NEW i \in DOMAIN steps, NEW j \in DOMAIN steps, i < j
  PROVE  /\ steps[i].act \in Deletes => ~Under(steps[i].path, steps[j].path)
         /\ steps[j].act \in Mkdirs => ~Under(steps[j].path, steps[i].path)
<1> DEFINE acting == Acting(l, r, ex, dir, del)
           p == steps[i].path  q == steps[j].path
           part == PartOf(acting)
<1>1. /\ p \in Paths /\ q \in Paths /\ Sooner(part, p, q)
      /\ part[p] = Part(steps[i].act) /\ part[q] = Part(steps[j].act)
  BY PlanIs DEF PartOf
<1>2. Len(p) \in Nat /\ Len(q) \in Nat /\ (Under(p, q) => Len(p) < Len(q)) /\ (Under(q, p) => Len(q) < Len(p))
  BY <1>1, PathFacts, UnderFacts
<1>3. part[p] \in 1 .. 3 /\ part[q] \in 1 .. 3
  BY <1>1, PartIs
<1>4. steps[i].act \in Deletes => part[p] = 3
  BY <1>1, PartIs
<1>5. steps[j].act \in Mkdirs => part[q] = 1
  BY <1>1, PartIs
<1> HIDE DEF part, p, q
<1>6. part[p] = 3 => ~Under(p, q)
  BY <1>1, <1>2, <1>3 DEF Sooner, Depth
<1>7. part[q] = 1 => ~Under(q, p)
  BY <1>1, <1>2, <1>3 DEF Sooner, Depth
<1> QED
  BY <1>4, <1>5, <1>6, <1>7 DEF p, q

----------------------------------------------------------------------------
(* The plan from the other side.                                           *)

LEMMA MirrorIs ==
  /\ Mirror("Upload") = "Download" /\ Mirror("Download") = "Upload"
  /\ Mirror("ReplaceRemote") = "ReplaceLocal" /\ Mirror("ReplaceLocal") = "ReplaceRemote"
  /\ Mirror("MkdirRemote") = "MkdirLocal" /\ Mirror("MkdirLocal") = "MkdirRemote"
  /\ Mirror("DeleteRemote") = "DeleteLocal" /\ Mirror("DeleteLocal") = "DeleteRemote"
  /\ Mirror("Skip") = "Skip" /\ Mirror("Conflict") = "Conflict"
<1>1. ASSUME NEW a \in UNION Facing, NEW b \in UNION Facing,
             \A c \in UNION Facing : {a, c} \in Facing <=> c = b
      PROVE  Mirror(a) = b
  BY <1>1 DEF Mirror
<1>2. UNION Facing = Up \cup Down \cup Mkdirs \cup Deletes
  BY DEF Facing, Up, Down, Mkdirs, Deletes
<1>3. \A c \in UNION Facing : {"Upload", c} \in Facing <=> c = "Download"
  BY <1>2 DEF Facing, Up, Down, Mkdirs, Deletes
<1>4. \A c \in UNION Facing : {"Download", c} \in Facing <=> c = "Upload"
  BY <1>2 DEF Facing, Up, Down, Mkdirs, Deletes
<1>5. \A c \in UNION Facing : {"ReplaceRemote", c} \in Facing <=> c = "ReplaceLocal"
  BY <1>2 DEF Facing, Up, Down, Mkdirs, Deletes
<1>6. \A c \in UNION Facing : {"ReplaceLocal", c} \in Facing <=> c = "ReplaceRemote"
  BY <1>2 DEF Facing, Up, Down, Mkdirs, Deletes
<1>7. \A c \in UNION Facing : {"MkdirRemote", c} \in Facing <=> c = "MkdirLocal"
  BY <1>2 DEF Facing, Up, Down, Mkdirs, Deletes
<1>8. \A c \in UNION Facing : {"MkdirLocal", c} \in Facing <=> c = "MkdirRemote"
  BY <1>2 DEF Facing, Up, Down, Mkdirs, Deletes
<1>9. \A c \in UNION Facing : {"DeleteRemote", c} \in Facing <=> c = "DeleteLocal"
  BY <1>2 DEF Facing, Up, Down, Mkdirs, Deletes
<1>10. \A c \in UNION Facing : {"DeleteLocal", c} \in Facing <=> c = "DeleteRemote"
  BY <1>2 DEF Facing, Up, Down, Mkdirs, Deletes
<1>11. /\ "Upload" \in UNION Facing /\ "Download" \in UNION Facing
       /\ "ReplaceRemote" \in UNION Facing /\ "ReplaceLocal" \in UNION Facing
       /\ "MkdirRemote" \in UNION Facing /\ "MkdirLocal" \in UNION Facing
       /\ "DeleteRemote" \in UNION Facing /\ "DeleteLocal" \in UNION Facing
       /\ "Skip" \notin UNION Facing /\ "Conflict" \notin UNION Facing
  BY <1>2 DEF Up, Down, Mkdirs, Deletes
<1>12. Mirror("Skip") = "Skip" /\ Mirror("Conflict") = "Conflict"
  BY <1>11 DEF Mirror
<1>13. Mirror("Upload") = "Download"
  BY <1>1, <1>3, <1>11
<1>14. Mirror("Download") = "Upload"
  BY <1>1, <1>4, <1>11
<1>15. Mirror("ReplaceRemote") = "ReplaceLocal"
  BY <1>1, <1>5, <1>11
<1>16. Mirror("ReplaceLocal") = "ReplaceRemote"
  BY <1>1, <1>6, <1>11
<1>17. Mirror("MkdirRemote") = "MkdirLocal"
  BY <1>1, <1>7, <1>11
<1>18. Mirror("MkdirLocal") = "MkdirRemote"
  BY <1>1, <1>8, <1>11
<1>19. Mirror("DeleteRemote") = "DeleteLocal"
  BY <1>1, <1>9, <1>11
<1>20. Mirror("DeleteLocal") = "DeleteRemote"
  BY <1>1, <1>10, <1>11
<1> QED
  BY <1>12, <1>13, <1>14, <1>15, <1>16, <1>17, <1>18, <1>19, <1>20

LEMMA OneSideMirrors ==
  ASSUME NEW e, NEW dir \in Dirs, NEW del
  PROVE  /\ OfOneSide("RemoteOnly", e, Other(dir), del) = Mirror(OfOneSide("LocalOnly", e, dir, del))
         /\ OfOneSide("LocalOnly", e, Other(dir), del) = Mirror(OfOneSide("RemoteOnly", e, dir, del))
<1>1. Other("toRemote") = "toLocal" /\ Other("toLocal") = "toRemote" /\ Other("twoWay") = "twoWay"
  BY Zenon DEF Other
<1> QED
  BY <1>1, MirrorIs DEF OfOneSide, Dirs

LEMMA NewerMirrors ==
  ASSUME NEW dir \in Dirs
  PROVE  /\ OfNewer("RemoteNewer", Other(dir)) = Mirror(OfNewer("LocalNewer", dir))
         /\ OfNewer("LocalNewer", Other(dir)) = Mirror(OfNewer("RemoteNewer", dir))
<1>1. Other("toRemote") = "toLocal" /\ Other("toLocal") = "toRemote" /\ Other("twoWay") = "twoWay"
  BY Zenon DEF Other
<1> QED
  BY <1>1, MirrorIs DEF OfNewer, Replaces, Dirs

\* The state from the other side.
Facer(st) ==
  IF st = "LocalOnly" THEN "RemoteOnly" ELSE IF st = "RemoteOnly" THEN "LocalOnly"
  ELSE IF st = "LocalNewer" THEN "RemoteNewer" ELSE IF st = "RemoteNewer" THEN "LocalNewer" ELSE st

LEMMA TwoMirrors ==
  ASSUME NEW a \in Entry, NEW b \in Entry PROVE OfTwo(b, a) = Facer(OfTwo(a, b))
<1>1. a.time \in Nat /\ b.time \in Nat
  BY DEF Entry
<1>2. OfTwoFiles(b, a) = Facer(OfTwoFiles(a, b))
  BY <1>1 DEF OfTwoFiles, Facer, SameTime, Tolerance
<1> QED
  BY <1>2 DEF OfTwo, Facer

LEMMA ActionMirrors ==
  ASSUME NEW st, NEW l, NEW r, NEW dir \in Dirs, NEW del
  PROVE  Action(Facer(st), r, l, Other(dir), del) = Mirror(Action(st, l, r, dir, del))
<1> DEFINE a == Action(st, l, r, dir, del)  b == Action(Facer(st), r, l, Other(dir), del)
<1>1. CASE st = "Identical"
  BY <1>1, ActionIs, MirrorIs DEF Facer
<1>2. CASE st = "LocalOnly"
  <2>1. a = OfOneSide("LocalOnly", l, dir, del)
    BY <1>2, ActionIs
  <2>2. b = OfOneSide("RemoteOnly", l, Other(dir), del)
    BY <1>2, ActionIs DEF Facer
  <2> QED
    BY <2>1, <2>2, OneSideMirrors
<1>3. CASE st = "RemoteOnly"
  <2>1. a = OfOneSide("RemoteOnly", r, dir, del)
    BY <1>3, ActionIs
  <2>2. b = OfOneSide("LocalOnly", r, Other(dir), del)
    BY <1>3, ActionIs DEF Facer
  <2> QED
    BY <2>1, <2>2, OneSideMirrors
<1>4. CASE st = "LocalNewer"
  <2>1. a = OfNewer("LocalNewer", dir)
    BY <1>4, ActionIs
  <2>2. b = OfNewer("RemoteNewer", Other(dir))
    BY <1>4, ActionIs DEF Facer
  <2> QED
    BY <2>1, <2>2, NewerMirrors
<1>5. CASE st = "RemoteNewer"
  <2>1. a = OfNewer("RemoteNewer", dir)
    BY <1>5, ActionIs
  <2>2. b = OfNewer("LocalNewer", Other(dir))
    BY <1>5, ActionIs DEF Facer
  <2> QED
    BY <2>1, <2>2, NewerMirrors
<1>6. CASE st = "SizeDiffers"
  <2>1. Other("toRemote") = "toLocal" /\ Other("toLocal") = "toRemote" /\ Other("twoWay") = "twoWay"
    BY Zenon DEF Other
  <2>2. a = IF dir = "twoWay" THEN "Conflict" ELSE IF dir = "toRemote" THEN "ReplaceRemote" ELSE "ReplaceLocal"
    BY <1>6, ActionIs
  <2>3. Facer(st) = "SizeDiffers"
    BY <1>6 DEF Facer
  <2>4. b = IF Other(dir) = "twoWay" THEN "Conflict"
            ELSE IF Other(dir) = "toRemote" THEN "ReplaceRemote" ELSE "ReplaceLocal"
    BY <2>3, ActionIs
  <2> QED
    BY <2>1, <2>2, <2>4, MirrorIs DEF Dirs
<1>7. CASE st \notin {"Identical", "LocalOnly", "RemoteOnly", "LocalNewer", "RemoteNewer", "SizeDiffers"}
  <2>1. Facer(st) = st
    BY <1>7 DEF Facer
  <2>2. a = "Conflict" /\ b = "Conflict"
    BY <1>7, <2>1, ActionIs
  <2> QED
    BY <2>2, MirrorIs
<1> QED
  BY <1>1, <1>2, <1>3, <1>4, <1>5, <1>6, <1>7

LEMMA ActingMirrors ==
  ASSUME NEW l, Walked(l), NEW r, Walked(r), NEW ex, NEW dir \in Dirs, NEW del
  PROVE  /\ DOMAIN Acting(r, l, ex, Other(dir), del) = DOMAIN Acting(l, r, ex, dir, del)
         /\ \A p \in DOMAIN Acting(l, r, ex, dir, del) :
              Acting(r, l, ex, Other(dir), del)[p] = Mirror(Acting(l, r, ex, dir, del)[p])
<1> DEFINE K == Kept(l, ex) \cup Kept(r, ex)
<1>1. \A p \in K : Compare(r, l, ex)[p] = Facer(Compare(l, r, ex)[p])
  <2> SUFFICES ASSUME NEW p \in K PROVE Compare(r, l, ex)[p] = Facer(Compare(l, r, ex)[p])
    OBVIOUS
  <2>1. CASE p \notin Kept(r, ex)
    BY <2>1, CompareIs DEF Facer
  <2>2. CASE p \notin Kept(l, ex)
    BY <2>2, CompareIs DEF Facer
  <2>3. CASE p \in Kept(l, ex) /\ p \in Kept(r, ex)
    <3>1. l[p] \in Entry /\ r[p] \in Entry
      BY <2>3 DEF Kept, Walked
    <3>2. Compare(l, r, ex)[p] = OfTwo(l[p], r[p]) /\ Compare(r, l, ex)[p] = OfTwo(r[p], l[p])
      BY <2>3, CompareIs
    <3> QED
      BY <3>1, <3>2, TwoMirrors
  <2> QED
    BY <2>1, <2>2, <2>3
<1>2. \A p \in K : Action(Compare(r, l, ex)[p], At(r, p), At(l, p), Other(dir), del)
                     = Mirror(Action(Compare(l, r, ex)[p], At(l, p), At(r, p), dir, del))
  BY <1>1, ActionMirrors
<1>3. K = Kept(r, ex) \cup Kept(l, ex)
  OBVIOUS
<1> QED
  BY <1>2, <1>3, Zenon DEF Acting

LEMMA PlanMirrors ==
  ASSUME NEW l, Walked(l), NEW r, Walked(r), NEW ex, NEW dir \in Dirs, NEW del,
         NEW steps, steps = BuildPlan(l, r, ex, dir, del)
  PROVE  BuildPlan(r, l, ex, Other(dir), del) = [i \in DOMAIN steps |-> [steps[i] EXCEPT !.act = Mirror(@)]]
<1> DEFINE a == Acting(l, r, ex, dir, del)  b == Acting(r, l, ex, Other(dir), del)
           order == Sorted(PartOf(a))
<1>1. DOMAIN b = DOMAIN a /\ \A p \in DOMAIN a : b[p] = Mirror(a[p]) /\ a[p] \in Acts
  <2>1. \A p \in DOMAIN a : a[p] \in Acts
    BY PlanIs
  <2> QED
    BY <2>1, ActingMirrors
<1>2. \A x \in Acts : Part(Mirror(x)) = Part(x)
  BY MirrorIs DEF Acts, Up, Down, Mkdirs, Deletes, Part
<1>3. PartOf(b) = PartOf(a)
  BY <1>1, <1>2 DEF PartOf
<1>4. steps = [i \in DOMAIN order |-> [act |-> a[order[i]], path |-> order[i]]]
  BY BuildPlanIs
<1>5. BuildPlan(r, l, ex, Other(dir), del) = [i \in DOMAIN order |-> [act |-> b[order[i]], path |-> order[i]]]
  BY <1>3, BuildPlanIs
<1>6. \A i \in DOMAIN order : order[i] \in DOMAIN a
  <2>1. DOMAIN PartOf(a) = DOMAIN a /\ \A p \in DOMAIN a : PartOf(a)[p] \in 1 .. 3
    BY PartIs DEF PartOf
  <2>2. DOMAIN a \subseteq Paths
    BY PlanIs
  <2> QED
    BY <2>1, <2>2, SortedIs
<1> HIDE DEF a, b, order
<1> QED
  BY <1>1, <1>4, <1>5, <1>6

----------------------------------------------------------------------------
(* A comparison and its transfers.                                         *)

Stages == {"none", "local", "remote", "posted", "queued", "declined"}
Jobs == [at : Stages, root : Range(Folders), dir : Dirs, del : BOOLEAN,
         excludes : Excludes \cup {{}}, whole : BOOLEAN]
\* Step i of the plan is a transfer ShowPlan queues, and the one it makes of it.
ToMove(i) == i \in DOMAIN plan /\ plan[i].act \in Up \cup Down /\ SafeName(plan[i].path)
MoveOf(i) == [at |-> i, down |-> plan[i].act \in Down, path |-> plan[i].path, root |-> lcwd]
\* Step i of the plan is the one that put x into the queue.
PutBy(x, i) == plan[i].path = x.path /\ plan[i].act \in IF x.down THEN Down ELSE Up

TreesInv ==
  /\ disk \in [Range(Folders) -> [Paths -> Entry]] /\ host \in [Paths -> Entry]
  /\ lcwd \in Range(Folders) /\ saves \in 0 .. MaxSaves
JobInv == job \in Jobs /\ Walked(seenL) /\ Walked(seenR)
PlanInv ==
  plan = IF job.at \in {"posted", "queued", "declined"}
         THEN BuildPlan(seenL, seenR, job.excludes, job.dir, job.del) ELSE <<>>
MovesInv ==
  \A x \in moves \cup failed : job.at = "queued" /\ \E i \in DOMAIN plan : ToMove(i) /\ x = MoveOf(i)
SyncInv == TreesInv /\ NamesChecked /\ JobInv /\ PlanInv /\ MovesInv

LEMMA FolderFacts == Folders[1] \in Range(Folders)
<1>1. Folders \in Seq(STRING) /\ Folders # <<>>
  BY SyncAssumption
<1>2. 1 \in DOMAIN Folders
  BY ONLY <1>1
<1> QED
  BY <1>2 DEF Range

LEMMA EntryFacts ==
  /\ Absent \in Entry /\ Dir \in Entry /\ Absent.is = "none" /\ Absent.time = 0 /\ Dir.is = "dir"
  /\ \A p : At(Nothing, p) = Absent
  /\ Walked(Nothing)
  BY DEF Absent, Dir, Entry, At, Nothing, Walked

\* What is known of a queued transfer.
LEMMA MoveFacts ==
  ASSUME JobInv, PlanInv, MovesInv, NEW x \in moves \cup failed
  PROVE  /\ job.at = "queued" /\ x.root = lcwd /\ x.down \in BOOLEAN
         /\ x.path \in Paths /\ SafeName(x.path)
         /\ \E i \in DOMAIN plan : PutBy(x, i)
<1>1. PICK i \in DOMAIN plan : ToMove(i) /\ x = MoveOf(i)
  BY DEF MovesInv
<1>2. job.at = "queued" /\ Walked(seenL) /\ Walked(seenR)
  BY DEF MovesInv, JobInv
<1>3. plan[i].path \in Paths
  BY <1>2, PlanIs DEF PlanInv
<1>4. (plan[i].act \in Down) \in BOOLEAN
  OBVIOUS
<1>5. x.root = lcwd /\ x.down = (plan[i].act \in Down) /\ x.path = plan[i].path
  BY <1>1 DEF MoveOf
<1>6. PutBy(x, i)
  BY <1>1, <1>5 DEF PutBy, ToMove
<1> QED
  BY <1>1, <1>2, <1>3, <1>4, <1>5, <1>6 DEF ToMove

LEMMA TypedSync == ASSUME SyncInv PROVE SyncTypeOK
<1>1. \A s \in Range(plan) : s.act \in Acts /\ s.path \in Paths
  <2>1. CASE plan = <<>>
    BY <2>1 DEF Range
  <2>2. CASE plan = BuildPlan(seenL, seenR, job.excludes, job.dir, job.del)
    <3>1. Walked(seenL) /\ Walked(seenR)
      BY DEF SyncInv, JobInv
    <3>2. \A i \in DOMAIN plan : plan[i].act \in Acts /\ plan[i].path \in Paths
      BY <2>2, <3>1, PlanIs
    <3> QED
      BY <3>2 DEF Range
  <2> QED
    BY <2>1, <2>2 DEF SyncInv, PlanInv
<1>2. \A x \in moves \cup failed : x.down \in BOOLEAN /\ x.path \in Paths /\ x.root \in Range(Folders)
  BY MoveFacts DEF SyncInv, TreesInv
<1> QED
  BY <1>1, <1>2 DEF SyncInv, TreesInv, JobInv, Jobs, Stages, Dirs, Acts, Walked, SyncTypeOK

LEMMA SoundSync == ASSUME SyncInv PROVE PlanSound
<1>1. Walked(seenL) /\ Walked(seenR) /\ job.dir \in Dirs
  BY DEF SyncInv, JobInv, Jobs
<1>2. PlanOrdered
  <2>1. CASE plan = <<>>
    BY <2>1 DEF PlanOrdered
  <2>2. CASE plan = BuildPlan(seenL, seenR, job.excludes, job.dir, job.del)
    BY <1>1, <2>2, InOrder DEF PlanOrdered
  <2> QED
    BY <2>1, <2>2 DEF SyncInv, PlanInv
<1>3. Mirrored
  <2> SUFFICES ASSUME job.at = "posted"
               PROVE  BuildPlan(seenR, seenL, job.excludes, Other(job.dir), job.del)
                        = [i \in DOMAIN plan |-> [plan[i] EXCEPT !.act = Mirror(@)]]
    BY DEF Mirrored
  <2>1. plan = BuildPlan(seenL, seenR, job.excludes, job.dir, job.del)
    BY DEF SyncInv, PlanInv
  <2> QED
    BY <1>1, <2>1, PlanMirrors
<1> QED
  BY <1>2, <1>3, TypedSync DEF PlanSound, SyncInv

LEMMA SyncStarts == ASSUME SyncInit PROVE SyncInv
<1>1. LocalTrees \cup RemoteTrees \subseteq [Paths -> Entry] /\ MaxSaves \in Nat
      /\ \A tree \in LocalTrees, p \in Paths : tree[p].is # "none" => SafeName(p)
  BY SyncAssumption
<1>2. PICK tree \in LocalTrees :
        disk = [f \in Range(Folders) |-> IF f = Folders[1] THEN tree ELSE [p \in Paths |-> Absent]]
  BY DEF SyncInit
<1>3. TreesInv
  <2>1. [p \in Paths |-> Absent] \in [Paths -> Entry] /\ tree \in [Paths -> Entry]
    BY <1>1, EntryFacts
  <2>2. disk \in [Range(Folders) -> [Paths -> Entry]]
    BY <1>2, <2>1
  <2>3. host \in [Paths -> Entry] /\ lcwd \in Range(Folders) /\ saves \in 0 .. MaxSaves
    BY <1>1, FolderFacts DEF SyncInit
  <2> QED
    BY <2>2, <2>3 DEF TreesInv
<1>4. NamesChecked
  BY <1>1, <1>2, EntryFacts DEF NamesChecked
<1>5. JobInv /\ PlanInv /\ MovesInv
  BY FolderFacts, EntryFacts DEF SyncInit, JobInv, PlanInv, MovesInv, Jobs, Stages, Dirs
<1> QED
  BY <1>3, <1>4, <1>5 DEF SyncInv

LEMMA WalkIs ==
  ASSUME NEW tree \in [Paths -> Entry], NEW un PROVE Walked(Walk(tree, un))
  BY DEF Walk, Walked

\* No transfer is queued before the plan is confirmed.
LEMMA NoMoves == ASSUME MovesInv, job.at # "queued" PROVE moves = {} /\ failed = {}
  BY DEF MovesInv

LEMMA ByCompareFolders == ASSUME SyncInv, CompareFolders PROVE SyncInv'
<1>1. moves = {} /\ failed = {}
  BY NoMoves DEF SyncInv, CompareFolders
<1>2. PICK dir \in Dirs, del \in BOOLEAN, ex \in Excludes :
        job' = [at |-> "local", root |-> lcwd, dir |-> dir, del |-> del, excludes |-> ex, whole |-> TRUE]
  BY DEF CompareFolders, Dirs
<1>3. job' \in Jobs /\ job'.at = "local"
  BY <1>2 DEF Jobs, Stages, SyncInv, TreesInv
<1>4. UNCHANGED <<disk, host, lcwd, seenL, seenR, plan, moves, failed, saves>> /\ job.at = "none"
  BY DEF CompareFolders, trees
<1> QED
  BY <1>1, <1>3, <1>4 DEF SyncInv, TreesInv, NamesChecked, JobInv, PlanInv, MovesInv

LEMMA ByWalkLocal == ASSUME SyncInv, WalkLocal PROVE SyncInv'
<1>1. moves = {} /\ failed = {}
  BY NoMoves DEF SyncInv, WalkLocal
<1>2. PICK un : seenL' = Walk(disk[job.root], un) /\ job' = [job EXCEPT !.at = "remote", !.whole = un = {}]
  BY DEF WalkLocal
<1>3. UNCHANGED <<disk, host, lcwd, seenR, plan, moves, failed, saves>> /\ job.at = "local"
  BY DEF WalkLocal, trees
<1>4. (un = {}) \in BOOLEAN
  OBVIOUS
<1>5. job' \in Jobs /\ job'.at = "remote"
  BY <1>2, <1>4 DEF Jobs, Stages, SyncInv, JobInv
<1>6. Walked(seenL')
  BY <1>2, WalkIs DEF SyncInv, TreesInv, JobInv, Jobs
<1> QED
  BY <1>1, <1>3, <1>5, <1>6 DEF SyncInv, TreesInv, NamesChecked, JobInv, PlanInv, MovesInv, Walked

LEMMA ByWalkRemote == ASSUME SyncInv, WalkRemote PROVE SyncInv'
<1>1. moves = {} /\ failed = {}
  BY NoMoves DEF SyncInv, WalkRemote
<1>2. PICK un : seenR' = Walk(host, un) /\ job' = [job EXCEPT !.at = "posted", !.whole = @ /\ un = {}]
  BY DEF WalkRemote
<1>3. UNCHANGED <<disk, host, lcwd, seenL, moves, failed, saves>> /\ job.at = "remote"
      /\ plan' = BuildPlan(seenL, seenR', job.excludes, job.dir, job.del)
  BY DEF WalkRemote, trees
<1>4. job.whole \in BOOLEAN /\ (job.whole /\ un = {}) \in BOOLEAN
  BY DEF SyncInv, JobInv, Jobs
<1>5. job' \in Jobs /\ job'.at = "posted"
      /\ job'.excludes = job.excludes /\ job'.dir = job.dir /\ job'.del = job.del
  BY <1>2, <1>4 DEF Jobs, Stages, SyncInv, JobInv
<1>6. Walked(seenR')
  BY <1>2, WalkIs DEF SyncInv, TreesInv
<1>7. PlanInv'
  BY <1>3, <1>5 DEF PlanInv
<1> QED
  BY <1>1, <1>3, <1>5, <1>6, <1>7 DEF SyncInv, TreesInv, NamesChecked, JobInv, MovesInv, Walked

LEMMA ByNavigateLocal == ASSUME SyncInv, NavigateLocal PROVE SyncInv'
<1>1. moves = {} /\ failed = {}
  BY NoMoves DEF SyncInv, NavigateLocal
<1>2. UNCHANGED <<disk, host, job, seenL, seenR, plan, moves, failed, saves>> /\ lcwd' \in Range(Folders)
  BY DEF NavigateLocal, trees
<1> QED
  BY <1>1, <1>2 DEF SyncInv, TreesInv, NamesChecked, JobInv, PlanInv, MovesInv

LEMMA ByDecline == ASSUME SyncInv, Decline PROVE SyncInv'
<1>1. moves = {} /\ failed = {}
  BY NoMoves DEF SyncInv, Decline
<1>2. UNCHANGED <<disk, host, lcwd, seenL, seenR, plan, moves, failed, saves>>
      /\ job.at = "posted" /\ job' = [job EXCEPT !.at = "declined"]
  BY DEF Decline, trees
<1>3. job' \in Jobs /\ job'.at = "declined"
      /\ job'.excludes = job.excludes /\ job'.dir = job.dir /\ job'.del = job.del
  BY <1>2 DEF Jobs, Stages, SyncInv, JobInv
<1> QED
  BY <1>1, <1>2, <1>3 DEF SyncInv, TreesInv, NamesChecked, JobInv, PlanInv, MovesInv

LEMMA MakesParents ==
  ASSUME NEW tree \in [Paths -> Entry], NEW ps, ps \subseteq Paths, \A p \in ps : SafeName(p)
  PROVE  /\ MakeParents(tree, ps) \in [Paths -> Entry]
         /\ \A q \in Paths : \/ MakeParents(tree, ps)[q] = tree[q]
                             \/ /\ MakeParents(tree, ps)[q] = Dir /\ tree[q].is = "none"
                                /\ SafeName(q) /\ \E p \in ps : Under(q, p)
<1>1. \A q \in Paths, p \in ps : Under(q, p) => SafeName(q)
  BY SafeAbove
<1> QED
  BY <1>1, EntryFacts DEF MakeParents

LEMMA ByShowPlan == ASSUME SyncInv, ShowPlan PROVE SyncInv'
<1> DEFINE wanted == {i \in DOMAIN plan : plan[i].act \in Up \cup Down /\ SafeName(plan[i].path)}
           fetched == {i \in wanted : plan[i].act \in Down}
           below == {plan[i].path : i \in fetched}
<1>1. moves = {} /\ failed = {} /\ plan = BuildPlan(seenL, seenR, job.excludes, job.dir, job.del)
  BY NoMoves DEF SyncInv, ShowPlan, PlanInv
<1>2. /\ moves' = {[at |-> i, down |-> i \in fetched, path |-> plan[i].path, root |-> lcwd] : i \in wanted}
      /\ disk' = [disk EXCEPT ![lcwd] = MakeParents(@, below)]
      /\ job' = [job EXCEPT !.at = "queued"] /\ job.at = "posted"
      /\ UNCHANGED <<host, lcwd, seenL, seenR, plan, failed, saves>>
  BY DEF ShowPlan
<1>3. \A i \in DOMAIN plan : plan[i].path \in Paths
  BY <1>1, PlanIs DEF SyncInv, JobInv
<1>4. below \subseteq Paths /\ \A p \in below : SafeName(p)
  BY <1>3
<1>5. job' \in Jobs /\ job'.at = "queued"
      /\ job'.excludes = job.excludes /\ job'.dir = job.dir /\ job'.del = job.del
  BY <1>2 DEF Jobs, Stages, SyncInv, JobInv
<1>6. MovesInv'
  <2> SUFFICES ASSUME NEW x \in moves' PROVE \E i \in DOMAIN plan' : ToMove(i)' /\ x = MoveOf(i)'
    BY <1>1, <1>2, <1>5 DEF MovesInv
  <2>1. PICK i \in wanted : x = [at |-> i, down |-> i \in fetched, path |-> plan[i].path, root |-> lcwd]
    BY <1>2
  <2>2. ToMove(i) /\ ((i \in fetched) = (plan[i].act \in Down))
    BY DEF ToMove
  <2>3. ToMove(i)' /\ x = MoveOf(i)'
    BY <1>2, <2>1, <2>2 DEF ToMove, MoveOf
  <2> QED
    BY <2>3 DEF ToMove
<1>7. TreesInv' /\ NamesChecked'
  <2>1. disk[lcwd] \in [Paths -> Entry] /\ lcwd \in Range(Folders)
    BY DEF SyncInv, TreesInv
  <2> HIDE DEF wanted, fetched, below
  <2>2. disk'[lcwd] = MakeParents(disk[lcwd], below) /\ \A f \in Range(Folders) : f # lcwd => disk'[f] = disk[f]
    BY <1>2, <2>1 DEF SyncInv, TreesInv
  <2>3. disk' \in [Range(Folders) -> [Paths -> Entry]]
    BY <1>2, <1>4, <2>1, MakesParents DEF SyncInv, TreesInv
  <2>4. TreesInv'
    BY <1>2, <2>3 DEF SyncInv, TreesInv
  <2>5. NamesChecked'
    BY <1>4, <2>1, <2>2, MakesParents DEF SyncInv, NamesChecked
  <2> QED
    BY <2>4, <2>5
<1>8. JobInv' /\ PlanInv'
  BY <1>1, <1>2, <1>5 DEF SyncInv, JobInv, PlanInv
<1> QED
  BY <1>6, <1>7, <1>8 DEF SyncInv

LEMMA Copies ==
  ASSUME NEW src \in Entry, NEW dst \in Entry PROVE Copy(src, dst) \in Entry /\ Copy(src, dst).is = "file"
  BY SyncAssumption DEF Copy, Entry, TimeOfCopy

LEMMA ByRunTransfer == ASSUME SyncInv, RunTransfer PROVE SyncInv'
<1>1. PICK x \in moves :
        /\ moves' = moves \ {x}
        /\ \/ /\ UNCHANGED failed /\ x.down /\ UNCHANGED host
              /\ disk' = [disk EXCEPT ![x.root][x.path] = Copy(host[x.path], disk[x.root][x.path])]
           \/ /\ UNCHANGED failed /\ ~x.down /\ UNCHANGED disk
              /\ host' = [host EXCEPT ![x.path] = Copy(disk[x.root][x.path], host[x.path])]
           \/ failed' = failed \cup {x} /\ UNCHANGED <<disk, host>>
  BY DEF RunTransfer, trees
<1>2. job.at = "queued" /\ UNCHANGED <<lcwd, job, seenL, seenR, plan, saves>>
  BY DEF RunTransfer
<1>3. x.path \in Paths /\ SafeName(x.path) /\ x.root \in Range(Folders)
  BY MoveFacts DEF SyncInv, TreesInv
<1>4. disk[x.root][x.path] \in Entry /\ host[x.path] \in Entry
  BY <1>3 DEF SyncInv, TreesInv
<1>5. TreesInv' /\ NamesChecked'
  <2>1. CASE x.down /\ host' = host /\ disk' = [disk EXCEPT ![x.root][x.path] = Copy(host[x.path], disk[x.root][x.path])]
    BY <1>2, <1>3, <1>4, <2>1, Copies DEF SyncInv, TreesInv, NamesChecked
  <2>2. CASE disk' = disk /\ host' = [host EXCEPT ![x.path] = Copy(disk[x.root][x.path], host[x.path])]
    BY <1>2, <1>3, <1>4, <2>2, Copies DEF SyncInv, TreesInv, NamesChecked
  <2>3. CASE UNCHANGED <<disk, host>>
    BY <1>2, <2>3 DEF SyncInv, TreesInv, NamesChecked
  <2> QED
    BY <1>1, <2>1, <2>2, <2>3
<1>6. MovesInv'
  <2>1. moves' \cup failed' \subseteq moves \cup failed
    BY <1>1
  <2> QED
    BY <1>2, <2>1 DEF SyncInv, MovesInv, ToMove, MoveOf
<1>7. JobInv' /\ PlanInv'
  BY <1>2 DEF SyncInv, JobInv, PlanInv
<1> QED
  BY <1>5, <1>6, <1>7 DEF SyncInv

LEMMA Saving ==
  ASSUME TreesInv, NEW tree \in [Paths -> Entry], NEW p \in Paths
  PROVE  /\ SavedAt(tree, p) \in [Paths -> Entry]
         /\ \A q \in Paths : q # p => SavedAt(tree, p)[q] = tree[q]
<1>1. Clock + saves \in Nat
  BY SyncAssumption DEF TreesInv
<1>2. tree[p] \in Entry
  OBVIOUS
<1>3. [is |-> "file", link |-> tree[p].link, size |-> 1, time |-> Clock + saves] \in Entry
  BY <1>1, <1>2 DEF Entry
<1> QED
  BY <1>3 DEF SavedAt

LEMMA BySomebodySaves == ASSUME SyncInv, SomebodySaves PROVE SyncInv'
<1>1. UNCHANGED <<lcwd, job, seenL, seenR, plan, moves, failed>> /\ saves < MaxSaves /\ saves' = saves + 1
  BY DEF SomebodySaves
<1>2. PICK p \in Paths :
        \/ host' = SavedAt(host, p) /\ UNCHANGED disk
        \/ SafeName(p) /\ disk' = [disk EXCEPT ![job.root] = SavedAt(@, p)] /\ UNCHANGED host
  BY DEF SomebodySaves
<1>3. TreesInv /\ job.root \in Range(Folders) /\ disk[job.root] \in [Paths -> Entry] /\ host \in [Paths -> Entry]
  BY DEF SyncInv, TreesInv, JobInv, Jobs
<1>4. saves' \in 0 .. MaxSaves
  BY <1>1, SyncAssumption DEF SyncInv, TreesInv
<1>5. TreesInv' /\ NamesChecked'
  <2>1. CASE host' = SavedAt(host, p) /\ UNCHANGED disk
    BY <1>1, <1>3, <1>4, <2>1, Saving DEF SyncInv, TreesInv, NamesChecked
  <2>2. CASE SafeName(p) /\ disk' = [disk EXCEPT ![job.root] = SavedAt(@, p)] /\ UNCHANGED host
    <3>1. SavedAt(disk[job.root], p) \in [Paths -> Entry]
          /\ \A q \in Paths : q # p => SavedAt(disk[job.root], p)[q] = disk[job.root][q]
      BY <1>3, Saving
    <3>2. TreesInv'
      BY <1>1, <1>3, <1>4, <2>2, <3>1 DEF TreesInv
    <3>3. NamesChecked'
      BY <1>3, <2>2, <3>1 DEF SyncInv, TreesInv, NamesChecked
    <3> QED
      BY <3>2, <3>3
  <2> QED
    BY <1>2, <2>1, <2>2
<1>6. JobInv' /\ PlanInv' /\ MovesInv'
  BY <1>1 DEF SyncInv, JobInv, PlanInv, MovesInv, ToMove, MoveOf
<1> QED
  BY <1>5, <1>6 DEF SyncInv

LEMMA SyncKeeps == ASSUME SyncInv, [SyncNext]_syncVars PROVE SyncInv'
<1>1. ASSUME UNCHANGED syncVars PROVE SyncInv'
  BY <1>1 DEF syncVars, SyncInv, TreesInv, NamesChecked, JobInv, PlanInv, MovesInv, ToMove, MoveOf
<1> QED
  BY <1>1, ByCompareFolders, ByWalkLocal, ByWalkRemote, ByNavigateLocal, ByShowPlan, ByDecline,
     ByRunTransfer, BySomebodySaves DEF SyncNext

\* Whatever two trees are compared in whichever direction, with directories that will not be
\* listed and files saved at any moment, the plan of BuildPlan (SyncPlan.cpp) can be executed
\* top to bottom, is the same plan from either side, and nothing with a refused name is made
\* on this machine.
THEOREM PlansAreSound == SyncSpec => []PlanSound
<1> QED
  BY SyncStarts, SyncKeeps, SoundSync, PTL DEF SyncSpec

----------------------------------------------------------------------------
(* What is left alone.                                                     *)

LEMMA ExcludedMore ==
  ASSUME NEW ex, NEW p \in Paths, NEW b
  PROVE  Excluded(ex, p, FALSE) => Excluded(ex, p, b)
  BY DEF Excluded, MatchGlob

LEMMA KeptOutIs ==
  /\ \A p \in Paths : KeptOut(p) => \A b : Excluded(job.excludes, p, b)
  /\ \A p \in Paths, q \in Paths : KeptOut(q) /\ Under(q, p) => KeptOut(p)
<1>1. \A p \in Paths : KeptOut(p) => \A b : Excluded(job.excludes, p, b)
  BY DEF KeptOut, Excluded, MatchGlob
<1>2. \A p \in Paths, q \in Paths : KeptOut(q) /\ Under(q, p) => KeptOut(p)
  BY UnderFacts DEF KeptOut
<1> QED
  BY <1>1, <1>2

\* What step i of the plan does, and to which path.
LEMMA StepIs ==
  ASSUME SyncInv, NEW i \in DOMAIN plan
  PROVE  /\ Walked(seenL) /\ Walked(seenR) /\ job.dir \in Dirs
         /\ plan = BuildPlan(seenL, seenR, job.excludes, job.dir, job.del)
         /\ plan[i].path \in Paths
         /\ plan[i].path \in Kept(seenL, job.excludes) \cup Kept(seenR, job.excludes)
         /\ plan[i].act = Acting(seenL, seenR, job.excludes, job.dir, job.del)[plan[i].path]
<1>1. Walked(seenL) /\ Walked(seenR) /\ job.dir \in Dirs
  BY DEF SyncInv, JobInv, Jobs
<1>2. plan # <<>>
  OBVIOUS
<1>3. plan = BuildPlan(seenL, seenR, job.excludes, job.dir, job.del)
  BY <1>2 DEF SyncInv, PlanInv
<1>4. DOMAIN Acting(seenL, seenR, job.excludes, job.dir, job.del)
        = Kept(seenL, job.excludes) \cup Kept(seenR, job.excludes)
  BY DEF Acting
<1> QED
  BY <1>1, <1>3, <1>4, PlanIs

LEMMA PlannedKept == ASSUME SyncInv, NEW i \in DOMAIN plan PROVE ~KeptOut(plan[i].path)
  BY StepIs, KeptOutIs DEF Kept

LEMMA MovedKept ==
  ASSUME SyncInv, NEW x \in moves PROVE x.path \in Paths /\ ~KeptOut(x.path)
  BY PlannedKept, MoveFacts DEF SyncInv, PutBy

LEMMA ExcludedStep ==
  ASSUME SyncInv, [SyncNext]_syncVars, NEW p \in Paths, KeptOut(p), saves' = saves
  PROVE  host'[p] = host[p] /\ \A f \in Range(Folders) : disk'[f][p] = disk[f][p]
<1>1. CASE UNCHANGED <<disk, host>>
  BY <1>1
<1>2. CASE ShowPlan
  <2> DEFINE wanted == {i \in DOMAIN plan : plan[i].act \in Up \cup Down /\ SafeName(plan[i].path)}
             fetched == {i \in wanted : plan[i].act \in Down}
             below == {plan[i].path : i \in fetched}
  <2>1. disk' = [disk EXCEPT ![lcwd] = MakeParents(@, below)] /\ host' = host
    BY <1>2 DEF ShowPlan
  <2>2. below \subseteq Paths /\ \A q \in below : SafeName(q) /\ ~KeptOut(q)
    BY StepIs, PlannedKept
  <2>3. ~\E q \in below : Under(p, q)
    BY <2>2, KeptOutIs
  <2> HIDE DEF wanted, fetched, below
  <2>4. lcwd \in Range(Folders) /\ disk[lcwd] \in [Paths -> Entry]
    BY DEF SyncInv, TreesInv
  <2>5. MakeParents(disk[lcwd], below)[p] = disk[lcwd][p]
    BY <2>2, <2>3, <2>4, MakesParents
  <2> QED
    BY <2>1, <2>4, <2>5 DEF SyncInv, TreesInv
<1>3. CASE RunTransfer
  <2>1. PICK x \in moves :
          \/ UNCHANGED host /\ disk' = [disk EXCEPT ![x.root][x.path] = Copy(host[x.path], disk[x.root][x.path])]
          \/ UNCHANGED disk /\ host' = [host EXCEPT ![x.path] = Copy(disk[x.root][x.path], host[x.path])]
          \/ UNCHANGED <<disk, host>>
    BY <1>3 DEF RunTransfer, trees
  <2>2. x.path # p /\ x.path \in Paths
    BY MovedKept
  <2> QED
    BY <2>1, <2>2 DEF SyncInv, TreesInv
<1>4. CASE SomebodySaves
  BY <1>4, SyncAssumption DEF SomebodySaves, SyncInv, TreesInv
<1> QED
  BY <1>1, <1>2, <1>3, <1>4 DEF SyncNext, syncVars, trees, CompareFolders, WalkLocal, WalkRemote,
     NavigateLocal, Decline

\* The older of two files is planned over the newer one only where that is a directory.
LEMMA OlderDown ==
  ASSUME NEW l, Walked(l), NEW r, Walked(r), NEW ex, NEW dir \in Dirs, NEW del,
         NEW p \in Kept(l, ex) \cup Kept(r, ex), Acting(l, r, ex, dir, del)[p] \in Down,
         Newer(At(l, p), At(r, p))
  PROVE  At(l, p).is = "dir"
<1> DEFINE st == Compare(l, r, ex)[p]  a == Action(st, At(l, p), At(r, p), dir, del)
<1>1. a \in Down /\ p \in Paths
  BY DEF Acting, Walked, Kept
<1>2. CASE p \notin Kept(r, ex)
  <2>1. st = "LocalOnly"
    BY <1>2, CompareIs
  <2>2. a = OfOneSide(st, At(l, p), dir, del)
    BY <2>1, ActionIs
  <2> QED
    BY <1>1, <2>1, <2>2 DEF OfOneSide, Down
<1>3. CASE p \notin Kept(l, ex)
  <2>1. p \in DOMAIN l
    BY EntryFacts DEF Newer, At
  <2>2. Excluded(ex, p, l[p].is = "dir") /\ p \in DOMAIN r /\ ~Excluded(ex, p, r[p].is = "dir")
    BY <1>3, <2>1 DEF Kept
  <2>3. (l[p].is = "dir") # FALSE
    BY <1>1, <2>2, ExcludedMore
  <2> QED
    BY <2>1, <2>3 DEF At
<1>4. CASE p \in Kept(l, ex) /\ p \in Kept(r, ex)
  <2>1. At(l, p) = l[p] /\ At(r, p) = r[p] /\ l[p] \in Entry /\ r[p] \in Entry /\ st = OfTwo(l[p], r[p])
    BY <1>4, CompareIs DEF Kept, At, Walked
  <2>2. l[p].time \in Nat /\ r[p].time \in Nat
    BY <2>1 DEF Entry
  <2>3. OfTwoFiles(l[p], r[p]) = "LocalNewer"
    BY <2>1, <2>2 DEF OfTwoFiles, Newer, SameTime, Tolerance
  <2>4. st \in {"TypeDiffers", "Uncertain", "Identical", "LocalNewer"}
    BY <2>1, <2>3 DEF OfTwo
  <2>5. a \in {"Conflict", "Skip"} \/ a = OfNewer("LocalNewer", dir)
    BY <2>4, ActionIs
  <2> QED
    BY <1>1, <2>5 DEF OfNewer, Replaces, Down, Dirs
<1> QED
  BY <1>2, <1>3, <1>4

LEMMA OlderUp ==
  ASSUME NEW l, Walked(l), NEW r, Walked(r), NEW ex, NEW dir \in Dirs, NEW del,
         NEW p \in Kept(l, ex) \cup Kept(r, ex), Acting(l, r, ex, dir, del)[p] \in Up,
         Newer(At(r, p), At(l, p))
  PROVE  At(r, p).is = "dir"
<1>1. Other(dir) \in Dirs
  <2>1. Other("toRemote") = "toLocal" /\ Other("toLocal") = "toRemote" /\ Other("twoWay") = "twoWay"
    BY Zenon DEF Other
  <2> QED
    BY <2>1 DEF Dirs
<1>2. Acting(r, l, ex, Other(dir), del)[p] = Mirror(Acting(l, r, ex, dir, del)[p])
  <2>1. DOMAIN Acting(l, r, ex, dir, del) = Kept(l, ex) \cup Kept(r, ex)
    BY DEF Acting
  <2> QED
    BY <2>1, ActingMirrors
<1>3. Acting(r, l, ex, Other(dir), del)[p] \in Down
  BY <1>2, MirrorIs DEF Up, Down
<1> QED
  BY <1>1, <1>3, OlderDown

LEMMA NewerStep ==
  ASSUME SyncInv, [SyncNext]_syncVars, NEW x \in moves, InPlace(x), AsSeen(x),
         Newer(Dst(x)[x.path], Src(x)[x.path])
  PROVE  Dst(x)'[x.path] = Dst(x)[x.path] \/ saves' # saves
<1>1. CASE UNCHANGED <<disk, host>>
  BY <1>1 DEF Dst
<1>2. CASE ShowPlan
  BY <1>2, NoMoves DEF ShowPlan, SyncInv
<1>3. CASE SomebodySaves
  BY <1>3, SyncAssumption DEF SomebodySaves, SyncInv, TreesInv
<1>4. CASE RunTransfer
  <2>0. PICK y \in moves :
          \/ UNCHANGED <<disk, host>>
          \/ /\ y.down /\ UNCHANGED host /\ Opens(disk[y.root], y.path)
             /\ disk' = [disk EXCEPT ![y.root][y.path] = Copy(host[y.path], disk[y.root][y.path])]
          \/ /\ ~y.down /\ UNCHANGED disk /\ Opens(host, y.path)
             /\ host' = [host EXCEPT ![y.path] = Copy(disk[y.root][y.path], host[y.path])]
    BY <1>4 DEF RunTransfer, trees
  <2>1. /\ x.root = lcwd /\ y.root = lcwd /\ lcwd \in Range(Folders)
        /\ x.down \in BOOLEAN /\ y.down \in BOOLEAN /\ x.path \in Paths /\ y.path \in Paths
    BY MoveFacts DEF SyncInv, TreesInv
  <2>2. PICK i \in DOMAIN plan : PutBy(x, i)
    BY MoveFacts DEF SyncInv
  <2>3. PICK j \in DOMAIN plan : PutBy(y, j)
    BY MoveFacts DEF SyncInv
  <2>4. ASSUME y.path = x.path PROVE y.down = x.down
    <3>1. plan[i].act = plan[j].act
      BY <2>2, <2>3, <2>4, StepIs DEF PutBy
    <3> QED
      BY <2>1, <2>2, <2>3, <3>1 DEF PutBy, Up, Down
  <2>5. CASE x.down
    <3>1. disk[lcwd][x.path] = At(seenL, x.path) /\ host[x.path] = At(seenR, x.path)
          /\ Newer(disk[lcwd][x.path], host[x.path])
      BY <2>1, <2>5 DEF AsSeen, Src, Dst
    <3>2. disk[lcwd][x.path].is = "dir"
      BY <2>2, <2>5, <3>1, StepIs, OlderDown DEF PutBy
    <3>3. ~Opens(disk[lcwd], x.path)
      BY <3>2 DEF Opens
    <3>4. disk'[lcwd][x.path] = disk[lcwd][x.path]
      BY <2>0, <2>1, <3>3 DEF SyncInv, TreesInv
    <3> QED
      BY <2>1, <2>5, <3>4 DEF Dst
  <2>6. CASE ~x.down
    <3>1. host[x.path] = At(seenR, x.path) /\ disk[lcwd][x.path] = At(seenL, x.path)
          /\ Newer(host[x.path], disk[lcwd][x.path])
      BY <2>1, <2>6 DEF AsSeen, Src, Dst
    <3>2. host[x.path].is = "dir"
      BY <2>2, <2>6, <3>1, StepIs, OlderUp DEF PutBy
    <3>3. ~Opens(host, x.path)
      BY <3>2 DEF Opens
    <3>4. host'[x.path] = host[x.path]
      BY <2>0, <2>1, <3>3 DEF SyncInv, TreesInv
    <3> QED
      BY <2>6, <3>4 DEF Dst
  <2> QED
    BY <2>5, <2>6
<1> QED
  BY <1>1, <1>2, <1>3, <1>4 DEF SyncNext, syncVars, trees, CompareFolders, WalkLocal, WalkRemote,
     NavigateLocal, Decline

\* Whatever changes on either side while a sync runs, no transfer of it writes over a file newer
\* than its source that is as the walks saw it, and a path a pattern keeps out is not touched in
\* any folder (BuildPlan in SyncPlan.cpp, ShowPlan and RunTransfer in SftpBrowser.cpp).
THEOREM RestIsLeftAlone == SyncSpec => LeftAlone
<1>1. ASSUME SyncInv, [SyncNext]_syncVars
      PROVE  \A x \in moves : InPlace(x) /\ AsSeen(x) /\ Newer(Dst(x)[x.path], Src(x)[x.path])
               => Dst(x)'[x.path] = Dst(x)[x.path] \/ saves' # saves
  BY <1>1, NewerStep
<1>2. ASSUME SyncInv, [SyncNext]_syncVars
      PROVE  \A p \in Paths : KeptOut(p) /\ saves' = saves =>
               host'[p] = host[p] /\ \A f \in Range(Folders) : disk'[f][p] = disk[f][p]
  BY <1>2, ExcludedStep
<1> QED
  BY <1>1, <1>2, SyncStarts, SyncKeeps, PTL DEF SyncSpec, LeftAlone, NewerSurvives, ExcludedUntouched

----------------------------------------------------------------------------
(* What a sync nobody interferes with has done so far.                     *)

\* Every path two walks keep has its step in the plan, and only one.
LEMMA PlanCovers ==
  ASSUME NEW l, Walked(l), NEW r, Walked(r), NEW ex, NEW dir, NEW del,
         NEW acting, acting = Acting(l, r, ex, dir, del),
         NEW steps, steps = BuildPlan(l, r, ex, dir, del)
  PROVE  /\ \A p \in DOMAIN acting : \E i \in DOMAIN steps : steps[i] = [act |-> acting[p], path |-> p]
         /\ \A i \in DOMAIN steps, j \in DOMAIN steps : steps[i].path = steps[j].path => i = j
<1> DEFINE part == PartOf(acting)
           order == Sorted(part)
           S == DOMAIN part
           n == Cardinality(S)
<1>1. S = DOMAIN acting /\ S \subseteq Paths /\ \A p \in S : part[p] \in 1 .. 3
  BY PlanIs, PartIs DEF PartOf
<1>2. steps = [i \in DOMAIN order |-> [act |-> acting[order[i]], path |-> order[i]]]
  BY BuildPlanIs
<1>3. /\ DOMAIN order = 1 .. n /\ n \in Nat
      /\ \A i \in 1 .. n : order[i] \in S
      /\ \A i \in 1 .. n, j \in 1 .. n : i < j => Sooner(part, order[i], order[j])
  BY <1>1, SortedIs
<1>4. IsFiniteSet(S)
  BY <1>1, PathsFinite, FS_Subset
<1>5. \A p \in S : ~Sooner(part, p, p)
  <2> SUFFICES ASSUME NEW p \in S PROVE ~Sooner(part, p, p)
    OBVIOUS
  <2>1. part[p] \in Int /\ Depth(part[p], p) \in Int /\ Place(p) \in Int
    BY <1>1, PathFacts, PlaceIs DEF Depth
  <2> HIDE DEF part
  <2> QED
    BY <2>1 DEF Sooner
<1> HIDE DEF order, part, n, S
<1>6. \A i \in 1 .. n, j \in 1 .. n : order[i] = order[j] => i = j
  <2> SUFFICES ASSUME NEW i \in 1 .. n, NEW j \in 1 .. n, order[i] = order[j], i # j PROVE FALSE
    OBVIOUS
  <2>1. i < j \/ j < i
    BY <1>3
  <2> QED
    BY <1>3, <1>5, <2>1
<1>7. order \in Injection(1 .. n, S)
  <2>1. order = [i \in 1 .. n |-> order[i]]
    <3>1. order = Sorted(part)
      BY DEF order
    <3>2. DOMAIN Sorted(part) = 1 .. n /\ Sorted(part) \in [1 .. n -> S]
      BY <1>1, SortedIs DEF n, S
    <3> QED
      BY <3>1, <3>2
  <2> QED
    BY <1>3, <1>6, <2>1 DEF Injection, IsInjective
<1>8. IsFiniteSet(1 .. n) /\ Cardinality(1 .. n) = n
  BY <1>3, FS_Interval
<1>9. order \in Surjection(1 .. n, S)
  BY <1>4, <1>7, <1>8, FS_Injection DEF n
<1>10. \A p \in S : \E i \in 1 .. n : order[i] = p
  BY <1>9 DEF Surjection
<1> QED
  BY <1>1, <1>2, <1>3, <1>6, <1>10

\* Of any paths one is the shortest.
LEMMA Shortest ==
  ASSUME NEW S, S \subseteq Paths, S # {} PROVE \E q \in S : \A o \in S : ~Under(o, q)
<1> DEFINE part == [p \in S |-> 1]
           n == Cardinality(S)
           s == Sorted(part)
<1>1. DOMAIN part = S /\ \A p \in S : part[p] = 1
  OBVIOUS
<1>2. /\ s \in [1 .. n -> S] /\ n \in Nat
      /\ \A i \in 1 .. n, j \in 1 .. n : i < j => Sooner(part, s[i], s[j])
  BY <1>1, SortedIs
<1> HIDE DEF part, s
<1>3. \A p \in S : Place(p) \in Nat /\ Len(p) \in Nat
  BY PlaceIs, PathFacts
<1>4. \A p, q \in S : Sooner(part, p, q) => Len(p) <= Len(q) /\ p # q
  BY <1>1, <1>3 DEF Sooner, Depth
<1>5. IsFiniteSet(S)
  BY PathsFinite, FS_Subset
<1>6. s \in Injection(1 .. n, S)
  <2>1. \A i \in 1 .. n, j \in 1 .. n : s[i] = s[j] => i = j
    <3> SUFFICES ASSUME NEW i \in 1 .. n, NEW j \in 1 .. n, s[i] = s[j], i # j PROVE FALSE
      OBVIOUS
    <3>1. i < j \/ j < i
      BY <1>2
    <3>2. s[i] \in S /\ s[j] \in S
      BY <1>2
    <3> QED
      BY <1>2, <1>4, <3>1, <3>2
  <2> QED
    BY <1>2, <2>1 DEF Injection, IsInjective
<1>7. IsFiniteSet(1 .. n) /\ Cardinality(1 .. n) = n
  BY <1>2, FS_Interval
<1>8. \A p \in S : \E i \in 1 .. n : s[i] = p
  <2>1. s \in Surjection(1 .. n, S)
    BY <1>5, <1>6, <1>7, FS_Injection
  <2> QED
    BY <2>1 DEF Surjection
<1>9. n # 0
  BY <1>5, FS_EmptySet
<1>10. 1 \in 1 .. n
  BY <1>2, <1>9
<1>11. \A o \in S : Len(s[1]) <= Len(o)
  <2> SUFFICES ASSUME NEW o \in S PROVE Len(s[1]) <= Len(o)
    OBVIOUS
  <2>1. PICK i \in 1 .. n : s[i] = o
    BY <1>8
  <2>2. i = 1 \/ 1 < i
    BY <1>2
  <2>3. s[1] \in S /\ Len(s[1]) \in Nat
    BY <1>2, <1>3, <1>10
  <2> QED
    BY <1>2, <1>4, <1>10, <2>1, <2>2, <2>3
<1>12. s[1] \in S
  BY <1>2, <1>10
<1>13. \A o \in S : ~Under(o, s[1])
  <2> SUFFICES ASSUME NEW o \in S, Under(o, s[1]) PROVE FALSE
    OBVIOUS
  <2>1. Len(o) < Len(s[1]) /\ Len(s[1]) <= Len(o)
    BY <1>11, <1>12, UnderFacts
  <2>2. Len(o) \in Nat /\ Len(s[1]) \in Nat
    BY <1>3, <1>12
  <2> QED
    BY <2>1, <2>2
<1> QED
  BY <1>12, <1>13

LEMMA WalkFacts ==
  ASSUME NEW tree \in [Paths -> Entry]
  PROVE  /\ \A p \in Paths : p \in DOMAIN Walk(tree, {}) <=>
              tree[p].is # "none" /\ \A q \in Paths : Under(q, p) => tree[q].is = "dir" /\ ~tree[q].link
         /\ DOMAIN Walk(tree, {}) \subseteq Paths
         /\ \A p \in DOMAIN Walk(tree, {}) : Walk(tree, {})[p] = tree[p]
  BY DEF Walk

\* What a walk does not reach in a tree lies behind a link it does.
LEMMA BehindLink ==
  ASSUME NEW tree \in [Paths -> Entry], Grounded(tree), NEW p \in Paths,
         tree[p].is # "none", p \notin DOMAIN Walk(tree, {})
  PROVE  \E q \in Paths : Under(q, p) /\ q \in DOMAIN Walk(tree, {}) /\ tree[q].link
<1> DEFINE S == {q \in Paths : Under(q, p) /\ tree[q].link}
<1>1. \A q \in Paths : Under(q, p) => tree[q].is = "dir"
  BY DEF Grounded
<1>2. S # {}
  BY <1>1, WalkFacts
<1>3. PICK q \in S : \A o \in S : ~Under(o, q)
  <2>1. S \subseteq Paths
    OBVIOUS
  <2> HIDE DEF S
  <2> QED
    BY <1>2, <2>1, Shortest
<1>4. \A o \in Paths : Under(o, q) => tree[o].is = "dir" /\ ~tree[o].link
  BY <1>1, <1>3, UnderFacts
<1> QED
  BY <1>1, <1>3, <1>4, WalkFacts

Here == disk[job.root]
Foretold(x) ==
  \/ \E q \in Above(x.path) \cup {x.path} : Hidden(q) \/ "Conflict" \in ActOf(q)
  \/ ~x.down /\ \E q \in Above(x.path) : "MkdirRemote" \in ActOf(q)
\* The file of step i is on both sides, with the source's size and time on the copy.
Arrived(i) ==
  LET p == plan[i].path
      src == IF plan[i].act \in Down THEN host[p] ELSE Here[p]
      dst == IF plan[i].act \in Down THEN Here[p] ELSE host[p]
  IN  src.is = "file" /\ dst.is = "file" /\ dst.size = src.size /\ dst.time = TimeOfCopy(src)

\* L and R are the trees the walks listed.
Began(L, R) == Grounded(L) /\ Grounded(R) /\ seenL = Walk(L, {}) /\ seenR = Walk(R, {})
\* What a path has become: it is as it was, or a directory made for what goes below it, or a
\* file that a transfer wrote where no directory was.
SameHere(L, p) == Here[p] = L[p]
MadeHere(L, p) ==
  /\ Here[p] = Dir /\ L[p].is = "none"
  /\ \E i \in DOMAIN plan : ToMove(i) /\ plan[i].act \in Down /\ Under(p, plan[i].path)
Wrote(tree, was, acts, p) ==
  tree[p].is = "file" /\ was[p].is # "dir" /\ \E i \in DOMAIN plan : ToMove(i) /\ plan[i].act \in acts /\ plan[i].path = p
Became(L, R) ==
  \A p \in Paths : /\ SameHere(L, p) \/ MadeHere(L, p) \/ Wrote(Here, L, Down, p)
                   /\ host[p] = R[p] \/ Wrote(host, R, Up, p)
\* A local file has its directories, unless a file was in the way.
Roofed(L) ==
  \A i \in DOMAIN plan : ToMove(i) /\ plan[i].act \in Down =>
    \/ \A q \in Above(plan[i].path) : Here[q].is = "dir"
    \/ \E o \in Above(plan[i].path) : L[o].is = "file"
Delivered == \A i \in DOMAIN plan : ToMove(i) => MoveOf(i) \in moves \cup failed \/ Arrived(i)
Since(L, R) == Began(L, R) /\ Became(L, R) /\ Roofed(L) /\ Delivered /\ \A x \in failed : Foretold(x)

GroundInv == Grounded(host) /\ \A f \in Range(Folders) : Grounded(disk[f])
QuietInv ==
  saves = 0 /\ job.whole =>
    /\ job.at \in {"remote", "posted"} => seenL = Walk(Here, {})
    /\ job.at = "posted" => seenR = Walk(host, {})
    /\ Confirmed => \E L, R \in [Paths -> Entry] : Since(L, R)
FullInv == SyncInv /\ GroundInv /\ QuietInv

----------------------------------------------------------------------------
(* Why a transfer fails.                                                   *)

\* Two things of different kinds, or a link, are a conflict unless a pattern hides one.
LEMMA Clash ==
  ASSUME SyncInv, plan # <<>>, NEW q \in DOMAIN seenL \cap DOMAIN seenR,
         seenL[q].is # seenR[q].is \/ seenL[q].link \/ seenR[q].link
  PROVE  q \in Paths /\ (Hidden(q) \/ "Conflict" \in ActOf(q))
<1> DEFINE acting == Acting(seenL, seenR, job.excludes, job.dir, job.del)
<1>1. Walked(seenL) /\ Walked(seenR) /\ plan = BuildPlan(seenL, seenR, job.excludes, job.dir, job.del)
  BY DEF SyncInv, JobInv, PlanInv
<1>2. q \in Paths
  BY <1>1 DEF Walked
<1>3. ASSUME ~Hidden(q) PROVE "Conflict" \in ActOf(q)
  <2>1. q \in Kept(seenL, job.excludes) /\ q \in Kept(seenR, job.excludes)
    BY <1>3 DEF Hidden, Kept
  <2>2. Compare(seenL, seenR, job.excludes)[q] = OfTwo(seenL[q], seenR[q])
    BY <2>1, CompareIs
  <2>3. OfTwo(seenL[q], seenR[q]) \in {"TypeDiffers", "Uncertain"}
    BY DEF OfTwo
  <2>4. acting[q] = Action(Compare(seenL, seenR, job.excludes)[q], At(seenL, q), At(seenR, q), job.dir, job.del)
        /\ q \in DOMAIN acting
    BY <2>1 DEF Acting
  <2>5. acting[q] = "Conflict"
    BY <2>2, <2>3, <2>4, ActionIs
  <2> HIDE DEF acting
  <2>6. PICK i \in DOMAIN plan : plan[i] = [act |-> acting[q], path |-> q]
    BY <1>1, <2>4, PlanCovers DEF acting
  <2> QED
    BY <2>5, <2>6 DEF ActOf, Range
<1> QED
  BY <1>2, <1>3

\* What is fetched is a file the remote walk kept.
LEMMA Fetches ==
  ASSUME NEW l, Walked(l), NEW r, Walked(r), NEW ex, NEW dir \in Dirs, NEW del,
         NEW p \in Kept(l, ex) \cup Kept(r, ex), Acting(l, r, ex, dir, del)[p] \in Down
  PROVE  p \in Kept(r, ex) /\ r[p].is # "dir" /\ dir # "toRemote"
<1> DEFINE st == Compare(l, r, ex)[p]  a == Action(st, At(l, p), At(r, p), dir, del)
<1>1. a \in Down
  BY DEF Acting
<1>2. CASE p \notin Kept(r, ex)
  <2>1. st = "LocalOnly"
    BY <1>2, CompareIs
  <2>2. a = OfOneSide(st, At(l, p), dir, del)
    BY <2>1, ActionIs
  <2> QED
    BY <1>1, <2>1, <2>2 DEF OfOneSide, Down
<1>3. CASE p \notin Kept(l, ex)
  <2>1. st = "RemoteOnly" /\ p \in Kept(r, ex) /\ At(r, p) = r[p]
    BY <1>3, CompareIs DEF Kept, At
  <2>2. a = OfOneSide(st, r[p], dir, del)
    BY <2>1, ActionIs
  <2>3. r[p].is # "dir" /\ dir # "toRemote"
    BY <1>1, <2>1, <2>2 DEF OfOneSide, Down
  <2> QED
    BY <2>1, <2>3
<1>4. CASE p \in Kept(l, ex) /\ p \in Kept(r, ex)
  <2>1. st = OfTwo(l[p], r[p])
    BY <1>4, CompareIs
  <2>2. st # "Identical"
    BY <1>1, ActionIs DEF Down
  <2>3. st \in {"TypeDiffers", "Uncertain"} => a = "Conflict"
    BY ActionIs
  <2>4. st \notin {"TypeDiffers", "Uncertain"}
    BY <1>1, <2>3 DEF Down
  <2>5. r[p].is # "dir" /\ st \in {"SizeDiffers", "LocalNewer", "RemoteNewer"}
    BY <2>1, <2>2, <2>4 DEF OfTwo, OfTwoFiles
  <2>6. dir # "toRemote"
    <3>1. CASE st = "SizeDiffers"
      BY <1>1, <3>1, ActionIs DEF Down
    <3>2. CASE st \in {"LocalNewer", "RemoteNewer"}
      <4>1. a = OfNewer(st, dir)
        BY <3>2, ActionIs
      <4> QED
        BY <1>1, <4>1 DEF OfNewer, Down
    <3> QED
      BY <2>5, <3>1, <3>2
  <2> QED
    BY <1>4, <2>5, <2>6
<1> QED
  BY <1>2, <1>3, <1>4

LEMMA OtherIs == \A dir \in Dirs : Other(dir) \in Dirs /\ (dir = "toLocal" <=> Other(dir) = "toRemote")
<1>1. Other("toRemote") = "toLocal" /\ Other("toLocal") = "toRemote" /\ Other("twoWay") = "twoWay"
  BY Zenon DEF Other
<1> QED
  BY <1>1 DEF Dirs

LEMMA Sends ==
  ASSUME NEW l, Walked(l), NEW r, Walked(r), NEW ex, NEW dir \in Dirs, NEW del,
         NEW p \in Kept(l, ex) \cup Kept(r, ex), Acting(l, r, ex, dir, del)[p] \in Up
  PROVE  p \in Kept(l, ex) /\ l[p].is # "dir" /\ dir # "toLocal"
<1>1. Acting(r, l, ex, Other(dir), del)[p] = Mirror(Acting(l, r, ex, dir, del)[p])
  <2>1. DOMAIN Acting(l, r, ex, dir, del) = Kept(l, ex) \cup Kept(r, ex)
    BY DEF Acting
  <2> QED
    BY <2>1, ActingMirrors
<1>2. Acting(r, l, ex, Other(dir), del)[p] \in Down
  BY <1>1, MirrorIs DEF Up, Down
<1>3. p \in Kept(l, ex) /\ l[p].is # "dir" /\ Other(dir) # "toRemote"
  BY <1>2, OtherIs, Fetches
<1> QED
  BY <1>3, OtherIs

\* The two ends of a queued transfer when the walks listed them.
LEMMA EndsSeen ==
  ASSUME SyncInv, NEW i \in DOMAIN plan, ToMove(i)
  PROVE  /\ plan[i].path \in Paths
         /\ plan[i].act \in Down => plan[i].path \in DOMAIN seenR /\ seenR[plan[i].path].is # "dir"
         /\ plan[i].act \in Up => plan[i].path \in Kept(seenL, job.excludes) /\ seenL[plan[i].path].is # "dir"
                                  /\ job.dir # "toLocal"
         /\ plan[i].act \in Down <=> plan[i].act \notin Up
<1>1. plan[i].act \in Down <=> plan[i].act \notin Up
  BY DEF ToMove, Up, Down
<1>2. plan[i].act \in Down => plan[i].path \in DOMAIN seenR /\ seenR[plan[i].path].is # "dir"
  BY StepIs, Fetches DEF Kept
<1>3. plan[i].act \in Up => plan[i].path \in Kept(seenL, job.excludes) /\ seenL[plan[i].path].is # "dir"
                             /\ job.dir # "toLocal"
  BY StepIs, Sends
<1> QED
  BY <1>1, <1>2, <1>3, StepIs

LEMMA EntryKinds == \A e \in Entry : e.is \in {"none", "file", "dir"}
  BY DEF Entry

\* Above something a walk reached it reached directories that are no links, and nothing of
\* another kind is on the other side without being a conflict or hidden.
LEMMA SeenAbove ==
  ASSUME NEW tree \in [Paths -> Entry], NEW p \in DOMAIN Walk(tree, {}), NEW q \in Paths, Under(q, p)
  PROVE  q \in DOMAIN Walk(tree, {}) /\ tree[q].is = "dir"
<1>1. p \in Paths /\ \A o \in Paths : Under(o, p) => tree[o].is = "dir" /\ ~tree[o].link
  BY WalkFacts
<1>2. \A o \in Paths : Under(o, q) => tree[o].is = "dir" /\ ~tree[o].link
  BY <1>1, UnderFacts
<1> QED
  BY <1>1, <1>2, WalkFacts

\* A path one walk reached as one kind and the other tree has as another kind is foretold.
LEMMA KindsDiffer ==
  ASSUME SyncInv, plan # <<>>, NEW L \in [Paths -> Entry], NEW R \in [Paths -> Entry], Began(L, R),
         NEW o \in Paths, L[o].is # "none", R[o].is # "none", L[o].is # R[o].is,
         o \in DOMAIN seenL \/ o \in DOMAIN seenR
  PROVE  \E q \in Above(o) \cup {o} : Hidden(q) \/ "Conflict" \in ActOf(q)
<1>0. /\ seenL = Walk(L, {}) /\ seenR = Walk(R, {}) /\ Grounded(L) /\ Grounded(R)
      /\ \A q \in DOMAIN seenL : seenL[q] = L[q]
      /\ \A q \in DOMAIN seenR : seenR[q] = R[q]
  BY WalkFacts DEF Began
<1>1. CASE o \in DOMAIN seenL /\ o \in DOMAIN seenR
  BY <1>0, <1>1, Clash
<1>2. CASE o \notin DOMAIN seenL
  <2>1. PICK q \in Paths : Under(q, o) /\ q \in DOMAIN seenL /\ L[q].link
    BY <1>0, <1>2, BehindLink
  <2>2. q \in DOMAIN seenR
    BY <1>0, <1>2, <2>1, SeenAbove
  <2> QED
    BY <1>0, <2>1, <2>2, Clash DEF Above
<1>3. CASE o \notin DOMAIN seenR
  <2>1. PICK q \in Paths : Under(q, o) /\ q \in DOMAIN seenR /\ R[q].link
    BY <1>0, <1>3, BehindLink
  <2>2. q \in DOMAIN seenL
    BY <1>0, <1>3, <2>1, SeenAbove
  <2> QED
    BY <1>0, <2>1, <2>2, Clash DEF Above
<1> QED
  BY <1>1, <1>2, <1>3

LEMMA Failing ==
  ASSUME SyncInv, GroundInv, Confirmed, NEW L \in [Paths -> Entry], NEW R \in [Paths -> Entry], Since(L, R),
         NEW i \in DOMAIN plan, ToMove(i),
         NEW src, src = (IF plan[i].act \in Down THEN host ELSE Here),
         NEW dst, dst = (IF plan[i].act \in Down THEN Here ELSE host),
         ~(src[plan[i].path].is = "file" /\ Opens(dst, plan[i].path))
  PROVE  Foretold(MoveOf(i))
<1> DEFINE p == plan[i].path  x == MoveOf(i)
<1>1. /\ p \in Paths /\ x.path = p /\ x.down = (plan[i].act \in Down) /\ plan # <<>>
      /\ Began(L, R) /\ Became(L, R) /\ Roofed(L)
  BY EndsSeen DEF MoveOf, Since
<1>2. /\ seenL = Walk(L, {}) /\ seenR = Walk(R, {}) /\ Grounded(L) /\ Grounded(R)
      /\ \A q \in DOMAIN seenL : seenL[q] = L[q] /\ q \in Paths /\ L[q].is # "none"
      /\ \A q \in DOMAIN seenR : seenR[q] = R[q] /\ q \in Paths /\ R[q].is # "none"
  BY <1>1, WalkFacts DEF Began
<1>3. \A q \in Paths : L[q].is \in {"none", "file", "dir"} /\ R[q].is \in {"none", "file", "dir"}
  BY EntryKinds
\* Kinds stay, but for what was not there.
<1>4. \A q \in Paths : /\ L[q].is # "none" => Here[q].is = L[q].is
                       /\ R[q].is # "none" => host[q].is = R[q].is
  BY <1>1, <1>3 DEF Became, SameHere, MadeHere, Wrote
<1> SUFFICES ASSUME ~\E q \in Above(p) \cup {p} : Hidden(q) \/ "Conflict" \in ActOf(q)
             PROVE  ~x.down /\ \E q \in Above(p) : "MkdirRemote" \in ActOf(q)
  BY <1>1 DEF Foretold
<1>5. ASSUME NEW o \in Above(p) \cup {p}, L[o].is # "none", R[o].is # "none", L[o].is # R[o].is,
             o \in DOMAIN seenL \/ o \in DOMAIN seenR
      PROVE  FALSE
  <2>1. o \in Paths /\ Above(o) \subseteq Above(p)
    BY <1>1, UnderFacts DEF Above
  <2> HIDE DEF p
  <2>2. \E q \in Above(o) \cup {o} : Hidden(q) \/ "Conflict" \in ActOf(q)
    BY <1>1, <1>5, <2>1, KindsDiffer
  <2> QED
    BY <2>1, <2>2
<1>6. CASE plan[i].act \in Down
  <2>1. p \in DOMAIN seenR /\ R[p].is = "file" /\ src[p].is = "file" /\ dst = Here
    BY <1>2, <1>3, <1>4, <1>6, EndsSeen
  <2>2. \A q \in Above(p) : q \in Paths /\ q \in DOMAIN seenR /\ R[q].is = "dir"
    BY <1>2, <2>1, SeenAbove DEF Above
  <2>3. \A q \in Above(p) : L[q].is # "file"
    BY <1>5, <2>2
  <2>4. \A q \in Above(p) : Here[q].is = "dir"
    BY <1>1, <1>6, <2>3 DEF Roofed
  <2>5. Here[p].is = "dir"
    BY <2>1, <2>4 DEF Opens, Above
  <2>6. L[p].is = "dir"
    <3>1. CASE MadeHere(L, p)
      <4>1. PICK j \in DOMAIN plan : ToMove(j) /\ plan[j].act \in Down /\ Under(p, plan[j].path)
        BY <3>1 DEF MadeHere
      <4>2. plan[j].path \in DOMAIN seenR
        BY <4>1, EndsSeen
      <4>3. R[p].is = "dir"
        BY <1>1, <1>2, <4>1, <4>2, SeenAbove
      <4> QED
        BY <2>1, <4>3
    <3> QED
      BY <1>1, <2>5, <3>1 DEF Became, SameHere, Wrote
  <2> QED
    BY <1>5, <2>1, <2>6
<1>7. CASE plan[i].act \notin Down
  <2>1. /\ p \in Kept(seenL, job.excludes) /\ p \in DOMAIN seenL /\ L[p].is = "file" /\ job.dir # "toLocal"
        /\ src[p].is = "file" /\ dst = host
    BY <1>2, <1>3, <1>4, <1>7, EndsSeen DEF Kept
  <2>2. \A q \in Above(p) : q \in Paths /\ q \in DOMAIN seenL /\ L[q].is = "dir" /\ Under(q, p)
    BY <1>2, <2>1, SeenAbove DEF Above
  <2>3. R[p].is # "dir"
    BY <1>5, <2>1
  <2>4. host[p].is # "dir"
    BY <1>1, <2>3 DEF Became, Wrote
  <2>5. PICK q \in Above(p) : host[q].is # "dir"
    BY <2>1, <2>4 DEF Opens, Above
  <2>6. R[q].is = "none"
    BY <1>3, <1>4, <1>5, <2>2, <2>5
  <2>7. "MkdirRemote" \in ActOf(q)
    <3> DEFINE acting == Acting(seenL, seenR, job.excludes, job.dir, job.del)
    <3>1. q \notin DOMAIN seenR /\ q \in DOMAIN seenL /\ seenL[q].is = "dir" /\ q \in Paths
      BY <1>2, <2>2, <2>6
    <3>2. q \in Kept(seenL, job.excludes) /\ q \notin Kept(seenR, job.excludes)
      <4>1. ~Excluded(job.excludes, p, seenL[p].is = "dir")
        BY <2>1 DEF Kept
      <4>2. ~Excluded(job.excludes, q, TRUE)
        BY <1>1, <2>2, <4>1, UnderFacts DEF Excluded, MatchGlob
      <4> QED
        BY <3>1, <4>2 DEF Kept
    <3>3. Compare(seenL, seenR, job.excludes)[q] = "LocalOnly"
      BY <3>2, CompareIs
    <3>4. acting[q] = OfOneSide("LocalOnly", seenL[q], job.dir, job.del) /\ q \in DOMAIN acting
      BY <3>1, <3>2, <3>3, ActionIs DEF Acting, At
    <3>5. acting[q] = "MkdirRemote"
      BY <2>1, <3>1, <3>4 DEF OfOneSide
    <3>6. Walked(seenL) /\ Walked(seenR) /\ plan = BuildPlan(seenL, seenR, job.excludes, job.dir, job.del)
      BY StepIs
    <3> HIDE DEF acting
    <3>7. PICK j \in DOMAIN plan : plan[j] = [act |-> acting[q], path |-> q]
      BY <3>4, <3>6, PlanCovers DEF acting
    <3> QED
      BY <3>5, <3>7 DEF ActOf, Range
  <2> QED
    BY <1>1, <1>7, <2>7
<1> QED
  BY <1>6, <1>7

----------------------------------------------------------------------------
(* Every step keeps it.                                                    *)

LEMMA WritesGrounded ==
  ASSUME NEW tree \in [Paths -> Entry], Grounded(tree), NEW p \in Paths, Opens(tree, p),
         NEW e, e.is = "file"
  PROVE  Grounded([tree EXCEPT ![p] = e])
<1>1. \A q \in Paths : Under(p, q) => tree[q].is = "none"
  BY DEF Grounded, Opens
<1>2. \A q \in Paths : Under(q, p) => q # p /\ tree[q].is = "dir"
  BY UnderFacts DEF Opens
<1> QED
  BY <1>1, <1>2, UnderFacts DEF Grounded

LEMMA MakesGrounded ==
  ASSUME NEW tree \in [Paths -> Entry], Grounded(tree), NEW ps, ps \subseteq Paths
  PROVE  /\ Grounded(MakeParents(tree, ps))
         /\ \A p \in ps : \/ \A q \in Above(p) : MakeParents(tree, ps)[q].is = "dir"
                          \/ \E o \in Above(p) : tree[o].is = "file"
<1> DEFINE made == MakeParents(tree, ps)
           Wanted(q) == \E p \in ps : Under(q, p) /\ \A o \in Paths : Under(o, p) => tree[o].is # "file"
<1>1. \A q \in Paths : made[q] = IF tree[q].is = "none" /\ Wanted(q) THEN Dir ELSE tree[q]
  BY DEF MakeParents
<1>2. \A q \in Paths : tree[q].is \in {"none", "file", "dir"}
  BY EntryKinds
<1>3. ASSUME NEW p \in ps, \A o \in Paths : Under(o, p) => tree[o].is # "file",
             NEW q \in Paths, Under(q, p)
      PROVE  made[q].is = "dir"
  BY <1>1, <1>2, <1>3, EntryFacts
<1>4. ASSUME NEW p \in Paths, NEW q \in Paths, made[p].is # "none", Under(q, p) PROVE made[q].is = "dir"
  <2>1. CASE tree[p].is # "none"
    BY <1>1, <1>4, <2>1 DEF Grounded
  <2>2. CASE tree[p].is = "none"
    <3>1. PICK r \in ps : Under(p, r) /\ \A o \in Paths : Under(o, r) => tree[o].is # "file"
      BY <1>1, <1>4, <2>2
    <3>2. r \in Paths /\ Under(q, r)
      BY <1>4, <3>1, UnderFacts
    <3> QED
      BY <1>3, <3>1, <3>2
  <2> QED
    BY <2>1, <2>2
<1> HIDE DEF made
<1> QED
  BY <1>3, <1>4 DEF made, Grounded, Above

LEMMA FullStarts == ASSUME SyncInit PROVE FullInv
<1>1. GroundInv
  <2>1. \A tree \in LocalTrees \cup RemoteTrees : Grounded(tree)
    BY SyncAssumption
  <2>2. Grounded([p \in Paths |-> Absent])
    BY EntryFacts DEF Grounded
  <2> QED
    BY <2>1, <2>2 DEF SyncInit, GroundInv
<1>2. QuietInv
  BY DEF SyncInit, QuietInv, Confirmed
<1> QED
  BY <1>1, <1>2, SyncStarts DEF FullInv

\* What a transfer does.
LEMMA TransferIs ==
  ASSUME SyncInv, RunTransfer
  PROVE  /\ job.at = "queued" /\ UNCHANGED <<lcwd, job, seenL, seenR, plan, saves>>
         /\ \E i \in DOMAIN plan :
              LET x == MoveOf(i)  p == plan[i].path
                  src == IF x.down THEN host ELSE disk[lcwd]
                  dst == IF x.down THEN disk[lcwd] ELSE host
              IN /\ ToMove(i) /\ x \in moves /\ moves' = moves \ {x}
                 /\ \/ /\ src[p].is = "file" /\ Opens(dst, p) /\ UNCHANGED failed
                       /\ IF x.down THEN disk' = [disk EXCEPT ![lcwd][p] = Copy(src[p], dst[p])] /\ UNCHANGED host
                          ELSE host' = [host EXCEPT ![p] = Copy(src[p], dst[p])] /\ UNCHANGED disk
                    \/ /\ ~(src[p].is = "file" /\ Opens(dst, p))
                       /\ failed' = failed \cup {x} /\ UNCHANGED <<disk, host>>
<1>1. PICK x \in moves :
        LET p == x.path
            src == IF x.down THEN host ELSE disk[x.root]
            dst == IF x.down THEN disk[x.root] ELSE host
        IN /\ moves' = moves \ {x}
           /\ IF src[p].is = "file" /\ Opens(dst, p)
              THEN /\ UNCHANGED failed
                   /\ IF x.down THEN disk' = [disk EXCEPT ![x.root][p] = Copy(src[p], dst[p])] /\ UNCHANGED host
                      ELSE host' = [host EXCEPT ![p] = Copy(src[p], dst[p])] /\ UNCHANGED disk
              ELSE failed' = failed \cup {x} /\ UNCHANGED <<disk, host>>
  BY DEF RunTransfer, trees
<1>2. PICK i \in DOMAIN plan : ToMove(i) /\ x = MoveOf(i)
  BY DEF SyncInv, MovesInv
<1>3. MoveOf(i).path = plan[i].path /\ MoveOf(i).root = lcwd
  BY DEF MoveOf
<1> QED
  BY <1>1, <1>2, <1>3 DEF RunTransfer

LEMMA GroundKeeps == ASSUME FullInv, [SyncNext]_syncVars PROVE GroundInv'
<1>0. SyncInv /\ GroundInv /\ disk \in [Range(Folders) -> [Paths -> Entry]] /\ host \in [Paths -> Entry]
      /\ lcwd \in Range(Folders) /\ job.root \in Range(Folders)
  BY DEF FullInv, SyncInv, TreesInv, JobInv, Jobs
<1>1. CASE UNCHANGED <<disk, host>>
  BY <1>0, <1>1 DEF GroundInv
<1>2. CASE ShowPlan
  <2>1. PICK ps : disk' = [disk EXCEPT ![lcwd] = MakeParents(@, ps)] /\ host' = host /\ ps \subseteq Paths
    <3> DEFINE wanted == {i \in DOMAIN plan : plan[i].act \in Up \cup Down /\ SafeName(plan[i].path)}
               fetched == {i \in wanted : plan[i].act \in Down}
               below == {plan[i].path : i \in fetched}
    <3>1. disk' = [disk EXCEPT ![lcwd] = MakeParents(@, below)] /\ host' = host
      BY <1>2 DEF ShowPlan
    <3>2. below \subseteq Paths
      BY <1>0, StepIs
    <3> QED
      BY <3>1, <3>2
  <2>2. Grounded(MakeParents(disk[lcwd], ps))
    BY <1>0, <2>1, MakesGrounded DEF GroundInv
  <2> QED
    BY <1>0, <2>1, <2>2 DEF GroundInv
<1>3. CASE RunTransfer
  <2>1. PICK i \in DOMAIN plan :
          LET x == MoveOf(i)  p == plan[i].path
              src == IF x.down THEN host ELSE disk[lcwd]
              dst == IF x.down THEN disk[lcwd] ELSE host
          IN \/ /\ src[p].is = "file" /\ Opens(dst, p)
                /\ IF x.down THEN disk' = [disk EXCEPT ![lcwd][p] = Copy(src[p], dst[p])] /\ UNCHANGED host
                   ELSE host' = [host EXCEPT ![p] = Copy(src[p], dst[p])] /\ UNCHANGED disk
             \/ UNCHANGED <<disk, host>>
    BY <1>0, <1>3, TransferIs
  <2> DEFINE p == plan[i].path
  <2>2. p \in Paths /\ disk[lcwd] \in [Paths -> Entry] /\ disk[lcwd][p] \in Entry /\ host[p] \in Entry
    BY <1>0, StepIs
  <2>3. Grounded(host) /\ Grounded(disk[lcwd])
    BY <1>0 DEF GroundInv
  <2>4. CASE UNCHANGED <<disk, host>>
    BY <1>0, <2>4 DEF GroundInv
  <2>5. CASE Opens(disk[lcwd], p) /\ host' = host /\ disk' = [disk EXCEPT ![lcwd][p] = Copy(host[p], disk[lcwd][p])]
    <3>1. Grounded([disk[lcwd] EXCEPT ![p] = Copy(host[p], disk[lcwd][p])])
      BY <2>2, <2>3, <2>5, Copies, WritesGrounded
    <3>2. disk'[lcwd] = [disk[lcwd] EXCEPT ![p] = Copy(host[p], disk[lcwd][p])]
          /\ \A f \in Range(Folders) : f # lcwd => disk'[f] = disk[f]
      BY <1>0, <2>5
    <3> QED
      BY <1>0, <2>5, <3>1, <3>2 DEF GroundInv
  <2>6. CASE Opens(host, p) /\ disk' = disk /\ host' = [host EXCEPT ![p] = Copy(disk[lcwd][p], host[p])]
    <3>1. Grounded([host EXCEPT ![p] = Copy(disk[lcwd][p], host[p])])
      BY <1>0, <2>2, <2>3, <2>6, Copies, WritesGrounded
    <3> QED
      BY <1>0, <2>6, <3>1 DEF GroundInv
  <2> QED
    BY <2>1, <2>4, <2>5, <2>6
<1>4. CASE SomebodySaves
  <2>1. PICK p \in Paths :
          \/ Opens(host, p) /\ host' = SavedAt(host, p) /\ UNCHANGED disk
          \/ Opens(disk[job.root], p) /\ disk' = [disk EXCEPT ![job.root] = SavedAt(@, p)] /\ UNCHANGED host
    BY <1>4 DEF SomebodySaves
  <2>2. ASSUME NEW tree \in [Paths -> Entry], Grounded(tree), Opens(tree, p) PROVE Grounded(SavedAt(tree, p))
    BY <2>2, WritesGrounded DEF SavedAt
  <2> QED
    BY <1>0, <2>1, <2>2 DEF GroundInv
<1> QED
  BY <1>1, <1>2, <1>3, <1>4 DEF SyncNext, syncVars, trees, CompareFolders, WalkLocal, WalkRemote,
     NavigateLocal, Decline

LEMMA QuietShows ==
  ASSUME FullInv, ShowPlan, saves = 0, job.whole, Confirmed'
  PROVE  \E L, R \in [Paths -> Entry] : Since(L, R)'
<1> DEFINE wanted == {i \in DOMAIN plan : plan[i].act \in Up \cup Down /\ SafeName(plan[i].path)}
           fetched == {i \in wanted : plan[i].act \in Down}
           below == {plan[i].path : i \in fetched}
<1>0. PICK L, R : L = disk[lcwd] /\ R = host
  OBVIOUS
<1>1. /\ moves' = {[at |-> i, down |-> i \in fetched, path |-> plan[i].path, root |-> lcwd] : i \in wanted}
      /\ disk' = [disk EXCEPT ![lcwd] = MakeParents(@, below)]
      /\ job' = [job EXCEPT !.at = "queued"] /\ job.at = "posted"
      /\ UNCHANGED <<host, lcwd, seenL, seenR, plan, failed, saves>>
  BY DEF ShowPlan
<1>2. SyncInv /\ GroundInv /\ failed = {} /\ job \in Jobs
  BY <1>1, NoMoves DEF FullInv, SyncInv, JobInv
<1>3. job'.root = job.root /\ job.root = lcwd /\ lcwd \in Range(Folders)
      /\ disk \in [Range(Folders) -> [Paths -> Entry]]
  BY <1>1, <1>2 DEF Jobs, Confirmed, SyncInv, TreesInv
<1>4. L \in [Paths -> Entry] /\ R \in [Paths -> Entry] /\ Grounded(L) /\ Grounded(R)
  BY <1>0, <1>2, <1>3 DEF SyncInv, TreesInv, GroundInv
<1>5. seenL = Walk(L, {}) /\ seenR = Walk(R, {})
  BY <1>0, <1>1, <1>3 DEF FullInv, QuietInv, Here
<1>6. Here' = MakeParents(L, below)
  BY <1>0, <1>1, <1>3 DEF Here
<1>7. below \subseteq Paths /\ \A q \in below : SafeName(q)
  BY <1>2, StepIs
<1>8. \A i : ToMove(i)' <=> i \in wanted
  BY <1>1 DEF ToMove
<1>9. \A q \in below : \E i \in DOMAIN plan : ToMove(i)' /\ plan[i].act \in Down /\ plan[i].path = q
  BY <1>8
<1>10. \A i \in DOMAIN plan : ToMove(i)' /\ plan[i].act \in Down => plan[i].path \in below
  BY <1>8
<1>11. Became(L, R)'
  <2> HIDE DEF wanted, fetched, below
  <2>1. \A q \in Paths : \/ Here'[q] = L[q]
                         \/ Here'[q] = Dir /\ L[q].is = "none" /\ \E p \in below : Under(q, p)
    BY <1>4, <1>6, <1>7, MakesParents
  <2>2. ASSUME NEW q \in Paths PROVE SameHere(L, q)' \/ MadeHere(L, q)'
    <3>1. CASE Here'[q] = L[q]
      BY <1>1, <1>3, <3>1 DEF SameHere
    <3>2. CASE Here'[q] = Dir /\ L[q].is = "none" /\ \E p \in below : Under(q, p)
      BY <1>1, <1>3, <1>9, <3>2 DEF MadeHere
    <3> QED
      BY <2>1, <3>1, <3>2
  <2> QED
    BY <1>0, <1>1, <2>2 DEF Became
<1>12. Roofed(L)'
  <2> HIDE DEF wanted, fetched, below
  <2> QED
    BY <1>1, <1>4, <1>6, <1>7, <1>10, MakesGrounded DEF Roofed, Above
<1>13. Delivered'
  <2> SUFFICES ASSUME NEW i \in wanted PROVE MoveOf(i)' \in moves'
    BY <1>1, <1>8 DEF Delivered
  <2>1. (i \in fetched) = (plan[i].act \in Down)
    OBVIOUS
  <2> QED
    BY <1>1, <2>1 DEF MoveOf
<1>14. Began(L, R)'
  BY <1>1, <1>4, <1>5 DEF Began
<1>15. Since(L, R)'
  BY <1>1, <1>2, <1>11, <1>12, <1>13, <1>14 DEF Since
<1> QED
  BY <1>4, <1>15

LEMMA QuietTransfers ==
  ASSUME FullInv, RunTransfer, saves = 0, job.whole, Confirmed,
         NEW L \in [Paths -> Entry], NEW R \in [Paths -> Entry], Since(L, R)
  PROVE  Since(L, R)'
<1>1. SyncInv /\ GroundInv /\ disk \in [Range(Folders) -> [Paths -> Entry]] /\ host \in [Paths -> Entry]
      /\ lcwd \in Range(Folders) /\ job.root = lcwd /\ Here = disk[lcwd] /\ Here \in [Paths -> Entry]
  BY DEF FullInv, SyncInv, TreesInv, Confirmed, Here
<1>2. UNCHANGED <<lcwd, job, seenL, seenR, plan, saves>>
  BY <1>1, TransferIs
<1>3. PICK i \in DOMAIN plan :
        LET x == MoveOf(i)  p == plan[i].path
            src == IF x.down THEN host ELSE disk[lcwd]
            dst == IF x.down THEN disk[lcwd] ELSE host
        IN /\ ToMove(i) /\ x \in moves /\ moves' = moves \ {x}
           /\ \/ /\ src[p].is = "file" /\ Opens(dst, p) /\ UNCHANGED failed
                 /\ IF x.down THEN disk' = [disk EXCEPT ![lcwd][p] = Copy(src[p], dst[p])] /\ UNCHANGED host
                    ELSE host' = [host EXCEPT ![p] = Copy(src[p], dst[p])] /\ UNCHANGED disk
              \/ /\ ~(src[p].is = "file" /\ Opens(dst, p))
                 /\ failed' = failed \cup {x} /\ UNCHANGED <<disk, host>>
  BY <1>1, TransferIs
<1> DEFINE p == plan[i].path
<1>4. p \in Paths /\ host[p] \in Entry /\ Here[p] \in Entry /\ ToMove(i)
      /\ (plan[i].act \in Down <=> plan[i].act \notin Up)
  BY <1>1, <1>3, EndsSeen
<1>5. /\ \A j : ToMove(j)' <=> ToMove(j)
      /\ \A j : MoveOf(j)' = MoveOf(j) /\ MoveOf(j).at = j
      /\ \A x : Foretold(x)' <=> Foretold(x)
  BY <1>2 DEF ToMove, MoveOf, Foretold, Hidden, ActOf, Above
<1>6. \A j \in DOMAIN plan : plan[j].path = p => j = i
  <2>1. Walked(seenL) /\ Walked(seenR) /\ plan = BuildPlan(seenL, seenR, job.excludes, job.dir, job.del)
    BY <1>1, StepIs
  <2> QED
    BY <2>1, PlanCovers
<1>7. Began(L, R)'
  BY <1>2 DEF Since, Began
<1>8. MoveOf(i).down = (plan[i].act \in Down)
  BY DEF MoveOf
<1>9. CASE UNCHANGED <<disk, host>> /\ failed' = failed \cup {MoveOf(i)}
           /\ ~((IF plan[i].act \in Down THEN host ELSE Here)[p].is = "file"
                /\ Opens(IF plan[i].act \in Down THEN Here ELSE host, p))
  <2>1. Foretold(MoveOf(i))
    BY <1>1, <1>4, <1>9, Failing DEF FullInv
  <2>2. Here' = Here
    BY <1>2, <1>9 DEF Here
  <2>3. Became(L, R)' /\ Roofed(L)'
    BY <1>2, <1>5, <1>9, <2>2 DEF Since, Became, SameHere, MadeHere, Wrote, Roofed
  <2>4. Delivered'
    <3> SUFFICES ASSUME NEW j \in DOMAIN plan, ToMove(j) PROVE MoveOf(j) \in moves' \cup failed' \/ Arrived(j)'
      BY <1>2, <1>5 DEF Delivered
    <3>1. Arrived(j)' <=> Arrived(j)
      BY <1>2, <1>9, <2>2 DEF Arrived, TimeOfCopy
    <3> QED
      BY <1>3, <1>9, <3>1 DEF Since, Delivered
  <2>5. \A x \in failed' : Foretold(x)'
    BY <1>5, <1>9, <2>1 DEF Since
  <2> QED
    BY <1>7, <2>3, <2>4, <2>5 DEF Since
<1>10. CASE /\ plan[i].act \in Down /\ UNCHANGED failed /\ UNCHANGED host
            /\ disk' = [disk EXCEPT ![lcwd][p] = Copy(host[p], Here[p])]
            /\ host[p].is = "file" /\ Opens(Here, p)
  <2>1. Here' = [Here EXCEPT ![p] = Copy(host[p], Here[p])]
    BY <1>1, <1>2, <1>10 DEF Here
  <2>2. Here'[p] = Copy(host[p], Here[p]) /\ \A q \in Paths : q # p => Here'[q] = Here[q]
    BY <1>1, <1>4, <2>1
  <2>3. Here[p].is # "dir" /\ Here'[p].is = "file"
    BY <1>4, <1>10, <2>2, Copies DEF Opens
  <2>4. L[p].is # "dir"
    BY <1>4, <2>3, EntryFacts DEF Since, Became, SameHere, MadeHere, Wrote
  <2>5. Became(L, R)'
    <3> SUFFICES ASSUME NEW q \in Paths
                 PROVE  /\ SameHere(L, q)' \/ MadeHere(L, q)' \/ Wrote(Here, L, Down, q)'
                        /\ host'[q] = R[q] \/ Wrote(host, R, Up, q)'
      BY DEF Became
    <3>1. host'[q] = R[q] \/ Wrote(host, R, Up, q)'
      BY <1>2, <1>5, <1>10 DEF Since, Became, Wrote
    <3>2. CASE q = p
      <4>1. Wrote(Here, L, Down, q)'
        BY <1>2, <1>4, <1>5, <1>10, <2>3, <2>4, <3>2 DEF Wrote
      <4> QED
        BY <3>1, <4>1
    <3>3. CASE q # p
      <4>1. Here'[q] = Here[q]
        BY <2>2, <3>3
      <4>2. SameHere(L, q) \/ MadeHere(L, q) \/ Wrote(Here, L, Down, q)
        BY DEF Since, Became
      <4> QED
        BY <1>2, <1>5, <3>1, <4>1, <4>2 DEF SameHere, MadeHere, Wrote
    <3> QED
      BY <3>2, <3>3
  <2>6. Roofed(L)'
    <3> SUFFICES ASSUME NEW j \in DOMAIN plan, ToMove(j), plan[j].act \in Down
                 PROVE  \/ \A q \in Above(plan[j].path) : Here'[q].is = "dir"
                        \/ \E o \in Above(plan[j].path) : L[o].is = "file"
      BY <1>2, <1>5 DEF Roofed
    <3>1. CASE \A q \in Above(plan[j].path) : Here[q].is = "dir"
      BY <2>2, <2>3, <3>1 DEF Above
    <3> QED
      BY <3>1 DEF Since, Roofed
  <2>7. Delivered'
    <3> SUFFICES ASSUME NEW j \in DOMAIN plan, ToMove(j) PROVE MoveOf(j) \in moves' \cup failed' \/ Arrived(j)'
      BY <1>2, <1>5 DEF Delivered
    <3>1. CASE j = i
      BY <1>2, <1>10, <2>2, <2>3, <3>1 DEF Arrived, Copy, TimeOfCopy
    <3>2. CASE j # i
      <4>1. plan[j].path # p /\ plan[j].path \in Paths
        BY <1>1, <1>6, <3>2, StepIs
      <4>2. Arrived(j)' <=> Arrived(j)
        BY <1>2, <1>10, <2>2, <4>1 DEF Arrived, TimeOfCopy
      <4>3. MoveOf(j) # MoveOf(i)
        BY <1>5, <3>2
      <4> QED
        BY <1>3, <1>10, <4>2, <4>3 DEF Since, Delivered
    <3> QED
      BY <3>1, <3>2
  <2> QED
    BY <1>5, <1>7, <1>10, <2>5, <2>6, <2>7 DEF Since
<1>11. CASE /\ plan[i].act \notin Down /\ UNCHANGED failed /\ UNCHANGED disk
            /\ host' = [host EXCEPT ![p] = Copy(Here[p], host[p])]
            /\ Here[p].is = "file" /\ Opens(host, p)
  <2>1. Here' = Here
    BY <1>2, <1>11 DEF Here
  <2>2. host'[p] = Copy(Here[p], host[p]) /\ \A q \in Paths : q # p => host'[q] = host[q]
    BY <1>1, <1>4, <1>11
  <2>3. host[p].is # "dir" /\ host'[p].is = "file"
    BY <1>4, <1>11, <2>2, Copies DEF Opens
  <2>4. R[p].is # "dir"
    BY <1>4, <2>3 DEF Since, Became, Wrote
  <2>5. Became(L, R)'
    <3> SUFFICES ASSUME NEW q \in Paths
                 PROVE  /\ SameHere(L, q)' \/ MadeHere(L, q)' \/ Wrote(Here, L, Down, q)'
                        /\ host'[q] = R[q] \/ Wrote(host, R, Up, q)'
      BY DEF Became
    <3>1. SameHere(L, q)' \/ MadeHere(L, q)' \/ Wrote(Here, L, Down, q)'
      <4>1. SameHere(L, q) \/ MadeHere(L, q) \/ Wrote(Here, L, Down, q)
        BY DEF Since, Became
      <4> QED
        BY <1>2, <1>5, <2>1, <4>1 DEF SameHere, MadeHere, Wrote
    <3>2. CASE q = p
      <4>1. Wrote(host, R, Up, q)'
        BY <1>2, <1>4, <1>5, <1>11, <2>3, <2>4, <3>2 DEF Wrote
      <4> QED
        BY <3>1, <4>1
    <3>3. CASE q # p
      BY <1>2, <1>5, <2>2, <3>1, <3>3 DEF Since, Became, Wrote
    <3> QED
      BY <3>2, <3>3
  <2>6. Roofed(L)'
    BY <1>2, <1>5, <2>1 DEF Since, Roofed
  <2>7. Delivered'
    <3> SUFFICES ASSUME NEW j \in DOMAIN plan, ToMove(j) PROVE MoveOf(j) \in moves' \cup failed' \/ Arrived(j)'
      BY <1>2, <1>5 DEF Delivered
    <3>1. CASE j = i
      BY <1>2, <1>11, <2>1, <2>2, <2>3, <3>1 DEF Arrived, Copy, TimeOfCopy
    <3>2. CASE j # i
      <4>1. plan[j].path # p /\ plan[j].path \in Paths
        BY <1>1, <1>6, <3>2, StepIs
      <4>2. Arrived(j)' <=> Arrived(j)
        BY <1>2, <1>11, <2>1, <2>2, <4>1 DEF Arrived, TimeOfCopy
      <4>3. MoveOf(j) # MoveOf(i)
        BY <1>5, <3>2
      <4> QED
        BY <1>3, <1>11, <4>2, <4>3 DEF Since, Delivered
    <3> QED
      BY <3>1, <3>2
  <2> QED
    BY <1>5, <1>7, <1>11, <2>5, <2>6, <2>7 DEF Since
<1> QED
  BY <1>1, <1>3, <1>8, <1>9, <1>10, <1>11

LEMMA QuietKeeps == ASSUME FullInv, [SyncNext]_syncVars PROVE QuietInv'
<1> SUFFICES ASSUME saves' = 0, job'.whole
             PROVE  /\ job'.at \in {"remote", "posted"} => seenL' = Walk(Here', {})
                    /\ job'.at = "posted" => seenR' = Walk(host', {})
                    /\ Confirmed' => \E L, R \in [Paths -> Entry] : Since(L, R)'
  BY DEF QuietInv
<1>0. SyncInv /\ job \in Jobs /\ saves \in Nat
  BY SyncAssumption DEF FullInv, SyncInv, JobInv, TreesInv
<1>1. CASE UNCHANGED syncVars
  <2>1. Here' = Here /\ Confirmed' = Confirmed /\ \A L, R : Since(L, R)' <=> Since(L, R)
    BY <1>1 DEF syncVars, Here, Confirmed, Since, Began, Became, SameHere, MadeHere, Wrote, Roofed,
       Delivered, Arrived, ToMove, MoveOf, Foretold, Hidden, ActOf, Above
  <2> QED
    BY <1>1, <2>1 DEF FullInv, QuietInv, syncVars
<1>2. CASE CompareFolders
  BY <1>2 DEF CompareFolders, Confirmed
<1>3. CASE WalkLocal
  <2>1. PICK un : seenL' = Walk(disk[job.root], un) /\ job' = [job EXCEPT !.at = "remote", !.whole = un = {}]
    BY <1>3 DEF WalkLocal
  <2>2. un = {} /\ job'.root = job.root /\ job'.at = "remote" /\ disk' = disk
    BY <1>0, <1>3, <2>1 DEF Jobs, WalkLocal, trees
  <2> QED
    BY <2>1, <2>2 DEF Here, Confirmed
<1>4. CASE WalkRemote
  <2>1. PICK un : seenR' = Walk(host, un) /\ job' = [job EXCEPT !.at = "posted", !.whole = @ /\ un = {}]
    BY <1>4 DEF WalkRemote
  <2>2. job'.whole = (job.whole /\ un = {}) /\ job'.root = job.root /\ job'.at = "posted" /\ job.at = "remote"
        /\ disk' = disk /\ host' = host /\ seenL' = seenL /\ saves' = saves
    BY <1>0, <1>4, <2>1 DEF Jobs, WalkRemote, trees
  <2>3. job.whole /\ un = {}
    BY <2>2
  <2> QED
    BY <2>1, <2>2, <2>3 DEF Here, Confirmed, FullInv, QuietInv
<1>5. CASE NavigateLocal
  <2>1. job' = job /\ job.at \in {"local", "remote"} /\ UNCHANGED <<disk, host, seenL, seenR, saves>>
    BY <1>5 DEF NavigateLocal, trees
  <2> QED
    BY <2>1 DEF Here, Confirmed, FullInv, QuietInv
<1>6. CASE Decline
  <2>1. job'.at = "declined"
    BY <1>0, <1>6 DEF Decline, Jobs
  <2> QED
    BY <2>1 DEF Confirmed
<1>7. CASE ShowPlan
  <2>1. job'.at = "queued" /\ job'.whole = job.whole /\ saves' = saves
    BY <1>0, <1>7 DEF ShowPlan, Jobs
  <2> QED
    BY <1>7, <2>1, QuietShows
<1>8. CASE RunTransfer
  <2>1. UNCHANGED <<lcwd, job, saves>> /\ job.at = "queued"
    BY <1>0, <1>8, TransferIs
  <2>2. Confirmed' = Confirmed
    BY <2>1 DEF Confirmed
  <2>3. Confirmed => \E L, R \in [Paths -> Entry] : Since(L, R)
    BY <2>1 DEF FullInv, QuietInv
  <2> QED
    BY <1>8, <2>1, <2>2, <2>3, QuietTransfers
<1>9. CASE SomebodySaves
  BY <1>0, <1>9 DEF SomebodySaves
<1> QED
  BY <1>1, <1>2, <1>3, <1>4, <1>5, <1>6, <1>7, <1>8, <1>9 DEF SyncNext

LEMMA FullKeeps == ASSUME FullInv, [SyncNext]_syncVars PROVE FullInv'
  BY SyncKeeps, GroundKeeps, QuietKeeps DEF FullInv

----------------------------------------------------------------------------
(* What is left to do.                                                     *)

\* Two entries of one kind that is kept, without links: directories, or files of one size and
\* time, or of one size and an unknown time, leave nothing to do.
LEMMA NothingToDo ==
  ASSUME NEW l, Walked(l), NEW r, Walked(r), NEW ex, NEW dir, NEW del,
         NEW p \in Kept(l, ex) \cup Kept(r, ex), p \in DOMAIN l, p \in DOMAIN r,
         ~l[p].link, ~r[p].link, l[p].is = r[p].is,
         l[p].is # "dir" => /\ l[p].size = r[p].size
                            /\ l[p].time = 0 \/ r[p].time = 0 \/ l[p].time = r[p].time
  PROVE  Acting(l, r, ex, dir, del)[p] \notin Up \cup Down
<1> DEFINE st == Compare(l, r, ex)[p]
<1>1. p \in Kept(l, ex) /\ p \in Kept(r, ex)
  BY DEF Kept
<1>2. st = OfTwo(l[p], r[p])
  BY <1>1, CompareIs
<1>3. l[p].time \in Nat /\ r[p].time \in Nat
  BY DEF Walked, Entry
<1>4. OfTwo(l[p], r[p]) \in {"Identical", "Uncertain"}
  BY <1>3 DEF OfTwo, OfTwoFiles, SameTime, Tolerance
<1>5. Action(st, At(l, p), At(r, p), dir, del) \in {"Skip", "Conflict"}
  BY <1>2, <1>4, ActionIs
<1>6. Acting(l, r, ex, dir, del)[p] \in {"Skip", "Conflict"}
  BY <1>5 DEF Acting
<1> QED
  BY <1>6 DEF Up, Down

LEMMA ReachedUnlinked ==
  ASSUME NEW tree \in [Paths -> Entry], Grounded(tree), NEW p \in Paths,
         \A q \in Paths : Under(q, p) => ~tree[q].link
  PROVE  p \in DOMAIN Walk(tree, {}) <=> tree[p].is # "none"
  BY WalkFacts DEF Grounded

LEMMA Agreeing == ASSUME FullInv PROVE EndsInAgreement
<1>1. FailuresForetold
  BY DEF FullInv, QuietInv, FailuresForetold, Since, Foretold
<1>2. ASSUME Settled,
             NEW s \in Range(BuildPlan(Walk(Here, {}), Walk(host, {}), job.excludes, job.dir, job.del)),
             s.act \in Up \cup Down, ~Linked(s.path), SafeName(s.path)
      PROVE  FALSE
  <2> DEFINE p == s.path  ex == job.excludes
             l == Walk(Here, {})  r == Walk(host, {})
             now == Acting(l, r, ex, job.dir, job.del)
             then == Acting(seenL, seenR, ex, job.dir, job.del)
  <2>1. /\ SyncInv /\ GroundInv /\ Here \in [Paths -> Entry] /\ host \in [Paths -> Entry]
        /\ Grounded(Here) /\ Grounded(host) /\ job.at = "queued" /\ moves = {} /\ failed = {}
    BY <1>2 DEF FullInv, SyncInv, TreesInv, JobInv, Jobs, GroundInv, Here, Settled, Confirmed
  <2>2. PICK L \in [Paths -> Entry], R \in [Paths -> Entry] : Since(L, R)
    BY <1>2 DEF FullInv, QuietInv, Settled
  <2>3. /\ seenL = Walk(L, {}) /\ seenR = Walk(R, {}) /\ Grounded(L) /\ Grounded(R)
        /\ Became(L, R) /\ Delivered
    BY <2>2 DEF Since, Began
  <2>4. Walked(l) /\ Walked(r)
    BY <2>1, WalkIs
  <2>5. p \in Paths /\ p \in Kept(l, ex) \cup Kept(r, ex) /\ now[p] \in Up \cup Down
    <3>1. PICK i \in DOMAIN BuildPlan(l, r, ex, job.dir, job.del) :
            s = BuildPlan(l, r, ex, job.dir, job.del)[i]
      BY <1>2 DEF Range
    <3>2. p \in DOMAIN now /\ s.act = now[p] /\ DOMAIN now \subseteq Paths
      BY <2>4, <3>1, PlanIs
    <3>3. DOMAIN now = Kept(l, ex) \cup Kept(r, ex)
      BY DEF Acting
    <3> QED
      BY <1>2, <3>2, <3>3
  <2>6. /\ ~Here[p].link /\ ~host[p].link
        /\ \A q \in Paths : Under(q, p) => ~Here[q].link /\ ~host[q].link
    BY <1>2 DEF Linked, Above, Here
  <2> HIDE DEF p
  <2>7. /\ p \in DOMAIN l <=> Here[p].is # "none"
        /\ p \in DOMAIN r <=> host[p].is # "none"
        /\ p \in DOMAIN l => l[p] = Here[p]
        /\ p \in DOMAIN r => r[p] = host[p]
    BY <2>1, <2>5, <2>6, ReachedUnlinked, WalkFacts
  <2> HIDE DEF l, r
  <2>8. CASE \E i \in DOMAIN plan : ToMove(i) /\ plan[i].path = p
    <3>1. PICK i \in DOMAIN plan : ToMove(i) /\ plan[i].path = p
      BY <2>8
    <3>2. Arrived(i)
      BY <2>1, <2>3, <3>1 DEF Delivered
    <3>3. /\ Here[p].is = "file" /\ host[p].is = "file" /\ Here[p].size = host[p].size
          /\ Here[p].time = 0 \/ host[p].time = 0 \/ Here[p].time = host[p].time
      BY <3>1, <3>2 DEF Arrived, TimeOfCopy
    <3> QED
      BY <2>4, <2>5, <2>6, <2>7, <3>3, NothingToDo
  <2>9. CASE ~\E i \in DOMAIN plan : ToMove(i) /\ plan[i].path = p
    <3>1. (SameHere(L, p) \/ MadeHere(L, p)) /\ host[p] = R[p]
      BY <2>3, <2>5, <2>9 DEF Became, Wrote
    <3>2. CASE MadeHere(L, p)
      <4>1. PICK j \in DOMAIN plan : ToMove(j) /\ plan[j].act \in Down /\ Under(p, plan[j].path)
        BY <3>2 DEF MadeHere
      <4>2. plan[j].path \in DOMAIN seenR
        BY <2>1, <4>1, EndsSeen
      <4>3. R[p].is = "dir"
        BY <2>3, <2>5, <4>1, <4>2, SeenAbove
      <4>4. Here[p].is = "dir" /\ host[p].is = "dir"
        BY <3>1, <3>2, <4>3, EntryFacts DEF MadeHere
      <4> QED
        BY <2>4, <2>5, <2>6, <2>7, <4>4, NothingToDo
    <3>3. CASE SameHere(L, p)
      <4>1. ASSUME NEW q \in Paths PROVE /\ L[q].is = "dir" => Here[q] = L[q]
                                         /\ R[q].is = "dir" => host[q] = R[q]
        BY <2>3 DEF Became, SameHere, MadeHere, Wrote
      <4>2. p \in DOMAIN seenL <=> L[p].is # "none"
        <5>1. L[p].is # "none" => \A q \in Paths : Under(q, p) => L[q].is = "dir" /\ ~L[q].link
          BY <2>3, <2>5, <2>6, <4>1 DEF Grounded
        <5> QED
          BY <2>3, <2>5, <5>1, WalkFacts
      <4>3. p \in DOMAIN seenR <=> R[p].is # "none"
        <5>1. R[p].is # "none" => \A q \in Paths : Under(q, p) => R[q].is = "dir" /\ ~R[q].link
          BY <2>3, <2>5, <2>6, <4>1 DEF Grounded
        <5> QED
          BY <2>3, <2>5, <5>1, WalkFacts
      <4>4. /\ p \in DOMAIN seenL => seenL[p] = L[p]
            /\ p \in DOMAIN seenR => seenR[p] = R[p]
        BY <2>3, WalkFacts
      <4>5. /\ p \in DOMAIN seenL <=> p \in DOMAIN l
            /\ p \in DOMAIN seenR <=> p \in DOMAIN r
            /\ p \in DOMAIN l => l[p] = seenL[p]
            /\ p \in DOMAIN r => r[p] = seenR[p]
        BY <2>7, <3>1, <3>3, <4>2, <4>3, <4>4 DEF SameHere
      <4>6. /\ p \in Kept(seenL, ex) <=> p \in Kept(l, ex)
            /\ p \in Kept(seenR, ex) <=> p \in Kept(r, ex)
            /\ At(seenL, p) = At(l, p) /\ At(seenR, p) = At(r, p)
        BY <4>5 DEF Kept, At
      <4>7. Compare(seenL, seenR, ex)[p] = Compare(l, r, ex)[p]
        <5>1. p \in Kept(l, ex) /\ p \in Kept(r, ex) => l[p] = seenL[p] /\ r[p] = seenR[p]
          BY <4>5 DEF Kept
        <5> QED
          BY <2>5, <4>6, <5>1, CompareIs
      <4>8. p \in DOMAIN then /\ then[p] = now[p]
        BY <2>5, <4>6, <4>7 DEF Acting
      <4>9. Walked(seenL) /\ Walked(seenR) /\ plan = BuildPlan(seenL, seenR, job.excludes, job.dir, job.del)
        BY <2>1 DEF SyncInv, JobInv, PlanInv
      <4> HIDE DEF now, then
      <4>10. PICK i \in DOMAIN plan : plan[i] = [act |-> then[p], path |-> p]
        BY <4>8, <4>9, PlanCovers DEF then
      <4>11. ToMove(i) /\ plan[i].path = p
        BY <1>2, <2>5, <4>8, <4>10 DEF ToMove, p
      <4> QED
        BY <2>9, <4>11
    <3> QED
      BY <3>1, <3>2, <3>3
  <2> QED
    BY <2>8, <2>9
<1>3. Converges
  BY <1>2 DEF Converges, Here
<1> QED
  BY <1>1, <1>3 DEF EndsInAgreement

\* A transfer of a sync nobody interferes with fails only where the plan had a conflict, a
\* pattern hid the other half or a remote directory is yet to be made, and when all have
\* arrived the same comparison has nothing left to move but behind links (SyncPlan.cpp,
\* QueuePair and RunTransfer in SftpBrowser.cpp).
THEOREM SyncsAgree == SyncSpec => []EndsInAgreement
<1> QED
  BY FullStarts, FullKeeps, Agreeing, PTL DEF SyncSpec
=============================================================================
