---------------------------- MODULE MutexProofs -----------------------------
(***************************************************************************)
(* Proofs about os_mutex for any number of threads, mutexes and priorities *)
(* and any choice of calls.                                                *)
(***************************************************************************)
EXTENDS Mutex, SequenceTheorems, FiniteSetTheorems, WellFoundedInduction, TLAPS

Distinct(q) == \A i, j \in DOMAIN q : q[i] = q[j] => i = j

Sorted(q, pri) == \A i, j \in DOMAIN q : i < j => pri[q[i]] >= pri[q[j]]

\* Queue q holds the threads that wait for m, once each.
Queued(q, m, waits) == /\ q \in Seq(Threads) /\ Distinct(q)
                       /\ Range(q) = {t \in Threads : waits[t] = m}

\* The same for every mutex, and the queues are ordered by the priorities.
QueuesAre(wq, waits, pri) ==
    \A m \in Mutexes : Queued(wq[m], m, waits) /\ Sorted(wq[m], pri)

(***************************************************************************)
(* No set of threads waits for mutexes of its own members only.            *)
(***************************************************************************)
Acyclic(own, waits) ==
    \A C \in SUBSET Threads :
        C # {} => \E t \in C : waits[t] = None \/ own[waits[t]] \notin C

\* Thread t has a reason to run at its priority.
Justified(t, own, waits, pri, base) ==
    \/ pri[t] <= base[t]
    \/ \E u \in Threads : waits[u] # None /\ own[waits[u]] = t /\ pri[t] <= pri[u]

(***************************************************************************)
(* Where a thread is in a call agrees with what the mutexes know of it.    *)
(***************************************************************************)
Consistent(t) ==
    /\ pc[t] \in {"wait", "woken", "expired", "retry"} => want[t] \in Mutexes
    /\ waiting_mutex[t] # None => /\ pc[t] \in {"wait", "woken", "expired", "dead"}
                                  /\ pc[t] # "dead" => want[t] = waiting_mutex[t]
    /\ pc[t] = "wait" /\ waiting_mutex[t] = None => notified[t] \/ completed[t]
    /\ pc[t] = "dead" => completed[t]
    /\ pc[t] = "abort" => victim[t] \in Threads \ {t}
    /\ victim[t] # None => completed[victim[t]]

\* The inductive invariant.
IInv == /\ TypeOK
        /\ \A t \in Threads : Consistent(t)
        /\ QueuesAre(wait_q, waiting_mutex, priority)
        /\ Acyclic(owner, waiting_mutex)
        /\ FreeMutexIsClaimed
-----------------------------------------------------------------------------
(* Induction up to a bound, over sets                                      *)

\* A set of numbers has a least one.
LEMMA LeastNumber ==
    ASSUME NEW T, T \subseteq Nat, T # {}
    PROVE  \E x \in T : \A y \in T : x <= y
<1> PICK R : R = {ss \in Nat \X Nat : ss[1] < ss[2]}
  OBVIOUS
<1>1. IsWellFoundedOn(R, Nat)
  BY NatLessThanWellFounded DEF OpToRel
<1>2. PICK x \in T : \A y \in T : <<y, x>> \notin R
  BY <1>1, WFMin
<1>3. \A y \in T : ~(y < x)
  BY <1>2
<1> QED BY <1>3

\* A set that holds 0 and the successor of each of its numbers below n.
LEMMA InductionTo ==
    ASSUME NEW n \in Nat, NEW P, 0 \in P, \A k \in 1 .. n : k - 1 \in P => k \in P
    PROVE  \A k \in 0 .. n : k \in P
<1> SUFFICES ASSUME NEW j \in 0 .. n, j \notin P PROVE FALSE
  OBVIOUS
<1>1. PICK T : T = {k \in 0 .. n : k \notin P}
  OBVIOUS
<1>2. T \subseteq Nat /\ T # {}
  BY <1>1
<1>3. PICK k \in T : \A y \in T : k <= y
  BY <1>2, LeastNumber
<1>4. k \in 1 .. n /\ k - 1 \in 0 .. n /\ k - 1 \notin T
  BY <1>1, <1>3
<1> QED BY <1>1, <1>3, <1>4

\* The values that a function yields when it is applied again and again.
Iterates(f, S, a, F, n) ==
    f \in [0 .. n -> S] /\ f[0] = a /\ \A k \in 1 .. n : f[k] = F[f[k - 1]]

LEMMA Iteration ==
    ASSUME NEW S, NEW a \in S, NEW F \in [S -> S], NEW n \in Nat
    PROVE  \E f : Iterates(f, S, a, F, n)
<1>1. PICK P : P = {m \in 0 .. n : \E f \in [0 .. m -> S] :
                        f[0] = a /\ \A k \in 1 .. m : f[k] = F[f[k - 1]]}
  OBVIOUS
<1>2. 0 \in P
  <2>1. PICK f : f = [k \in 0 .. 0 |-> a]
    OBVIOUS
  <2>2. f \in [0 .. 0 -> S] /\ f[0] = a /\ \A k \in 1 .. 0 : f[k] = F[f[k - 1]]
    BY <2>1
  <2> QED BY <1>1, <2>2
<1>3. ASSUME NEW m \in 1 .. n, m - 1 \in P PROVE m \in P
  <2>1. PICK f \in [0 .. m - 1 -> S] : f[0] = a /\ \A k \in 1 .. m - 1 : f[k] = F[f[k - 1]]
    BY <1>1, <1>3
  <2>2. PICK g : g = [k \in 0 .. m |-> IF k = m THEN F[f[m - 1]] ELSE f[k]]
    OBVIOUS
  <2>3. f[m - 1] \in S /\ F[f[m - 1]] \in S
    OBVIOUS
  <2>4. g \in [0 .. m -> S] /\ g[0] = a
    BY <2>1, <2>2, <2>3
  <2>5. ASSUME NEW k \in 1 .. m PROVE g[k] = F[g[k - 1]]
    <3>1. CASE k = m
      BY <2>2, <3>1
    <3>2. CASE k # m
      <4>1. k \in 1 .. m - 1 /\ k \in 0 .. m /\ k - 1 \in 0 .. m /\ k - 1 # m
        BY <3>2
      <4>2. g[k] = f[k] /\ g[k - 1] = f[k - 1]
        BY <2>2, <3>2, <4>1
      <4> QED BY <2>1, <4>1, <4>2
    <3> QED BY <3>1, <3>2
  <2> QED BY <1>1, <2>4, <2>5
<1>4. n \in P
  BY <1>2, <1>3, InductionTo
<1> QED BY <1>1, <1>4 DEF Iterates

\* A finite set of numbers has a largest one.
LEMMA LargestNumber ==
    ASSUME NEW T, IsFiniteSet(T), T \subseteq Nat, T # {}
    PROVE  MaxOf(T) \in T /\ \A y \in T : y <= MaxOf(T)
<1>1. PICK n : n = Cardinality(T)
  OBVIOUS
<1>2. n \in Nat
  BY <1>1, FS_CardinalityType
<1>3. PICK P : P = {k \in 0 .. n : \A U \in SUBSET T : Cardinality(U) = k /\ U # {} =>
                                       \E x \in U : \A y \in U : y <= x}
  OBVIOUS
<1>4. 0 \in P
  <2>1. ASSUME NEW U \in SUBSET T, Cardinality(U) = 0 PROVE U = {}
    <3>1. IsFiniteSet(U)
      BY FS_Subset
    <3> QED BY <2>1, <3>1, FS_EmptySet
  <2>2. 0 \in 0 .. n
    BY <1>2
  <2> QED BY <1>3, <2>1, <2>2
<1>5. ASSUME NEW k \in 1 .. n, k - 1 \in P PROVE k \in P
  <2>1. ASSUME NEW U \in SUBSET T, Cardinality(U) = k, U # {}
        PROVE  \E x \in U : \A y \in U : y <= x
    <3>1. PICK u \in U : TRUE
      BY <2>1
    <3>2. IsFiniteSet(U)
      BY FS_Subset
    <3>3. PICK V : V = U \ {u}
      OBVIOUS
    <3>4. V \in SUBSET T /\ Cardinality(V) = k - 1
      BY <2>1, <3>1, <3>2, <3>3, FS_RemoveElement
    <3>5. CASE V = {}
      BY <3>1, <3>3, <3>5
    <3>6. CASE V # {}
      <4>1. PICK v \in V : \A y \in V : y <= v
        BY <1>3, <1>5, <3>4, <3>6
      <4>2. u \in Nat /\ v \in Nat /\ V \subseteq Nat
        BY <3>1, <3>4
      <4> QED BY <3>3, <4>1, <4>2
    <3> QED BY <3>5, <3>6
  <2> QED BY <1>3, <2>1
<1>6. n \in P
  BY <1>2, <1>4, <1>5, InductionTo
<1>7. \E x \in T : \A y \in T : y <= x
  BY <1>1, <1>3, <1>6
<1> QED BY <1>7 DEF MaxOf
-----------------------------------------------------------------------------
(* Wait queues                                                             *)

\* sys_dlist_remove leaves the other threads in their order.
LEMMA Removed ==
    ASSUME NEW q \in Seq(Threads), Distinct(q), NEW t \in Range(q), NEW r, r = RemoveNode(q, t)
    PROVE  /\ r \in Seq(Threads) /\ Distinct(r) /\ Range(r) = Range(q) \ {t}
           /\ \A pri : Sorted(q, pri) => Sorted(r, pri)
<1>1. PICK n : n = Len(q)
  OBVIOUS
<1>2. n \in Nat /\ DOMAIN q = 1 .. n /\ \A j \in 1 .. n : q[j] \in Threads
  BY <1>1
<1>3. PICK i : i = CHOOSE j \in DOMAIN q : q[j] = t
  OBVIOUS
<1>4. \E j \in DOMAIN q : q[j] = t
  BY DEF Range
<1>5. i \in 1 .. n /\ q[i] = t
  BY <1>2, <1>3, <1>4
<1>6. r = [j \in 1 .. n - 1 |-> IF j < i THEN q[j] ELSE q[j + 1]]
  BY <1>1, <1>3 DEF RemoveNode
<1>7. /\ DOMAIN r = 1 .. n - 1 /\ n - 1 \in Nat
      /\ \A j \in 1 .. n - 1 : /\ r[j] = IF j < i THEN q[j] ELSE q[j + 1]
                              /\ r[j] \in Threads
  BY <1>2, <1>5, <1>6
<1>8. r \in Seq(Threads)
  <2>1. r \in [1 .. n - 1 -> Threads]
    BY <1>6, <1>7
  <2> QED BY <1>7, <2>1, SeqDef
<1>9. Distinct(r)
  <2> SUFFICES ASSUME NEW j \in 1 .. n - 1, NEW k \in 1 .. n - 1, r[j] = r[k] PROVE j = k
    BY <1>7 DEF Distinct
  <2>1. PICK x, y : /\ x = IF j < i THEN j ELSE j + 1
                    /\ y = IF k < i THEN k ELSE k + 1
    OBVIOUS
  <2>2. x \in 1 .. n /\ y \in 1 .. n
    BY <1>2, <1>5, <2>1
  <2>3. r[j] = q[x] /\ r[k] = q[y]
    BY <1>7, <2>1
  <2>4. x = y
    BY <1>2, <2>2, <2>3 DEF Distinct
  <2> QED BY <1>5, <2>1, <2>4
<1>10. Range(r) = Range(q) \ {t}
  <2>1. ASSUME NEW x \in Range(r) PROVE x \in Range(q) /\ x # t
    <3>1. PICK j \in 1 .. n - 1 : x = r[j]
      BY <1>7 DEF Range
    <3>2. PICK k \in 1 .. n : k # i /\ x = q[k]
      BY <1>2, <1>5, <1>7, <3>1
    <3> QED BY <1>2, <1>5, <3>2 DEF Distinct, Range
  <2>2. ASSUME NEW x \in Range(q), x # t PROVE x \in Range(r)
    <3>1. PICK k \in 1 .. n : x = q[k]
      BY <1>2 DEF Range
    <3>2. k # i
      BY <1>5, <2>2, <3>1
    <3>3. PICK j : j = IF k < i THEN k ELSE k - 1
      OBVIOUS
    <3>4. j \in 1 .. n - 1 /\ r[j] = x
      BY <1>2, <1>5, <1>7, <3>1, <3>2, <3>3
    <3> QED BY <1>7, <3>4 DEF Range
  <2> QED BY <2>1, <2>2
<1>11. ASSUME NEW pri, Sorted(q, pri) PROVE Sorted(r, pri)
  <2> SUFFICES ASSUME NEW j \in 1 .. n - 1, NEW k \in 1 .. n - 1, j < k
               PROVE  pri[r[j]] >= pri[r[k]]
    BY <1>7 DEF Sorted
  <2>1. PICK x, y : /\ x = IF j < i THEN j ELSE j + 1
                    /\ y = IF k < i THEN k ELSE k + 1
    OBVIOUS
  <2>2. x \in 1 .. n /\ y \in 1 .. n /\ x < y
    BY <1>2, <1>5, <2>1
  <2>3. r[j] = q[x] /\ r[k] = q[y]
    BY <1>7, <2>1
  <2> QED BY <1>2, <1>11, <2>2, <2>3 DEF Sorted
<1> QED BY <1>8, <1>9, <1>10, <1>11

\* os_waitq_insert_priority_locked puts the thread before the first one with a
\* lower priority.
LEMMA Inserted ==
    ASSUME NEW q \in Seq(Threads), Distinct(q), NEW t \in Threads, t \notin Range(q),
           NEW pri \in [Threads -> Nat], Sorted(q, pri),
           NEW r, r = os_waitq_insert_priority_locked(q, t, pri)
    PROVE  /\ r \in Seq(Threads) /\ Distinct(r) /\ Range(r) = Range(q) \cup {t}
           /\ Sorted(r, pri)
<1>1. PICK n : n = Len(q)
  OBVIOUS
<1>2. n \in Nat /\ DOMAIN q = 1 .. n /\ \A j \in 1 .. n : q[j] \in Threads /\ pri[q[j]] \in Nat
  BY <1>1
<1>3. PICK T : T = {j \in 1 .. n : pri[t] > pri[q[j]]} \cup {n + 1}
  OBVIOUS
<1>4. T \subseteq Nat /\ T # {}
  BY <1>2, <1>3
<1>5. PICK f \in T : \A y \in T : f <= y
  BY <1>4, LeastNumber
<1>6. PICK k : k = f - 1
  OBVIOUS
<1>7. pri[t] \in Nat
  OBVIOUS
<1>8. /\ k \in 0 .. n /\ \A j \in 1 .. n : j <= k => pri[t] <= pri[q[j]]
      /\ k < n => pri[t] > pri[q[k + 1]]
  <2>1. f \in 1 .. n + 1
    BY <1>2, <1>3
  <2>2. ASSUME NEW j \in 1 .. n, j <= k PROVE pri[t] <= pri[q[j]]
    BY <1>2, <1>3, <1>5, <1>6, <1>7, <2>1, <2>2
  <2> QED BY <1>2, <1>3, <1>5, <1>6, <2>1, <2>2
<1>k. n \in Nat /\ k \in Nat /\ k <= n
  BY <1>2, <1>8
<1>9. {j \in DOMAIN q : \A l \in 1 .. j : pri[t] <= pri[q[l]]} = 1 .. k
  <2>1. ASSUME NEW j \in 1 .. n, \A l \in 1 .. j : pri[t] <= pri[q[l]] PROVE j <= k
    <3> SUFFICES ASSUME k < j PROVE FALSE
      BY <1>8
    <3>1. k + 1 \in 1 .. j /\ k + 1 \in 1 .. n
      BY <1>2, <1>8
    <3>2. pri[t] <= pri[q[k + 1]] /\ pri[t] > pri[q[k + 1]] /\ pri[q[k + 1]] \in Nat
      BY <1>2, <1>8, <2>1, <3>1
    <3> QED BY <1>7, <3>2
  <2>2. ASSUME NEW j \in 1 .. k PROVE j \in 1 .. n /\ \A l \in 1 .. j : pri[t] <= pri[q[l]]
    BY <1>2, <1>8
  <2> QED BY <1>2, <1>8, <2>1, <2>2
<1>10. Cardinality(1 .. k) = k
  BY <1>8, FS_Interval
<1>11. PICK a, b : a = SubSeq(q, 1, k) /\ b = SubSeq(q, k + 1, n)
  OBVIOUS
<1>12. PICK c : c = <<t>>
  OBVIOUS
<1>13. r = (a \o c) \o b
  BY <1>1, <1>9, <1>10, <1>11, <1>12 DEF os_waitq_insert_priority_locked
<1>14. /\ a \in Seq(Threads) /\ Len(a) = k /\ \A j \in 1 .. k : a[j] = q[j]
  BY <1>2, <1>8, <1>11, SubSeqProperties
<1>15. /\ b \in Seq(Threads) /\ Len(b) = n - k /\ \A j \in 1 .. n - k : b[j] = q[k + j]
  BY <1>2, <1>8, <1>11, SubSeqProperties
<1>16. c \in Seq(Threads) /\ Len(c) = 1 /\ c[1] = t
  BY <1>12
<1>17. PICK d : d = a \o c
  OBVIOUS
<1>18. /\ d \in Seq(Threads) /\ Len(d) = k + 1 /\ d[k + 1] = t
       /\ \A j \in 1 .. k : d[j] = q[j]
  <2>1. /\ a \o c \in Seq(Threads) /\ Len(a \o c) = Len(a) + Len(c)
        /\ \A i \in 1 .. Len(a) + Len(c) :
              (a \o c)[i] = IF i <= Len(a) THEN a[i] ELSE c[i - Len(a)]
    BY <1>14, <1>16, ConcatProperties
  <2> QED BY <1>8, <1>14, <1>16, <1>17, <2>1
<1>19. /\ r \in Seq(Threads) /\ Len(r) = n + 1 /\ r[k + 1] = t
       /\ \A j \in 1 .. n : j <= k => r[j] = q[j]
       /\ \A j \in 1 .. n : j > k => r[j + 1] = q[j]
  <2>1. /\ d \o b \in Seq(Threads) /\ Len(d \o b) = Len(d) + Len(b)
        /\ \A i \in 1 .. Len(d) + Len(b) :
              (d \o b)[i] = IF i <= Len(d) THEN d[i] ELSE b[i - Len(d)]
    BY <1>15, <1>18, ConcatProperties
  <2>2. r = d \o b
    BY <1>13, <1>17
  <2>3. Len(d) + Len(b) = n + 1
    BY <1>k, <1>15, <1>18
  <2>4. /\ r \in Seq(Threads) /\ Len(r) = n + 1
        /\ \A i \in 1 .. n + 1 : r[i] = IF i <= k + 1 THEN d[i] ELSE b[i - (k + 1)]
    BY <1>18, <2>1, <2>2, <2>3
  <2>5. r[k + 1] = t
    BY <1>k, <1>18, <2>4
  <2>6. ASSUME NEW j \in 1 .. n, j <= k PROVE r[j] = q[j]
    <3>1. j \in 1 .. n + 1 /\ j <= k + 1 /\ j \in 1 .. k
      BY <1>k, <2>6
    <3> QED BY <1>18, <2>4, <3>1
  <2>7. ASSUME NEW j \in 1 .. n, j > k PROVE r[j + 1] = q[j]
    <3>1. PICK l : l = j - k
      OBVIOUS
    <3>2. /\ j + 1 \in 1 .. n + 1 /\ ~(j + 1 <= k + 1) /\ l \in 1 .. n - k
          /\ (j + 1) - (k + 1) = l /\ k + l = j
      BY <1>k, <2>7, <3>1
    <3>3. r[j + 1] = b[l] /\ b[l] = q[k + l]
      BY <1>15, <2>4, <3>2
    <3> QED BY <3>2, <3>3
  <2> QED BY <2>4, <2>5, <2>6, <2>7
<1>l. \A j \in 1 .. n + 1 : \/ j = k + 1 /\ r[j] = t
                            \/ j <= k /\ j \in 1 .. n /\ r[j] = q[j]
                            \/ j > k + 1 /\ j - 1 \in 1 .. n /\ r[j] = q[j - 1]
  <2> SUFFICES ASSUME NEW j \in 1 .. n + 1, j > k + 1
               PROVE  j - 1 \in 1 .. n /\ r[j] = q[j - 1]
    BY <1>k, <1>19
  <2>1. PICK i : i = j - 1
    OBVIOUS
  <2>2. i \in 1 .. n /\ i > k /\ i + 1 = j
    BY <1>k, <2>1
  <2> QED BY <1>19, <2>1, <2>2
<1>20. DOMAIN r = 1 .. n + 1
  BY <1>2, <1>19
<1>21. \A j \in 1 .. n : q[j] # t
  BY <1>2 DEF Range
<1>22. ASSUME NEW i \in 1 .. n + 1, NEW j \in 1 .. n + 1, i < j
       PROVE  r[i] # r[j] /\ pri[r[i]] >= pri[r[j]]
  <2>1. ASSUME NEW x \in 1 .. n, NEW y \in 1 .. n, x < y
        PROVE  q[x] # q[y] /\ pri[q[x]] >= pri[q[y]]
    <3>1. x # y /\ x \in DOMAIN q /\ y \in DOMAIN q
      BY <1>2, <2>1
    <3>2. q[x] # q[y]
      BY <3>1 DEF Distinct
    <3> QED BY <2>1, <3>1, <3>2 DEF Sorted
  <2>2. CASE j <= k
    <3>1. r[i] = q[i] /\ r[j] = q[j] /\ i \in 1 .. n /\ j \in 1 .. n
      BY <1>k, <1>l, <1>22, <2>2
    <3> QED BY <1>22, <2>1, <3>1
  <2>3. CASE i <= k /\ j = k + 1
    <3>1. r[i] = q[i] /\ r[j] = t /\ i \in 1 .. n
      BY <1>k, <1>l, <1>22, <2>3
    <3> QED BY <1>2, <1>7, <1>8, <1>21, <2>3, <3>1
  <2>4. CASE i <= k /\ j > k + 1
    <3>1. r[i] = q[i] /\ r[j] = q[j - 1] /\ i \in 1 .. n /\ j - 1 \in 1 .. n /\ i < j - 1
      BY <1>k, <1>l, <1>22, <2>4
    <3> QED BY <2>1, <3>1
  <2>5. CASE i = k + 1 /\ j > k + 1
    <3>1. r[i] = t /\ r[j] = q[j - 1] /\ j - 1 \in 1 .. n /\ k + 1 \in 1 .. n /\ k < n
      BY <1>k, <1>l, <1>22, <2>5
    <3>2. k + 1 = j - 1 \/ k + 1 < j - 1
      BY <1>k, <2>5
    <3>3. pri[q[k + 1]] >= pri[q[j - 1]] /\ pri[q[k + 1]] \in Nat /\ pri[q[j - 1]] \in Nat
      BY <1>2, <2>1, <3>1, <3>2
    <3> QED BY <1>7, <1>8, <1>21, <3>1, <3>3
  <2>6. CASE i > k + 1
    <3>1. /\ r[i] = q[i - 1] /\ r[j] = q[j - 1] /\ i - 1 \in 1 .. n /\ j - 1 \in 1 .. n
          /\ i - 1 < j - 1
      BY <1>k, <1>l, <1>22, <2>6
    <3> QED BY <2>1, <3>1
  <2> QED BY <1>k, <1>22, <2>2, <2>3, <2>4, <2>5, <2>6
<1>23. Distinct(r) /\ Sorted(r, pri)
  BY <1>2, <1>20, <1>22 DEF Distinct, Sorted
<1>24. Range(r) = Range(q) \cup {t}
  <2>1. ASSUME NEW x \in Range(r) PROVE x \in Range(q) \cup {t}
    <3>1. PICK j \in 1 .. n + 1 : x = r[j]
      BY <1>20 DEF Range
    <3>2. x = t \/ \E l \in 1 .. n : x = q[l]
      BY <1>l, <3>1
    <3> QED BY <1>2, <3>2 DEF Range
  <2>2. k + 1 \in 1 .. n + 1 /\ r[k + 1] = t
    BY <1>k, <1>19
  <2>3. ASSUME NEW x \in Range(q) PROVE x \in Range(r)
    <3>1. PICK l \in 1 .. n : x = q[l]
      BY <1>2 DEF Range
    <3>2. (l <= k /\ r[l] = x) \/ (l > k /\ r[l + 1] = x)
      BY <1>k, <1>19, <3>1
    <3>3. l \in 1 .. n + 1 /\ l + 1 \in 1 .. n + 1
      BY <1>k
    <3> QED BY <1>20, <3>2, <3>3 DEF Range
  <2>4. t \in Range(r)
    BY <1>20, <2>2 DEF Range
  <2> QED BY <2>1, <2>3, <2>4
<1> QED BY <1>19, <1>23, <1>24
-----------------------------------------------------------------------------
(* Priority inheritance                                                    *)

\* The queues hold the threads that wait.
Members(wq, waits) == \A m \in Mutexes : Range(wq[m]) = {u \in Threads : waits[u] = m}

\* The computed priority is the thread's own or that of one of its waiters.
LEMMA ComputedPriority ==
    ASSUME NEW t \in Threads, NEW own, NEW wq, NEW waits, Members(wq, waits),
           NEW pri \in [Threads -> Priorities], NEW base \in [Threads -> Priorities]
    PROVE  LET c == os_mutex_compute_priority_locked(t, own, wq, pri, base)
           IN  /\ c \in Priorities
               /\ \/ c = base[t]
                  \/ \E u \in Threads : waits[u] # None /\ own[waits[u]] = t /\ c = pri[u]
<1>c. PICK c : c = os_mutex_compute_priority_locked(t, own, wq, pri, base)
  OBVIOUS
<1>1. PICK V : V = {v \in Threads : \E m \in Owned(t, own) : \E i \in DOMAIN wq[m] : wq[m][i] = v}
  OBVIOUS
<1>2. PICK T : T = {base[t]} \cup {pri[u] : u \in V}
  OBVIOUS
<1>3. c = MaxOf(T)
  BY <1>c, <1>1, <1>2 DEF os_mutex_compute_priority_locked
<1>4. T \subseteq Priorities /\ T # {}
  BY <1>1, <1>2
<1>5. T \subseteq Nat /\ IsFiniteSet(T)
  BY <1>4, MutexAssumption, FS_Subset
<1>6. c \in T
  BY <1>3, <1>4, <1>5, LargestNumber
<1>7. ASSUME NEW u \in V PROVE u \in Threads /\ waits[u] # None /\ own[waits[u]] = t
  <2>1. PICK m \in Owned(t, own) : \E i \in DOMAIN wq[m] : wq[m][i] = u
    BY <1>1
  <2>2. m \in Mutexes /\ own[m] = t /\ u \in Range(wq[m])
    BY <2>1 DEF Owned, Range
  <2> QED BY <2>2, MutexAssumption DEF Members
<1>8. c = base[t] \/ \E u \in Threads : waits[u] # None /\ own[waits[u]] = t /\ c = pri[u]
  BY <1>2, <1>6, <1>7
<1> QED BY <1>c, <1>4, <1>6, <1>8

\* What the loop of os_mutex_update_pi_chain_locked works on.
PiStates(waits) ==
    {s \in [pri : [Threads -> Priorities], wq : [Mutexes -> Seq(Threads)],
            visited : SUBSET Threads, cur : Threads \cup {None}] :
        QueuesAre(s.wq, waits, s.pri)}

\* The queue of a thread whose priority changes is put in order again.
LEMMA Requeued ==
    ASSUME NEW waits, NEW wq \in [Mutexes -> Seq(Threads)], NEW pri \in [Threads -> Priorities],
           QueuesAre(wq, waits, pri),
           NEW t \in Threads, NEW x \in Priorities, NEW p, p = [pri EXCEPT ![t] = x],
           NEW m \in Mutexes, waits[t] = m,
           NEW w, w = [wq EXCEPT ![m] = os_waitq_insert_priority_locked(RemoveNode(@, t), t, p)]
    PROVE  w \in [Mutexes -> Seq(Threads)] /\ QueuesAre(w, waits, p)
<1>1. /\ wq[m] \in Seq(Threads) /\ Distinct(wq[m]) /\ Sorted(wq[m], pri)
      /\ Range(wq[m]) = {u \in Threads : waits[u] = m}
  BY DEF QueuesAre, Queued
<1>2. PICK q : q = RemoveNode(wq[m], t)
  OBVIOUS
<1>3. t \in Range(wq[m])
  BY <1>1
<1>4. /\ q \in Seq(Threads) /\ Distinct(q) /\ Range(q) = Range(wq[m]) \ {t}
      /\ Sorted(q, pri)
  BY <1>1, <1>2, <1>3, Removed
<1>5. p \in [Threads -> Nat] /\ \A u \in Threads : u # t => p[u] = pri[u]
  BY MutexAssumption
<1>6. \A j \in DOMAIN q : q[j] \in Threads /\ q[j] # t
  <2>1. \A j \in DOMAIN q : q[j] \in Range(q)
    BY DEF Range
  <2> QED BY <1>1, <1>4, <2>1
<1>7. Sorted(q, p)
  BY <1>4, <1>5, <1>6 DEF Sorted
<1>8. PICK r : r = os_waitq_insert_priority_locked(q, t, p)
  OBVIOUS
<1>9. t \notin Range(q)
  BY <1>4
<1>10. /\ r \in Seq(Threads) /\ Distinct(r) /\ Range(r) = Range(q) \cup {t}
       /\ Sorted(r, p)
  BY <1>4, <1>5, <1>7, <1>8, <1>9, Inserted
<1>11. w = [wq EXCEPT ![m] = r]
  BY <1>2, <1>8
<1>12. Queued(r, m, waits)
  BY <1>1, <1>3, <1>4, <1>10 DEF Queued
<1>13. ASSUME NEW n \in Mutexes, n # m PROVE Queued(wq[n], n, waits) /\ Sorted(wq[n], p)
  <2>1. Queued(wq[n], n, waits) /\ Sorted(wq[n], pri)
    BY DEF QueuesAre
  <2>2. \A j \in DOMAIN wq[n] : wq[n][j] \in Threads /\ wq[n][j] # t
    BY <1>13, <2>1 DEF Queued, Range
  <2> QED BY <1>5, <2>1, <2>2 DEF Sorted
<1>14. w \in [Mutexes -> Seq(Threads)] /\ w[m] = r /\ \A n \in Mutexes : n # m => w[n] = wq[n]
  BY <1>10, <1>11
<1> QED BY <1>10, <1>12, <1>13, <1>14 DEF QueuesAre

\* One turn of the loop.
LEMMA PiStepQueues ==
    ASSUME NEW own \in [Mutexes -> Threads \cup {None}], NEW base \in [Threads -> Priorities],
           NEW waits \in [Threads -> Mutexes \cup {None}], NEW s \in PiStates(waits)
    PROVE  PiStep(s, own, base, waits) \in PiStates(waits)
<1>1. PICK t, pri, wq, vis : t = s.cur /\ pri = s.pri /\ wq = s.wq /\ vis = s.visited
  OBVIOUS
<1>2. /\ t \in Threads \cup {None} /\ pri \in [Threads -> Priorities]
      /\ wq \in [Mutexes -> Seq(Threads)] /\ vis \in SUBSET Threads
      /\ QueuesAre(wq, waits, pri)
  BY <1>1 DEF PiStates
<1>3. CASE t = None \/ t \in vis
  <2>1. PiStep(s, own, base, waits) = [s EXCEPT !.cur = None]
    BY <1>1, <1>3 DEF PiStep
  <2> QED BY <2>1 DEF PiStates
<1>4. CASE ~(t = None \/ t \in vis)
  <2>1. PICK x : x = os_mutex_compute_priority_locked(t, own, wq, pri, base)
    OBVIOUS
  <2>2. t \in Threads /\ waits[t] \in Mutexes \cup {None}
    BY <1>2, <1>4
  <2>3. Members(wq, waits)
    BY <1>2 DEF QueuesAre, Queued, Members
  <2>4. x \in Priorities
    <3>1. os_mutex_compute_priority_locked(t, own, wq, pri, base) \in Priorities
      BY <1>2, <2>2, <2>3, ComputedPriority
    <3> QED BY <2>1, <3>1
  <2>5. PICK p : p = [pri EXCEPT ![t] = x]
    OBVIOUS
  <2>6. p \in [Threads -> Priorities]
    BY <1>2, <2>4, <2>5
  <2>7. PICK m : m = waits[t]
    OBVIOUS
  <2>8. CASE m = None
    <3>1. PiStep(s, own, base, waits) =
              [pri |-> p, visited |-> vis \cup {t}, wq |-> wq, cur |-> None]
      BY <1>1, <1>4, <2>1, <2>5, <2>7, <2>8 DEF PiStep
    <3>2. ASSUME NEW n \in Mutexes PROVE Sorted(wq[n], p)
      <4>1. Queued(wq[n], n, waits) /\ Sorted(wq[n], pri)
        BY <1>2 DEF QueuesAre
      <4>2. \A j \in DOMAIN wq[n] : wq[n][j] \in Threads /\ wq[n][j] # t
        BY <2>7, <2>8, <4>1, MutexAssumption DEF Queued, Range
      <4> QED BY <1>2, <2>5, <4>1, <4>2 DEF Sorted
    <3>3. QueuesAre(wq, waits, p)
      BY <1>2, <3>2 DEF QueuesAre
    <3> QED BY <1>2, <2>2, <2>6, <3>1, <3>3 DEF PiStates
  <2>9. CASE m # None
    <3>1. PICK w : w = [wq EXCEPT ![m] =
                           os_waitq_insert_priority_locked(RemoveNode(@, t), t, p)]
      OBVIOUS
    <3>2. PiStep(s, own, base, waits) =
              [pri |-> p, visited |-> vis \cup {t}, wq |-> w, cur |-> own[m]]
      BY <1>1, <1>4, <2>1, <2>5, <2>7, <2>9, <3>1 DEF PiStep
    <3>3. m \in Mutexes
      BY <2>2, <2>7, <2>9
    <3>4. w \in [Mutexes -> Seq(Threads)] /\ QueuesAre(w, waits, p)
      BY <1>2, <2>2, <2>4, <2>5, <2>7, <3>1, <3>3, Requeued
    <3> QED BY <1>2, <2>2, <2>6, <3>2, <3>3, <3>4 DEF PiStates
  <2> QED BY <2>8, <2>9
<1> QED BY <1>3, <1>4

(***************************************************************************)
(* After k turns of the loop only the thread it has come to may run at a   *)
(* priority without a reason, and it has not been there before.            *)
(***************************************************************************)
Climbs(s, k, own, base, waits) ==
    /\ \A t \in Threads : t # s.cur => Justified(t, own, waits, s.pri, base)
    /\ s.cur # None =>
          /\ Cardinality(s.visited) = k /\ s.cur \notin s.visited
          /\ \A v \in s.visited : waits[v] # None /\ own[waits[v]] \in s.visited \cup {s.cur}

\* A thread whose priority has been computed anew has a reason for it, and the
\* others keep theirs, but for the owner of the mutex that it waits for.
LEMMA JustifiedAgain ==
    ASSUME NEW own \in [Mutexes -> Threads \cup {None}], NEW base \in [Threads -> Priorities],
           NEW waits \in [Threads -> Mutexes \cup {None}], Acyclic(own, waits),
           NEW pri \in [Threads -> Priorities], NEW t \in Threads, NEW c \in Priorities,
           \/ c = base[t]
           \/ \E u \in Threads : waits[u] # None /\ own[waits[u]] = t /\ c = pri[u],
           NEW p, p = [pri EXCEPT ![t] = c],
           NEW x \in Threads, waits[t] # None => own[waits[t]] # x,
           x # t => Justified(x, own, waits, pri, base)
    PROVE  Justified(x, own, waits, p, base)
<1>1. \A u \in Threads : pri[u] \in Nat /\ base[u] \in Nat
  BY MutexAssumption
<1>2. c \in Nat
  BY MutexAssumption
<1>3. waits[t] # None => own[waits[t]] # t
  <2>1. {t} \in SUBSET Threads /\ {t} # {}
    OBVIOUS
  <2> QED BY <2>1 DEF Acyclic
<1>4. p[t] = c /\ \A u \in Threads : u # t => p[u] = pri[u]
  OBVIOUS
<1>5. CASE x = t
  <2>1. CASE c = base[t]
    BY <1>1, <1>4, <1>5, <2>1 DEF Justified
  <2>2. CASE \E u \in Threads : waits[u] # None /\ own[waits[u]] = t /\ c = pri[u]
    <3>1. PICK u \in Threads : waits[u] # None /\ own[waits[u]] = t /\ c = pri[u]
      BY <2>2
    <3>2. p[u] = c /\ p[t] <= p[u]
      BY <1>2, <1>3, <1>4, <3>1
    <3> QED BY <1>5, <3>1, <3>2 DEF Justified
  <2> QED BY <2>1, <2>2
<1>6. CASE x # t
  <2>1. p[x] = pri[x] /\ Justified(x, own, waits, pri, base)
    BY <1>4, <1>6
  <2>2. CASE pri[x] <= base[x]
    BY <2>1, <2>2 DEF Justified
  <2>3. CASE ~(pri[x] <= base[x])
    <3>1. PICK u \in Threads : waits[u] # None /\ own[waits[u]] = x /\ pri[x] <= pri[u]
      BY <2>1, <2>3 DEF Justified
    <3>2. u # t /\ p[u] = pri[u]
      BY <1>4, <3>1
    <3> QED BY <2>1, <3>1, <3>2 DEF Justified
  <2> QED BY <2>2, <2>3
<1> QED BY <1>5, <1>6

\* One turn of the loop, where there is no deadlock.
LEMMA PiStepClimbs ==
    ASSUME NEW own \in [Mutexes -> Threads \cup {None}], NEW base \in [Threads -> Priorities],
           NEW waits \in [Threads -> Mutexes \cup {None}], Acyclic(own, waits),
           NEW s \in PiStates(waits), NEW k \in Nat, Climbs(s, k, own, base, waits)
    PROVE  Climbs(PiStep(s, own, base, waits), k + 1, own, base, waits)
<1>1. PICK t, pri, wq, vis : t = s.cur /\ pri = s.pri /\ wq = s.wq /\ vis = s.visited
  OBVIOUS
<1>2. /\ t \in Threads \cup {None} /\ pri \in [Threads -> Priorities]
      /\ wq \in [Mutexes -> Seq(Threads)] /\ vis \in SUBSET Threads
      /\ QueuesAre(wq, waits, pri)
  BY <1>1 DEF PiStates
<1>3. /\ \A x \in Threads : x # t => Justified(x, own, waits, pri, base)
      /\ t # None => /\ Cardinality(vis) = k /\ t \notin vis
                     /\ \A v \in vis : waits[v] # None /\ own[waits[v]] \in vis \cup {t}
  BY <1>1 DEF Climbs
<1>4. CASE t = None
  <2>1. PiStep(s, own, base, waits) = [s EXCEPT !.cur = None]
    BY <1>1, <1>4 DEF PiStep
  <2>2. PICK z : z = PiStep(s, own, base, waits)
    OBVIOUS
  <2>3. z.pri = pri /\ z.cur = None
    BY <1>1, <2>1, <2>2 DEF PiStates
  <2>4. Climbs(z, k + 1, own, base, waits)
    BY <1>3, <1>4, <2>3 DEF Climbs
  <2> QED BY <2>2, <2>4
<1>5. CASE t # None
  <2>1. PICK c : c = os_mutex_compute_priority_locked(t, own, wq, pri, base)
    OBVIOUS
  <2>2. t \in Threads /\ t \notin vis /\ waits[t] \in Mutexes \cup {None}
    BY <1>2, <1>3, <1>5
  <2>3. Members(wq, waits)
    BY <1>2 DEF QueuesAre, Queued, Members
  <2>4. /\ c \in Priorities
        /\ \/ c = base[t]
           \/ \E u \in Threads : waits[u] # None /\ own[waits[u]] = t /\ c = pri[u]
    <3> PICK o : o = os_mutex_compute_priority_locked(t, own, wq, pri, base)
      OBVIOUS
    <3>1. /\ o \in Priorities
          /\ \/ o = base[t]
             \/ \E u \in Threads : waits[u] # None /\ own[waits[u]] = t /\ o = pri[u]
      BY <1>2, <2>2, <2>3, ComputedPriority
    <3> QED BY <2>1, <3>1
  <2>5. PICK p : p = [pri EXCEPT ![t] = c]
    OBVIOUS
  <2>6. ASSUME NEW x \in Threads, waits[t] # None => own[waits[t]] # x
        PROVE  Justified(x, own, waits, p, base)
    <3>1. x # t => Justified(x, own, waits, pri, base)
      BY <1>3
    <3>2. pri \in [Threads -> Priorities]
      BY <1>2
    <3> QED BY <2>2, <2>4, <2>5, <2>6, <3>1, <3>2, JustifiedAgain
  <2>7. PICK m : m = waits[t]
    OBVIOUS
  <2>8. CASE m = None
    <3>1. PICK z : z = PiStep(s, own, base, waits)
      OBVIOUS
    <3>2. z = [pri |-> p, visited |-> vis \cup {t}, wq |-> wq, cur |-> None]
      BY <1>1, <1>5, <2>1, <2>2, <2>5, <2>7, <2>8, <3>1 DEF PiStep
    <3>3. Climbs(z, k + 1, own, base, waits)
      BY <2>6, <2>7, <2>8, <3>2 DEF Climbs
    <3> QED BY <3>1, <3>3
  <2>9. CASE m # None
    <3>1. PICK z : z = PiStep(s, own, base, waits)
      OBVIOUS
    <3>2. z.pri = p /\ z.visited = vis \cup {t} /\ z.cur = own[m]
      BY <1>1, <1>5, <2>1, <2>2, <2>5, <2>7, <2>9, <3>1 DEF PiStep
    <3>3. IsFiniteSet(vis)
      BY <1>2, MutexAssumption, FS_Subset
    <3>4. Cardinality(vis \cup {t}) = k + 1
      BY <1>3, <1>5, <2>2, <3>3, FS_AddElement
    <3>5. PICK C : C = vis \cup {t}
      OBVIOUS
    <3>6. ASSUME own[m] \in C PROVE FALSE
      <4>1. C \in SUBSET Threads /\ C # {}
        BY <1>2, <2>2, <3>5
      <4>2. ASSUME NEW v \in C PROVE waits[v] # None /\ own[waits[v]] \in C
        BY <1>3, <1>5, <2>7, <2>9, <3>5, <3>6
      <4> QED BY <4>1, <4>2 DEF Acyclic
    <3>7. \A v \in C : waits[v] # None /\ own[waits[v]] \in C \cup {own[m]}
      BY <1>3, <1>5, <2>7, <2>9, <3>5
    <3>8. Climbs(z, k + 1, own, base, waits)
      BY <2>6, <2>7, <2>9, <3>2, <3>4, <3>5, <3>6, <3>7 DEF Climbs
    <3> QED BY <3>1, <3>8
  <2> QED BY <2>8, <2>9
<1> QED BY <1>4, <1>5

(***************************************************************************)
(* os_mutex_update_pi_chain_locked leaves the queues complete and ordered. *)
(* When the chain is as long as there are threads, no thread keeps a boost *)
(* without a reason, if the thread it begins with was the only one.        *)
(***************************************************************************)
LEMMA ChainResult ==
    ASSUME NEW own \in [Mutexes -> Threads \cup {None}], NEW base \in [Threads -> Priorities],
           NEW waits \in [Threads -> Mutexes \cup {None}], NEW t \in Threads \cup {None},
           NEW wq \in [Mutexes -> Seq(Threads)], priority \in [Threads -> Priorities],
           QueuesAre(wq, waits, priority),
           NEW r, r = os_mutex_update_pi_chain_locked(t, own, wq, base, waits)
    PROVE  /\ r \in PiStates(waits)
           /\ /\ Acyclic(own, waits) /\ Cardinality(Threads) <= MaxChain
              /\ \A x \in Threads : x # t => Justified(x, own, waits, priority, base)
              => \A x \in Threads : Justified(x, own, waits, r.pri, base)
<1>1. PICK s : s = [pri |-> priority, wq |-> wq, visited |-> {}, cur |-> t]
  OBVIOUS
<1>2. s \in PiStates(waits)
  BY <1>1 DEF PiStates
<1>3. PICK S : S = PiStates(waits)
  OBVIOUS
<1>4. PICK F : F = [z \in S |-> PiStep(z, own, base, waits)]
  OBVIOUS
<1>5. F \in [S -> S] /\ \A z \in S : F[z] = PiStep(z, own, base, waits)
  BY <1>3, <1>4, PiStepQueues
<1>6. MaxChain \in Nat
  BY MutexAssumption
<1>7. PICK f : /\ f \in [0 .. MaxChain -> S] /\ f[0] = s
               /\ \A k \in 1 .. MaxChain : f[k] = F[f[k - 1]]
  <2>1. s \in S /\ F \in [S -> S]
    BY <1>2, <1>3, <1>5
  <2>2. \E f : Iterates(f, S, s, F, MaxChain)
    BY <1>6, <2>1, Iteration
  <2> QED BY <2>2 DEF Iterates
<1>8. f = [k \in 0 .. MaxChain |-> IF k = 0 THEN s ELSE PiStep(f[k - 1], own, base, waits)]
  <2>1. ASSUME NEW k \in 1 .. MaxChain PROVE f[k] = PiStep(f[k - 1], own, base, waits)
    <3>1. k - 1 \in 0 .. MaxChain
      BY <1>6
    <3> QED BY <1>5, <1>7, <3>1
  <2>2. ASSUME NEW k \in 0 .. MaxChain
        PROVE  f[k] = IF k = 0 THEN s ELSE PiStep(f[k - 1], own, base, waits)
    BY <1>6, <1>7, <2>1
  <2> QED BY <1>7, <2>2
<1>9. PICK g : g = CHOOSE h : h = [k \in 0 .. MaxChain |->
                    IF k = 0 THEN s ELSE PiStep(h[k - 1], own, base, waits)]
  OBVIOUS
<1>10. g = [k \in 0 .. MaxChain |-> IF k = 0 THEN s ELSE PiStep(g[k - 1], own, base, waits)]
  BY <1>8, <1>9
<1>11. r = g[MaxChain]
  BY <1>1, <1>9 DEF os_mutex_update_pi_chain_locked
<1>12. g[0] = s /\ \A k \in 1 .. MaxChain : g[k] = PiStep(g[k - 1], own, base, waits)
  BY <1>6, <1>10
<1>13. r \in PiStates(waits)
  <2>1. PICK P : P = {k \in 0 .. MaxChain : g[k] \in PiStates(waits)}
    OBVIOUS
  <2>2. 0 \in P
    BY <1>2, <1>6, <1>12, <2>1
  <2>3. ASSUME NEW k \in 1 .. MaxChain, k - 1 \in P PROVE k \in P
    <3>1. k \in 0 .. MaxChain
      OBVIOUS
    <3>2. PICK z : z = g[k - 1]
      OBVIOUS
    <3>3. z \in PiStates(waits) /\ g[k] = PiStep(z, own, base, waits)
      BY <1>12, <2>1, <2>3, <3>2
    <3>4. PiStep(z, own, base, waits) \in PiStates(waits)
      BY <3>3, PiStepQueues
    <3> QED BY <2>1, <3>1, <3>3, <3>4
  <2>4. \A k \in 0 .. MaxChain : k \in P
    BY <1>6, <2>2, <2>3, InductionTo
  <2> QED BY <1>6, <1>11, <2>1, <2>4
<1>14. ASSUME Acyclic(own, waits), Cardinality(Threads) <= MaxChain,
              \A x \in Threads : x # t => Justified(x, own, waits, priority, base)
       PROVE  \A x \in Threads : Justified(x, own, waits, r.pri, base)
  <2>1. PICK P : P = {k \in 0 .. MaxChain : /\ g[k] \in PiStates(waits)
                                           /\ Climbs(g[k], k, own, base, waits)}
    OBVIOUS
  <2>2. 0 \in P
    <3>1. Climbs(s, 0, own, base, waits)
      BY <1>1, <1>14, FS_EmptySet DEF Climbs
    <3>2. 0 \in 0 .. MaxChain
      BY <1>6
    <3> QED BY <1>2, <1>12, <2>1, <3>1, <3>2
  <2>3. ASSUME NEW k \in 1 .. MaxChain, k - 1 \in P PROVE k \in P
    <3>1. k - 1 \in Nat /\ (k - 1) + 1 = k /\ k \in 0 .. MaxChain
      OBVIOUS
    <3>2. PICK j : j = k - 1
      OBVIOUS
    <3>3. g[j] \in PiStates(waits) /\ Climbs(g[j], j, own, base, waits)
      BY <2>1, <2>3, <3>2
    <3>4. /\ PiStep(g[j], own, base, waits) \in PiStates(waits)
          /\ Climbs(PiStep(g[j], own, base, waits), j + 1, own, base, waits)
      BY <1>14, <3>1, <3>2, <3>3, PiStepQueues, PiStepClimbs
    <3> QED BY <1>12, <2>1, <3>1, <3>2, <3>4
  <2>4. \A k \in 0 .. MaxChain : k \in P
    BY <1>6, <2>2, <2>3, InductionTo
  <2>5. Climbs(r, MaxChain, own, base, waits)
    BY <1>6, <1>11, <2>1, <2>4
  <2>6. ASSUME r.cur # None PROVE FALSE
    <3>1. PICK V, c : V = r.visited /\ c = r.cur
      OBVIOUS
    <3>2. V \in SUBSET Threads /\ c \in Threads /\ c \notin V /\ Cardinality(V) = MaxChain
      BY <1>13, <2>5, <2>6, <3>1 DEF PiStates, Climbs
    <3>3. IsFiniteSet(V)
      BY <3>2, MutexAssumption, FS_Subset
    <3>4. Cardinality(V \cup {c}) = MaxChain + 1
      BY <3>2, <3>3, FS_AddElement
    <3>5. V \cup {c} \in SUBSET Threads
      BY <3>2
    <3>6. Cardinality(V \cup {c}) <= Cardinality(Threads) /\ Cardinality(Threads) \in Nat
      BY <3>5, MutexAssumption, FS_Subset, FS_CardinalityType
    <3> QED BY <1>6, <1>14, <3>4, <3>6
  <2> QED BY <2>5, <2>6, MutexAssumption DEF Climbs
<1> QED BY <1>13, <1>14

\* OS_PI_MAX_CHAIN_DEPTH is not less than the number of threads.
ChainIsLongEnough == Cardinality(Threads) <= MaxChain

AllJustified ==
    \A t \in Threads : Justified(t, owner, waiting_mutex, priority, base_priority)

\* The critical sections that end with os_mutex_update_pi_chain_locked.
LEMMA Settled ==
    ASSUME TypeOK, owner' \in [Mutexes -> Threads \cup {None}],
           base_priority' \in [Threads -> Priorities],
           waiting_mutex' \in [Threads -> Mutexes \cup {None}],
           NEW wq \in [Mutexes -> Seq(Threads)], QueuesAre(wq, waiting_mutex', priority),
           NEW t \in Threads \cup {None},
           SetPriorities(os_mutex_update_pi_chain_locked(t, owner', wq, base_priority',
                                                         waiting_mutex'))
    PROVE  /\ wait_q' \in [Mutexes -> Seq(Threads)] /\ priority' \in [Threads -> Priorities]
           /\ QueuesAre(wait_q', waiting_mutex', priority')
           /\ /\ Acyclic(owner', waiting_mutex') /\ ChainIsLongEnough
              /\ \A x \in Threads : x # t =>
                    Justified(x, owner', waiting_mutex', priority, base_priority')
              => AllJustified'
<1>1. PICK own, base, waits : own = owner' /\ base = base_priority' /\ waits = waiting_mutex'
  OBVIOUS
<1>2. /\ own \in [Mutexes -> Threads \cup {None}] /\ base \in [Threads -> Priorities]
      /\ waits \in [Threads -> Mutexes \cup {None}] /\ QueuesAre(wq, waits, priority)
  BY <1>1
<1>3. PICK r : r = os_mutex_update_pi_chain_locked(t, own, wq, base, waits)
  OBVIOUS
<1>4. priority \in [Threads -> Priorities]
  BY DEF TypeOK
<1>5. /\ r \in PiStates(waits)
      /\ /\ Acyclic(own, waits) /\ Cardinality(Threads) <= MaxChain
         /\ \A x \in Threads : x # t => Justified(x, own, waits, priority, base)
         => \A x \in Threads : Justified(x, own, waits, r.pri, base)
  BY <1>2, <1>3, <1>4, ChainResult
<1>6. priority' = r.pri /\ wait_q' = r.wq
  BY <1>1, <1>3 DEF SetPriorities
<1>7. /\ r.wq \in [Mutexes -> Seq(Threads)] /\ r.pri \in [Threads -> Priorities]
      /\ QueuesAre(r.wq, waits, r.pri)
  BY <1>5 DEF PiStates
<1> QED BY <1>1, <1>5, <1>6, <1>7 DEF AllJustified, ChainIsLongEnough
-----------------------------------------------------------------------------
(* Deadlock                                                                *)

\* Where no thread begins to wait and only threads that do not wait become
\* owners, there is still no deadlock.
LEMMA FewerEdges ==
    ASSUME Acyclic(owner, waiting_mutex), TypeOK,
           \A t \in Threads : waiting_mutex'[t] # None => waiting_mutex'[t] = waiting_mutex[t],
           \A m \in Mutexes : owner'[m] \in Threads =>
               owner'[m] = owner[m] \/ waiting_mutex'[owner'[m]] = None
    PROVE  Acyclic(owner', waiting_mutex')
<1> SUFFICES ASSUME NEW C \in SUBSET Threads, C # {},
                    \A t \in C : waiting_mutex'[t] # None /\ owner'[waiting_mutex'[t]] \in C
             PROVE  FALSE
  BY DEF Acyclic
<1>1. ASSUME NEW t \in C PROVE waiting_mutex[t] # None /\ owner[waiting_mutex[t]] \in C
  <2>1. t \in Threads /\ waiting_mutex'[t] = waiting_mutex[t] /\ waiting_mutex[t] # None
    OBVIOUS
  <2>2. PICK m : m = waiting_mutex[t]
    OBVIOUS
  <2>3. m \in Mutexes
    BY <2>1, <2>2 DEF TypeOK
  <2>4. owner'[m] \in C /\ owner'[m] \in Threads
    BY <2>1, <2>2
  <2>5. waiting_mutex'[owner'[m]] # None
    BY <2>4
  <2> QED BY <2>1, <2>2, <2>3, <2>4, <2>5
<1> QED BY <1>1 DEF Acyclic

\* The chain of owners that starts at thread a.
OwnerChain(a, n) ==
    CHOOSE f : f = [k \in 0 .. n |->
                       IF k = 0 THEN a
                       ELSE IF f[k - 1] = None \/ waiting_mutex[f[k - 1]] = None THEN None
                       ELSE owner[waiting_mutex[f[k - 1]]]]

LEMMA Pursuit ==
    ASSUME TypeOK, NEW a \in Threads \cup {None}, NEW n \in Nat, NEW h, h = OwnerChain(a, n)
    PROVE  /\ h[0] = a /\ \A k \in 0 .. n : h[k] \in Threads \cup {None}
           /\ \A k \in 1 .. n :
                 h[k] = IF h[k - 1] = None \/ waiting_mutex[h[k - 1]] = None THEN None
                        ELSE owner[waiting_mutex[h[k - 1]]]
<1>1. PICK S : S = Threads \cup {None}
  OBVIOUS
<1>2. PICK F : F = [x \in S |-> IF x = None \/ waiting_mutex[x] = None THEN None
                                ELSE owner[waiting_mutex[x]]]
  OBVIOUS
<1>3. /\ \A x \in S : F[x] = IF x = None \/ waiting_mutex[x] = None THEN None
                             ELSE owner[waiting_mutex[x]]
      /\ F \in [S -> S] /\ a \in S
  BY <1>1, <1>2 DEF TypeOK
<1>4. PICK f : /\ f \in [0 .. n -> S] /\ f[0] = a
               /\ \A k \in 1 .. n : f[k] = F[f[k - 1]]
  <2>1. \E f : Iterates(f, S, a, F, n)
    BY <1>3, Iteration
  <2> QED BY <2>1 DEF Iterates
<1>5. f = [k \in 0 .. n |->
              IF k = 0 THEN a
              ELSE IF f[k - 1] = None \/ waiting_mutex[f[k - 1]] = None THEN None
              ELSE owner[waiting_mutex[f[k - 1]]]]
  <2>1. ASSUME NEW k \in 1 .. n
        PROVE  f[k] = IF f[k - 1] = None \/ waiting_mutex[f[k - 1]] = None THEN None
                      ELSE owner[waiting_mutex[f[k - 1]]]
    <3>1. k - 1 \in 0 .. n
      OBVIOUS
    <3>2. f[k - 1] \in S
      BY <1>4, <3>1
    <3> QED BY <1>3, <1>4, <3>2
  <2>2. ASSUME NEW k \in 0 .. n
        PROVE  f[k] = IF k = 0 THEN a
                      ELSE IF f[k - 1] = None \/ waiting_mutex[f[k - 1]] = None THEN None
                      ELSE owner[waiting_mutex[f[k - 1]]]
    BY <1>4, <2>1
  <2> QED BY <1>4, <2>2
<1>6. h = [k \in 0 .. n |->
              IF k = 0 THEN a
              ELSE IF h[k - 1] = None \/ waiting_mutex[h[k - 1]] = None THEN None
              ELSE owner[waiting_mutex[h[k - 1]]]]
  BY <1>5 DEF OwnerChain
<1>7. /\ h[0] = a
      /\ \A k \in 1 .. n :
            h[k] = IF h[k - 1] = None \/ waiting_mutex[h[k - 1]] = None THEN None
                   ELSE owner[waiting_mutex[h[k - 1]]]
  <2>1. PICK g : g = [k \in 0 .. n |->
                         IF k = 0 THEN a
                         ELSE IF h[k - 1] = None \/ waiting_mutex[h[k - 1]] = None THEN None
                         ELSE owner[waiting_mutex[h[k - 1]]]]
    OBVIOUS
  <2>2. g[0] = a
    BY <2>1
  <2>3. ASSUME NEW k \in 1 .. n
        PROVE  g[k] = IF h[k - 1] = None \/ waiting_mutex[h[k - 1]] = None THEN None
                      ELSE owner[waiting_mutex[h[k - 1]]]
    BY <2>1
  <2>4. h = g
    BY <1>6, <2>1
  <2> QED BY <2>2, <2>3, <2>4
<1>8. PICK P : P = {k \in 0 .. n : h[k] \in S}
  OBVIOUS
<1>9. 0 \in P
  BY <1>3, <1>7, <1>8
<1>10. ASSUME NEW k \in 1 .. n, k - 1 \in P PROVE k \in P
  <2>1. PICK x : x = h[k - 1]
    OBVIOUS
  <2>2. x \in S /\ h[k] = F[x]
    BY <1>3, <1>7, <1>8, <1>10, <2>1
  <2> QED BY <1>3, <1>8, <2>2
<1>11. \A k \in 0 .. n : k \in P
  BY <1>9, <1>10, InductionTo
<1> QED BY <1>1, <1>7, <1>8, <1>11

\* The owners that os_mutex_would_deadlock_locked visits when it returns false.
LEMMA Holders ==
    ASSUME TypeOK, NEW t \in Threads, NEW m \in Mutexes, ~os_mutex_would_deadlock_locked(t, m)
    PROVE  \E h : /\ h[0] = owner[m] /\ h[MaxChain] = None
                  /\ \A k \in 0 .. MaxChain - 1 : h[k] # t
                  /\ \A k \in 1 .. MaxChain :
                        h[k] = IF h[k - 1] = None \/ waiting_mutex[h[k - 1]] = None THEN None
                               ELSE owner[waiting_mutex[h[k - 1]]]
<1>1. MaxChain \in Nat /\ owner[m] \in Threads \cup {None}
  BY MutexAssumption DEF TypeOK
<1>2. PICK h : h = CHOOSE f : f = [k \in 0 .. MaxChain |->
                    IF k = 0 THEN owner[m]
                    ELSE IF f[k - 1] = None \/ waiting_mutex[f[k - 1]] = None THEN None
                    ELSE owner[waiting_mutex[f[k - 1]]]]
  OBVIOUS
<1>3. (\A k \in 0 .. MaxChain - 1 : h[k] # t) /\ h[MaxChain] = None
  BY <1>2 DEF os_mutex_would_deadlock_locked
<1>4. /\ h[0] = owner[m]
      /\ \A k \in 1 .. MaxChain :
            h[k] = IF h[k - 1] = None \/ waiting_mutex[h[k - 1]] = None THEN None
                   ELSE owner[waiting_mutex[h[k - 1]]]
  <2>1. PICK a : a = owner[m]
    OBVIOUS
  <2>2. a \in Threads \cup {None} /\ h = OwnerChain(a, MaxChain)
    BY <1>1, <1>2, <2>1 DEF OwnerChain
  <2>3. /\ h[0] = a
        /\ \A k \in 1 .. MaxChain :
              h[k] = IF h[k - 1] = None \/ waiting_mutex[h[k - 1]] = None THEN None
                     ELSE owner[waiting_mutex[h[k - 1]]]
    BY <1>1, <2>2, Pursuit
  <2> QED BY <2>1, <2>3
<1> QED BY <1>3, <1>4

\* A thread that passes the test may wait.
LEMMA NewEdge ==
    ASSUME Acyclic(owner, waiting_mutex), TypeOK, NEW t \in Threads, NEW m \in Mutexes,
           ~os_mutex_would_deadlock_locked(t, m), UNCHANGED owner,
           waiting_mutex' = [waiting_mutex EXCEPT ![t] = m]
    PROVE  Acyclic(owner', waiting_mutex')
<1> SUFFICES ASSUME NEW C \in SUBSET Threads, C # {},
                    \A u \in C : waiting_mutex'[u] # None /\ owner'[waiting_mutex'[u]] \in C
             PROVE  FALSE
  BY DEF Acyclic
<1>1. waiting_mutex'[t] = m /\ \A u \in Threads : u # t => waiting_mutex'[u] = waiting_mutex[u]
  BY DEF TypeOK
<1>2. t \in C
  <2> SUFFICES ASSUME t \notin C PROVE FALSE
    OBVIOUS
  <2>1. \A u \in C : waiting_mutex[u] # None /\ owner[waiting_mutex[u]] \in C
    BY <1>1
  <2> QED BY <2>1 DEF Acyclic
<1>3. PICK h : /\ h[0] = owner[m] /\ h[MaxChain] = None
               /\ \A k \in 0 .. MaxChain - 1 : h[k] # t
               /\ \A k \in 1 .. MaxChain :
                     h[k] = IF h[k - 1] = None \/ waiting_mutex[h[k - 1]] = None THEN None
                            ELSE owner[waiting_mutex[h[k - 1]]]
  BY Holders
<1>4. MaxChain \in Nat
  BY MutexAssumption
<1>5. PICK P : P = {k \in 0 .. MaxChain : h[k] \in C}
  OBVIOUS
<1>6. 0 \in P
  BY <1>1, <1>2, <1>3, <1>4, <1>5
<1>7. ASSUME NEW k \in 1 .. MaxChain, k - 1 \in P PROVE k \in P
  <2>1. PICK x : x = h[k - 1]
    OBVIOUS
  <2>2. x \in C /\ k - 1 \in 0 .. MaxChain - 1 /\ k \in 0 .. MaxChain
    BY <1>4, <1>5, <1>7, <2>1
  <2>3. x # t /\ x \in Threads /\ x # None
    BY <1>3, <2>1, <2>2, MutexAssumption
  <2>4. waiting_mutex[x] # None /\ owner[waiting_mutex[x]] \in C
    BY <1>1, <2>2, <2>3
  <2>5. h[k] = owner[waiting_mutex[x]]
    BY <1>3, <2>1, <2>3, <2>4
  <2> QED BY <1>5, <2>2, <2>4, <2>5
<1>8. MaxChain \in P
  BY <1>4, <1>6, <1>7, InductionTo
<1> QED BY <1>3, <1>5, <1>8, MutexAssumption
-----------------------------------------------------------------------------
(* The actions                                                             *)

\* What every action keeps, beside FreeMutexIsClaimed.
Kept == /\ TypeOK'
        /\ \A t \in Threads : Consistent(t)'
        /\ QueuesAre(wait_q', waiting_mutex', priority')
        /\ Acyclic(owner', waiting_mutex')
        /\ ChainIsLongEnough /\ AllJustified => AllJustified'

\* A thread that takes a free mutex.
LEMMA AcquireStep ==
    ASSUME IInv, NEW t \in Threads, NEW m \in Mutexes, pc[t] \in {"idle", "retry"},
           Acquire(t, m), UNCHANGED avars
    PROVE  Kept
<1>1. /\ TypeOK /\ \A x \in Threads : Consistent(x)
      /\ QueuesAre(wait_q, waiting_mutex, priority) /\ Acyclic(owner, waiting_mutex)
  BY DEF IInv
<1>2. waiting_mutex[t] = None
  BY <1>1 DEF Consistent
<1>3. TypeOK'
  BY <1>1, MutexAssumption DEF Acquire, TypeOK, avars
<1>4. ASSUME NEW x \in Threads PROVE Consistent(x)'
  BY <1>1, <1>2 DEF Acquire, TypeOK, Consistent, avars
<1>5. QueuesAre(wait_q', waiting_mutex', priority')
  BY <1>1 DEF Acquire
<1>6. Acyclic(owner', waiting_mutex')
  <2>1. \A x \in Threads : waiting_mutex'[x] # None => waiting_mutex'[x] = waiting_mutex[x]
    BY DEF Acquire
  <2>2. \A n \in Mutexes : owner'[n] \in Threads =>
            owner'[n] = owner[n] \/ waiting_mutex'[owner'[n]] = None
    BY <1>1, <1>2 DEF Acquire, TypeOK
  <2> QED BY <1>1, <2>1, <2>2, FewerEdges
<1>7. ASSUME AllJustified PROVE AllJustified'
  <2>1. ASSUME NEW x \in Threads, Justified(x, owner, waiting_mutex, priority, base_priority)
        PROVE  Justified(x, owner', waiting_mutex, priority, base_priority)
    <3>1. \A n \in Mutexes : owner[n] = x => owner'[n] = x
      BY <1>1, MutexAssumption DEF Acquire, TypeOK
    <3>2. \A u \in Threads : waiting_mutex[u] \in Mutexes \cup {None}
      BY <1>1 DEF TypeOK
    <3> QED BY <2>1, <3>1, <3>2 DEF Justified
  <2>2. UNCHANGED <<waiting_mutex, priority, base_priority>>
    BY DEF Acquire
  <2> QED BY <1>7, <2>1, <2>2 DEF AllJustified
<1> QED BY <1>3, <1>4, <1>5, <1>6, <1>7 DEF Kept

\* A thread that waits for a mutex of another one.
LEMMA BlockStep ==
    ASSUME IInv, NEW t \in Threads, NEW m \in Mutexes, pc[t] \in {"idle", "retry"},
           Block(t, m), UNCHANGED avars
    PROVE  Kept
<1>1. /\ TypeOK /\ \A x \in Threads : Consistent(x)
      /\ QueuesAre(wait_q, waiting_mutex, priority) /\ Acyclic(owner, waiting_mutex)
  BY DEF IInv
<1>2. /\ waiting_mutex[t] = None /\ owner[m] \in Threads /\ owner[m] # t
      /\ waiting_mutex' = [waiting_mutex EXCEPT ![t] = m]
      /\ waiting_mutex' \in [Threads -> Mutexes \cup {None}]
      /\ owner' = owner /\ base_priority' = base_priority
      /\ priority \in [Threads -> Priorities]
  <2>1. waiting_mutex[t] = None
    BY <1>1 DEF Consistent
  <2>2. /\ waiting_mutex' = [waiting_mutex EXCEPT ![t] = m] /\ owner[m] \notin {None, t}
        /\ owner' = owner /\ base_priority' = base_priority
    BY DEF Block, mvars
  <2> QED BY <1>1, <2>1, <2>2 DEF TypeOK
<1>3. PICK q : q = os_waitq_insert_priority_locked(wait_q[m], t, priority)
  OBVIOUS
<1>4. /\ q \in Seq(Threads) /\ Distinct(q) /\ Range(q) = Range(wait_q[m]) \cup {t}
      /\ Sorted(q, priority)
  <2>1. /\ wait_q[m] \in Seq(Threads) /\ Distinct(wait_q[m]) /\ Sorted(wait_q[m], priority)
        /\ Range(wait_q[m]) = {u \in Threads : waiting_mutex[u] = m}
    BY <1>1 DEF QueuesAre, Queued
  <2>2. priority \in [Threads -> Nat]
    BY <1>2, MutexAssumption
  <2>3. t \notin Range(wait_q[m])
    BY <1>2, <2>1, MutexAssumption
  <2> QED BY <1>3, <2>1, <2>2, <2>3, Inserted
<1>5. PICK wq : wq = [wait_q EXCEPT ![m] = q]
  OBVIOUS
<1>6. wq \in [Mutexes -> Seq(Threads)] /\ wq[m] = q /\ \A n \in Mutexes : n # m => wq[n] = wait_q[n]
  BY <1>1, <1>4, <1>5 DEF TypeOK
<1>7. QueuesAre(wq, waiting_mutex', priority)
  <2>1. Queued(wq[m], m, waiting_mutex') /\ Sorted(wq[m], priority)
    BY <1>1, <1>2, <1>4, <1>6 DEF QueuesAre, Queued, TypeOK
  <2>2. ASSUME NEW n \in Mutexes, n # m
        PROVE  Queued(wq[n], n, waiting_mutex') /\ Sorted(wq[n], priority)
    <3>1. {u \in Threads : waiting_mutex'[u] = n} = {u \in Threads : waiting_mutex[u] = n}
      BY <1>1, <1>2, <2>2, MutexAssumption DEF TypeOK
    <3> QED BY <1>1, <1>6, <2>2, <3>1 DEF QueuesAre, Queued
  <2> QED BY <2>1, <2>2 DEF QueuesAre
<1>8. SetPriorities(os_mutex_update_pi_chain_locked(owner[m], owner', wq, base_priority',
                                                    waiting_mutex'))
  BY <1>2, <1>3, <1>5 DEF Block
<1>9. owner' \in [Mutexes -> Threads \cup {None}] /\ base_priority' \in [Threads -> Priorities]
  BY <1>1, <1>2 DEF TypeOK
<1>10. /\ wait_q' \in [Mutexes -> Seq(Threads)] /\ priority' \in [Threads -> Priorities]
       /\ QueuesAre(wait_q', waiting_mutex', priority')
       /\ /\ Acyclic(owner', waiting_mutex') /\ ChainIsLongEnough
          /\ \A x \in Threads : x # owner[m] =>
                Justified(x, owner', waiting_mutex', priority, base_priority')
          => AllJustified'
  BY <1>1, <1>2, <1>6, <1>7, <1>8, <1>9, Settled
<1>11. Acyclic(owner', waiting_mutex')
  BY <1>1, <1>2, NewEdge DEF Block
<1>12. TypeOK'
  BY <1>1, <1>2, <1>9, <1>10 DEF Block, TypeOK, mvars, avars
<1>13. ASSUME NEW x \in Threads PROVE Consistent(x)'
  BY <1>1, <1>2, MutexAssumption DEF Block, TypeOK, Consistent, avars
<1>14. ASSUME AllJustified, NEW x \in Threads
       PROVE  Justified(x, owner', waiting_mutex', priority, base_priority')
  <2>1. Justified(x, owner, waiting_mutex, priority, base_priority)
    BY <1>14 DEF AllJustified
  <2>2. \A u \in Threads : waiting_mutex[u] # None => waiting_mutex'[u] = waiting_mutex[u]
    BY <1>1, <1>2 DEF TypeOK
  <2> QED BY <1>2, <2>1, <2>2 DEF Justified
<1> QED BY <1>10, <1>11, <1>12, <1>13, <1>14 DEF Kept

\* Steps that leave the queues and the priorities alone.
LEMMA QuietStep ==
    ASSUME IInv, UNCHANGED <<owner, wait_q, base_priority, waiting_mutex, priority>>,
           TypeOK', \A x \in Threads : Consistent(x)'
    PROVE  Kept
BY DEF IInv, Kept, AllJustified

\* Steps of a lock call, and calls that only mark a mutex.
LEMMA QuietSteps ==
    ASSUME IInv, NEW t \in Threads, UNCHANGED avars,
           \/ os_mutex_lock_notified(t) \/ os_mutex_lock_timeout(t) \/ os_mutex_lock_again(t)
           \/ \E m \in Mutexes : os_mutex_init(t, m) \/ os_mutex_deinit(t, m)
    PROVE  Kept
<1>1. TypeOK /\ \A x \in Threads : Consistent(x)
  BY DEF IInv
<1>2. UNCHANGED <<owner, wait_q, base_priority, waiting_mutex, priority>>
  BY DEF os_mutex_lock_notified, os_mutex_lock_timeout, os_mutex_lock_again, os_mutex_init,
         os_mutex_deinit, mvars
<1>3. CASE os_mutex_lock_notified(t)
  <2>1. TypeOK'
    BY <1>1, <1>3 DEF os_mutex_lock_notified, TypeOK, mvars, avars
  <2>2. ASSUME NEW x \in Threads PROVE Consistent(x)'
    BY <1>1, <1>3 DEF os_mutex_lock_notified, TypeOK, Consistent, avars
  <2> QED BY <1>2, <2>1, <2>2, QuietStep
<1>4. CASE os_mutex_lock_timeout(t)
  <2>1. TypeOK'
    BY <1>1, <1>4 DEF os_mutex_lock_timeout, TypeOK, mvars, avars
  <2>2. ASSUME NEW x \in Threads PROVE Consistent(x)'
    BY <1>1, <1>4 DEF os_mutex_lock_timeout, TypeOK, Consistent, avars
  <2> QED BY <1>2, <2>1, <2>2, QuietStep
<1>5. CASE os_mutex_lock_again(t)
  <2>1. TypeOK'
    BY <1>1, <1>5 DEF os_mutex_lock_again, TypeOK, mvars, avars
  <2>2. ASSUME NEW x \in Threads PROVE Consistent(x)'
    BY <1>1, <1>5 DEF os_mutex_lock_again, TypeOK, Consistent, avars
  <2> QED BY <1>2, <2>1, <2>2, QuietStep
<1>6. CASE \E m \in Mutexes : os_mutex_init(t, m) \/ os_mutex_deinit(t, m)
  <2>1. TypeOK'
    <3>1. PICK m \in Mutexes : os_mutex_init(t, m) \/ os_mutex_deinit(t, m)
      BY <1>6
    <3>2. \/ initialized' = [initialized EXCEPT ![m] = TRUE]
          \/ initialized' = [initialized EXCEPT ![m] = FALSE]
      BY <3>1 DEF os_mutex_init, os_mutex_deinit
    <3>3. lock_count' = lock_count \/ lock_count' = [lock_count EXCEPT ![m] = 0]
      BY <3>1 DEF os_mutex_init, os_mutex_deinit
    <3>4. initialized' \in [Mutexes -> BOOLEAN] /\ lock_count' \in [Mutexes -> 0 .. MaxCount]
      <4>1. 0 \in 0 .. MaxCount
        BY MutexAssumption
      <4>2. lock_count' \in [Mutexes -> 0 .. MaxCount]
        BY <1>1, <3>3, <4>1 DEF TypeOK
      <4>3. initialized \in [Mutexes -> BOOLEAN]
        BY <1>1 DEF TypeOK
      <4>4. initialized' \in [Mutexes -> BOOLEAN]
        BY <3>2, <4>3
      <4> QED BY <4>2, <4>4
    <3>5. UNCHANGED <<notified, pc, want>>
      BY <3>1 DEF os_mutex_init, os_mutex_deinit
    <3> QED BY <1>1, <1>2, <3>4, <3>5 DEF TypeOK, avars
  <2>2. ASSUME NEW x \in Threads PROVE Consistent(x)'
    BY <1>1, <1>6 DEF os_mutex_init, os_mutex_deinit, Consistent, avars
  <2> QED BY <1>2, <2>1, <2>2, QuietStep
<1> QED BY <1>3, <1>4, <1>5, <1>6

\* os_mutex_lock, when it is called.
LEMMA LockStep ==
    ASSUME IInv, NEW t \in Threads, NEW m \in Mutexes, os_mutex_lock(t, m), UNCHANGED avars
    PROVE  Kept
<1>1. pc[t] \in {"idle", "retry"}
  BY DEF os_mutex_lock
<1>2. CASE Acquire(t, m)
  BY <1>1, <1>2, AcquireStep
<1>3. CASE Block(t, m)
  BY <1>1, <1>3, BlockStep
<1>4. CASE /\ owner[m] = t /\ lock_count[m] < MaxCount
           /\ lock_count' = [lock_count EXCEPT ![m] = @ + 1]
           /\ UNCHANGED <<owner, initialized, wait_q, base_priority, waiting_mutex,
                          priority, notified, pc, want>>
  <2>1. TypeOK /\ \A x \in Threads : Consistent(x)
    BY DEF IInv
  <2>2. TypeOK'
    BY <1>4, <2>1, MutexAssumption DEF TypeOK, avars
  <2>3. ASSUME NEW x \in Threads PROVE Consistent(x)'
    BY <1>4, <2>1 DEF Consistent, avars
  <2> QED BY <1>4, <2>2, <2>3, QuietStep
<1> QED BY <1>2, <1>3, <1>4 DEF os_mutex_lock

\* os_mutex_lock, when it comes round its loop.
LEMMA RetryStep ==
    ASSUME IInv, NEW t \in Threads, os_mutex_lock_retry(t), UNCHANGED avars
    PROVE  Kept
<1>1. PICK m : m = want[t]
  OBVIOUS
<1>2. pc[t] \in {"idle", "retry"} /\ pc[t] = "retry"
  BY DEF os_mutex_lock_retry
<1>3. TypeOK /\ \A x \in Threads : Consistent(x)
  BY DEF IInv
<1>4. m \in Mutexes
  BY <1>1, <1>2, <1>3 DEF Consistent
<1>5. CASE Acquire(t, m)
  BY <1>2, <1>4, <1>5, AcquireStep
<1>6. CASE Block(t, m)
  BY <1>2, <1>4, <1>6, BlockStep
<1>7. CASE /\ pc' = [pc EXCEPT ![t] = "idle"] /\ want' = [want EXCEPT ![t] = None]
           /\ UNCHANGED <<mvars, wait_q, base_priority, waiting_mutex, priority, notified>>
  <2>1. TypeOK'
    BY <1>3, <1>7 DEF TypeOK, mvars, avars
  <2>2. ASSUME NEW x \in Threads PROVE Consistent(x)'
    BY <1>2, <1>3, <1>7 DEF Consistent, TypeOK, avars
  <2>3. UNCHANGED <<owner, wait_q, base_priority, waiting_mutex, priority>>
    BY <1>7 DEF mvars
  <2> QED BY <2>1, <2>2, <2>3, QuietStep
<1> QED BY <1>1, <1>5, <1>6, <1>7 DEF os_mutex_lock_retry

\* A thread leaves the queue that it waits in.
LEMMA Dequeued ==
    ASSUME IInv, NEW u \in Threads, NEW m \in Mutexes, waiting_mutex[u] = m,
           waiting_mutex' = [waiting_mutex EXCEPT ![u] = None],
           UNCHANGED <<owner, base_priority>>,
           SetPriorities(os_mutex_update_pi_chain_locked(owner[m], owner,
               [wait_q EXCEPT ![m] = RemoveNode(@, u)], base_priority, waiting_mutex'))
    PROVE  /\ wait_q' \in [Mutexes -> Seq(Threads)] /\ priority' \in [Threads -> Priorities]
           /\ QueuesAre(wait_q', waiting_mutex', priority')
           /\ Acyclic(owner', waiting_mutex')
           /\ ChainIsLongEnough /\ AllJustified => AllJustified'
<1>1. /\ TypeOK /\ QueuesAre(wait_q, waiting_mutex, priority) /\ Acyclic(owner, waiting_mutex)
  BY DEF IInv
<1>2. /\ waiting_mutex' \in [Threads -> Mutexes \cup {None}] /\ waiting_mutex'[u] = None
      /\ \A x \in Threads : x # u => waiting_mutex'[x] = waiting_mutex[x]
      /\ owner' \in [Mutexes -> Threads \cup {None}] /\ base_priority' \in [Threads -> Priorities]
      /\ owner[m] \in Threads \cup {None}
  BY <1>1 DEF TypeOK
<1>3. PICK q : q = RemoveNode(wait_q[m], u)
  OBVIOUS
<1>4. /\ wait_q[m] \in Seq(Threads) /\ Distinct(wait_q[m]) /\ Sorted(wait_q[m], priority)
      /\ Range(wait_q[m]) = {x \in Threads : waiting_mutex[x] = m}
  BY <1>1 DEF QueuesAre, Queued
<1>5. u \in Range(wait_q[m])
  BY <1>4
<1>6. /\ q \in Seq(Threads) /\ Distinct(q) /\ Range(q) = Range(wait_q[m]) \ {u}
      /\ Sorted(q, priority)
  BY <1>3, <1>4, <1>5, Removed
<1>7. PICK wq : wq = [wait_q EXCEPT ![m] = q]
  OBVIOUS
<1>8. wq \in [Mutexes -> Seq(Threads)] /\ wq[m] = q /\ \A n \in Mutexes : n # m => wq[n] = wait_q[n]
  BY <1>1, <1>6, <1>7 DEF TypeOK
<1>9. QueuesAre(wq, waiting_mutex', priority)
  <2>1. Queued(wq[m], m, waiting_mutex') /\ Sorted(wq[m], priority)
    BY <1>2, <1>4, <1>6, <1>8, MutexAssumption DEF Queued
  <2>2. ASSUME NEW n \in Mutexes, n # m
        PROVE  Queued(wq[n], n, waiting_mutex') /\ Sorted(wq[n], priority)
    <3>1. {x \in Threads : waiting_mutex'[x] = n} = {x \in Threads : waiting_mutex[x] = n}
      BY <1>2, <2>2, MutexAssumption
    <3> QED BY <1>1, <1>8, <2>2, <3>1 DEF QueuesAre, Queued
  <2> QED BY <2>1, <2>2 DEF QueuesAre
<1>10. SetPriorities(os_mutex_update_pi_chain_locked(owner[m], owner', wq, base_priority',
                                                     waiting_mutex'))
  BY <1>3, <1>7
<1>11. Acyclic(owner', waiting_mutex')
  <2>1. \A x \in Threads : waiting_mutex'[x] # None => waiting_mutex'[x] = waiting_mutex[x]
    BY <1>2
  <2>2. \A n \in Mutexes : owner'[n] \in Threads =>
            owner'[n] = owner[n] \/ waiting_mutex'[owner'[n]] = None
    OBVIOUS
  <2> QED BY <1>1, <2>1, <2>2, FewerEdges
<1>12. /\ wait_q' \in [Mutexes -> Seq(Threads)] /\ priority' \in [Threads -> Priorities]
       /\ QueuesAre(wait_q', waiting_mutex', priority')
       /\ /\ Acyclic(owner', waiting_mutex') /\ ChainIsLongEnough
          /\ \A x \in Threads : x # owner[m] =>
                Justified(x, owner', waiting_mutex', priority, base_priority')
          => AllJustified'
  BY <1>1, <1>2, <1>8, <1>9, <1>10, Settled
<1>13. ASSUME AllJustified, NEW x \in Threads, x # owner[m]
       PROVE  Justified(x, owner', waiting_mutex', priority, base_priority')
  <2>1. Justified(x, owner, waiting_mutex, priority, base_priority)
    BY <1>13 DEF AllJustified
  <2>2. \A y \in Threads : owner[waiting_mutex[y]] = x => waiting_mutex'[y] = waiting_mutex[y]
    BY <1>2, <1>13
  <2> QED BY <2>1, <2>2 DEF Justified
<1> QED BY <1>11, <1>12, <1>13

\* A lock call gives up.
LEMMA FailStep ==
    ASSUME IInv, NEW t \in Threads, os_mutex_lock_fail(t), UNCHANGED avars
    PROVE  Kept
<1>1. TypeOK /\ \A x \in Threads : Consistent(x)
  BY DEF IInv
<1>2. PICK m : m = waiting_mutex[t]
  OBVIOUS
<1>3. m \in Mutexes
  BY <1>1, <1>2 DEF os_mutex_lock_fail, TypeOK
<1>4. /\ waiting_mutex' = [waiting_mutex EXCEPT ![t] = None]
      /\ UNCHANGED <<owner, base_priority>>
      /\ SetPriorities(os_mutex_update_pi_chain_locked(owner[m], owner,
             [wait_q EXCEPT ![m] = RemoveNode(@, t)], base_priority, waiting_mutex'))
  BY <1>2 DEF os_mutex_lock_fail, mvars
<1>5. /\ wait_q' \in [Mutexes -> Seq(Threads)] /\ priority' \in [Threads -> Priorities]
      /\ QueuesAre(wait_q', waiting_mutex', priority')
      /\ Acyclic(owner', waiting_mutex')
      /\ ChainIsLongEnough /\ AllJustified => AllJustified'
  BY <1>2, <1>3, <1>4, Dequeued
<1>6. TypeOK'
  BY <1>1, <1>5 DEF os_mutex_lock_fail, TypeOK, mvars, avars
<1>7. ASSUME NEW x \in Threads PROVE Consistent(x)'
  BY <1>1 DEF os_mutex_lock_fail, TypeOK, Consistent, avars
<1> QED BY <1>5, <1>6, <1>7 DEF Kept

\* The critical section of os_thread_abort.
LEMMA AbortStep ==
    ASSUME IInv, NEW t \in Threads, NEW u \in Threads, os_thread_abort(t, u)
    PROVE  Kept
<1>1. /\ TypeOK /\ \A x \in Threads : Consistent(x)
      /\ QueuesAre(wait_q, waiting_mutex, priority) /\ Acyclic(owner, waiting_mutex)
  BY DEF IInv
<1>2. PICK m : m = waiting_mutex[u]
  OBVIOUS
<1>3. /\ wait_q' \in [Mutexes -> Seq(Threads)] /\ priority' \in [Threads -> Priorities]
      /\ QueuesAre(wait_q', waiting_mutex', priority')
      /\ Acyclic(owner', waiting_mutex')
      /\ ChainIsLongEnough /\ AllJustified => AllJustified'
  <2>1. CASE m = None
    <3>1. UNCHANGED <<owner, wait_q, base_priority, waiting_mutex, priority>>
      BY <1>1, <1>2, <2>1 DEF os_thread_abort, TypeOK, mvars
    <3> QED BY <1>1, <3>1 DEF TypeOK, AllJustified
  <2>2. CASE m # None
    <3>1. m \in Mutexes
      BY <1>1, <1>2, <2>2 DEF TypeOK
    <3>2. /\ waiting_mutex' = [waiting_mutex EXCEPT ![u] = None]
          /\ UNCHANGED <<owner, base_priority>>
          /\ SetPriorities(os_mutex_update_pi_chain_locked(owner[m], owner,
                 [wait_q EXCEPT ![m] = RemoveNode(@, u)], base_priority, waiting_mutex'))
      BY <1>2, <2>2 DEF os_thread_abort, mvars
    <3> QED BY <1>2, <3>1, <3>2, Dequeued
  <2> QED BY <2>1, <2>2
<1>4. TypeOK'
  BY <1>1, <1>3 DEF os_thread_abort, TypeOK, mvars
<1>5. ASSUME NEW x \in Threads PROVE Consistent(x)'
  <2>1. pc[t] = "idle" /\ waiting_mutex[t] = None
    BY <1>1 DEF os_thread_abort, Consistent
  <2> QED BY <1>1, <2>1, MutexAssumption DEF os_thread_abort, TypeOK, Consistent
<1> QED BY <1>3, <1>4, <1>5 DEF Kept

\* vTaskDelete.
LEMMA DeleteStep ==
    ASSUME IInv, NEW t \in Threads, os_thread_abort_delete(t)
    PROVE  Kept
<1>1. TypeOK /\ \A x \in Threads : Consistent(x)
  BY DEF IInv
<1>2. PICK u : u = victim[t]
  OBVIOUS
<1>3. u \in Threads /\ u # t /\ completed[u]
  BY <1>1, <1>2, MutexAssumption DEF os_thread_abort_delete, Consistent
<1>4. TypeOK'
  BY <1>1, <1>2, <1>3 DEF os_thread_abort_delete, TypeOK, mvars
<1>5. ASSUME NEW x \in Threads PROVE Consistent(x)'
  BY <1>1, <1>2, <1>3 DEF os_thread_abort_delete, TypeOK, Consistent
<1>6. UNCHANGED <<owner, wait_q, base_priority, waiting_mutex, priority>>
  BY DEF os_thread_abort_delete, mvars
<1> QED BY <1>4, <1>5, <1>6, QuietStep

\* A thread's own priority changes.
LEMMA PriorityStep ==
    ASSUME IInv, NEW t \in Threads, NEW u \in Threads, NEW p \in Priorities,
           os_thread_set_priority(t, u, p), UNCHANGED avars
    PROVE  Kept
<1>1. /\ TypeOK /\ \A x \in Threads : Consistent(x)
      /\ QueuesAre(wait_q, waiting_mutex, priority) /\ Acyclic(owner, waiting_mutex)
  BY DEF IInv
<1>2. UNCHANGED <<mvars, waiting_mutex, notified, pc, want>>
  BY DEF os_thread_set_priority
<1>3. /\ owner' \in [Mutexes -> Threads \cup {None}] /\ base_priority' \in [Threads -> Priorities]
      /\ waiting_mutex' \in [Threads -> Mutexes \cup {None}]
      /\ wait_q \in [Mutexes -> Seq(Threads)] /\ QueuesAre(wait_q, waiting_mutex', priority)
      /\ Acyclic(owner', waiting_mutex')
  BY <1>1, <1>2 DEF TypeOK, os_thread_set_priority, mvars
<1>4. SetPriorities(os_mutex_update_pi_chain_locked(u, owner', wait_q, base_priority',
                                                    waiting_mutex'))
  BY <1>2 DEF os_thread_set_priority, mvars
<1>5. /\ wait_q' \in [Mutexes -> Seq(Threads)] /\ priority' \in [Threads -> Priorities]
      /\ QueuesAre(wait_q', waiting_mutex', priority')
      /\ /\ Acyclic(owner', waiting_mutex') /\ ChainIsLongEnough
         /\ \A x \in Threads : x # u =>
               Justified(x, owner', waiting_mutex', priority, base_priority')
         => AllJustified'
  BY <1>1, <1>3, <1>4, Settled
<1>6. ASSUME AllJustified, NEW x \in Threads, x # u
      PROVE  Justified(x, owner', waiting_mutex', priority, base_priority')
  <2>1. Justified(x, owner, waiting_mutex, priority, base_priority)
    BY <1>6 DEF AllJustified
  <2>2. base_priority'[x] = base_priority[x]
    BY <1>1, <1>6 DEF os_thread_set_priority, TypeOK
  <2> QED BY <1>2, <2>1, <2>2 DEF Justified, mvars
<1>7. TypeOK'
  BY <1>1, <1>2, <1>3, <1>5 DEF TypeOK, mvars, avars
<1>8. ASSUME NEW x \in Threads PROVE Consistent(x)'
  BY <1>1, <1>2 DEF Consistent, avars
<1> QED BY <1>3, <1>5, <1>6, <1>7, <1>8 DEF Kept

\* The first waiter leaves the queue.
LEMMA Popped ==
    ASSUME NEW q \in Seq(Threads), Distinct(q), q # <<>>
    PROVE  /\ Head(q) \in Range(q) /\ Tail(q) \in Seq(Threads) /\ Distinct(Tail(q))
           /\ Range(Tail(q)) = Range(q) \ {Head(q)}
           /\ \A pri : Sorted(q, pri) => Sorted(Tail(q), pri)
<1>1. PICK n, r, h : n = Len(q) /\ r = Tail(q) /\ h = Head(q)
  OBVIOUS
<1>2. n \in Nat /\ n > 0 /\ DOMAIN q = 1 .. n /\ h = q[1]
  BY <1>1
<1>3. r \in Seq(Threads) /\ Len(r) = n - 1 /\ \A i \in 1 .. n - 1 : r[i] = q[i + 1]
  BY <1>1, HeadTailProperties
<1>4. DOMAIN r = 1 .. n - 1
  BY <1>2, <1>3
<1>5. h \in Range(q)
  BY <1>2 DEF Range
<1>6. ASSUME NEW i \in 1 .. n - 1
      PROVE  i + 1 \in 1 .. n /\ i + 1 # 1 /\ r[i] = q[i + 1]
  BY <1>2, <1>3
<1>7. Distinct(r)
  BY <1>2, <1>4, <1>6 DEF Distinct
<1>8. Range(r) = Range(q) \ {h}
  <2>1. ASSUME NEW x \in Range(r) PROVE x \in Range(q) /\ x # h
    <3>1. PICK i \in 1 .. n - 1 : x = r[i]
      BY <1>4 DEF Range
    <3>2. PICK j : j = i + 1
      OBVIOUS
    <3>3. x = q[j] /\ j \in 1 .. n /\ j # 1 /\ 1 \in 1 .. n
      BY <1>2, <1>6, <3>1, <3>2
    <3> QED BY <1>2, <3>3 DEF Range, Distinct
  <2>2. ASSUME NEW x \in Range(q), x # h PROVE x \in Range(r)
    <3>1. PICK j \in 1 .. n : x = q[j]
      BY <1>2 DEF Range
    <3>2. PICK i : i = j - 1
      OBVIOUS
    <3>3. i \in 1 .. n - 1 /\ i + 1 = j
      BY <1>2, <2>2, <3>1, <3>2
    <3>4. r[i] = x
      BY <1>3, <3>1, <3>3
    <3> QED BY <1>4, <3>3, <3>4 DEF Range
  <2> QED BY <2>1, <2>2
<1>9. ASSUME NEW pri, Sorted(q, pri) PROVE Sorted(r, pri)
  <2> SUFFICES ASSUME NEW i \in 1 .. n - 1, NEW j \in 1 .. n - 1, i < j
               PROVE  pri[r[i]] >= pri[r[j]]
    BY <1>4 DEF Sorted
  <2>1. PICK x, y : x = i + 1 /\ y = j + 1
    OBVIOUS
  <2>2. x \in DOMAIN q /\ y \in DOMAIN q /\ x < y /\ r[i] = q[x] /\ r[j] = q[y]
    BY <1>2, <1>6, <2>1
  <2> QED BY <1>9, <2>2 DEF Sorted
<1> QED BY <1>1, <1>3, <1>5, <1>7, <1>8, <1>9

\* The queues without the first waiter for m, which no longer waits.
Behind(m) ==
    [wait_q EXCEPT ![m] = IF wait_q[m] = <<>> THEN wait_q[m] ELSE Tail(wait_q[m])]
HandsOver(m) ==
    waiting_mutex' = IF wait_q[m] = <<>> THEN waiting_mutex
                     ELSE [waiting_mutex EXCEPT ![Head(wait_q[m])] = None]

\* The last unlock of a mutex, without the priorities.
LEMMA HandedOver ==
    ASSUME IInv, NEW m \in Mutexes, HandsOver(m), NEW wq, wq = Behind(m)
    PROVE  /\ waiting_mutex' \in [Threads -> Mutexes \cup {None}]
           /\ \A x \in Threads : waiting_mutex'[x] # waiting_mutex[x] =>
                 waiting_mutex[x] = m /\ waiting_mutex'[x] = None
           /\ wq \in [Mutexes -> Seq(Threads)] /\ QueuesAre(wq, waiting_mutex', priority)
           /\ wait_q[m] # <<>> => Head(wait_q[m]) \in Threads /\ waiting_mutex[Head(wait_q[m])] = m
           /\ wait_q[m] = <<>> => \A x \in Threads : waiting_mutex[x] # m
<1>1. TypeOK /\ QueuesAre(wait_q, waiting_mutex, priority)
  BY DEF IInv
<1>2. PICK q : q = wait_q[m]
  OBVIOUS
<1>3. /\ q \in Seq(Threads) /\ Distinct(q) /\ Sorted(q, priority)
      /\ Range(q) = {x \in Threads : waiting_mutex[x] = m}
  BY <1>1, <1>2 DEF QueuesAre, Queued
<1>4. CASE q = <<>>
  <2>1. Range(q) = {}
    BY <1>4 DEF Range
  <2>2. wq = wait_q /\ waiting_mutex' = waiting_mutex
    BY <1>1, <1>2, <1>4 DEF TypeOK, Behind, HandsOver
  <2>3. \A x \in Threads : waiting_mutex[x] # m
    BY <1>3, <2>1
  <2> QED BY <1>1, <1>2, <1>4, <2>2, <2>3 DEF TypeOK
<1>5. CASE q # <<>>
  <2>1. PICK h, r : h = Head(q) /\ r = Tail(q)
    OBVIOUS
  <2>2. /\ h \in Range(q) /\ r \in Seq(Threads) /\ Distinct(r)
        /\ Range(r) = Range(q) \ {h} /\ Sorted(r, priority)
    BY <1>3, <1>5, <2>1, Popped
  <2>3. h \in Threads /\ waiting_mutex[h] = m
    BY <1>3, <2>2
  <2>4. waiting_mutex' = [waiting_mutex EXCEPT ![h] = None] /\ wq = [wait_q EXCEPT ![m] = r]
    BY <1>2, <1>5, <2>1 DEF Behind, HandsOver
  <2>5. /\ waiting_mutex' \in [Threads -> Mutexes \cup {None}] /\ waiting_mutex'[h] = None
        /\ \A x \in Threads : x # h => waiting_mutex'[x] = waiting_mutex[x]
    BY <1>1, <2>3, <2>4 DEF TypeOK
  <2>6. /\ wq \in [Mutexes -> Seq(Threads)] /\ wq[m] = r
        /\ \A n \in Mutexes : n # m => wq[n] = wait_q[n]
    BY <1>1, <2>2, <2>4 DEF TypeOK
  <2>7. QueuesAre(wq, waiting_mutex', priority)
    <3>1. Queued(wq[m], m, waiting_mutex') /\ Sorted(wq[m], priority)
      <4>1. Range(r) = {x \in Threads : waiting_mutex'[x] = m}
        BY <1>3, <2>2, <2>5, MutexAssumption
      <4> QED BY <2>2, <2>6, <4>1 DEF Queued
    <3>2. ASSUME NEW n \in Mutexes, n # m
          PROVE  Queued(wq[n], n, waiting_mutex') /\ Sorted(wq[n], priority)
      <4>1. {x \in Threads : waiting_mutex'[x] = n} = {x \in Threads : waiting_mutex[x] = n}
        BY <2>3, <2>5, <3>2, MutexAssumption
      <4> QED BY <1>1, <2>6, <3>2, <4>1 DEF QueuesAre, Queued
    <3> QED BY <3>1, <3>2 DEF QueuesAre
  <2> QED BY <1>2, <1>5, <2>1, <2>3, <2>5, <2>6, <2>7
<1> QED BY <1>4, <1>5

LEMMA UnlockStep ==
    ASSUME IInv, NEW t \in Threads, NEW m \in Mutexes, os_mutex_unlock(t, m), UNCHANGED avars
    PROVE  Kept
<1>1. /\ TypeOK /\ \A x \in Threads : Consistent(x)
      /\ QueuesAre(wait_q, waiting_mutex, priority) /\ Acyclic(owner, waiting_mutex)
  BY DEF IInv
<1>2. /\ lock_count' = [lock_count EXCEPT ![m] = @ - 1] /\ owner[m] = t /\ lock_count[m] > 0
      /\ UNCHANGED <<base_priority, pc, want>>
  BY DEF os_mutex_unlock, CanUnlock
<1>3. lock_count' \in [Mutexes -> 0 .. MaxCount]
  BY <1>1, <1>2, MutexAssumption DEF TypeOK
<1>4. CASE lock_count[m] > 1
  <2>1. UNCHANGED <<owner, initialized, wait_q, waiting_mutex, priority, notified>>
    BY <1>4 DEF os_mutex_unlock
  <2>2. TypeOK'
    BY <1>1, <1>2, <1>3, <2>1 DEF TypeOK, avars
  <2>3. ASSUME NEW x \in Threads PROVE Consistent(x)'
    BY <1>1, <1>2, <2>1 DEF Consistent, avars
  <2> QED BY <1>2, <2>1, <2>2, <2>3, QuietStep
<1>5. CASE ~(lock_count[m] > 1)
  <2>1. PICK wq : wq = Behind(m)
    OBVIOUS
  <2>2. /\ owner' = [owner EXCEPT ![m] = None] /\ notified' = NotifyFirst(wait_q[m])
        /\ waiting_mutex' = IF wait_q[m] = <<>> THEN waiting_mutex
                            ELSE [waiting_mutex EXCEPT ![Head(wait_q[m])] = None]
        /\ SetPriorities(os_mutex_update_pi_chain_locked(t, owner', wq, base_priority,
                                                         waiting_mutex'))
        /\ UNCHANGED initialized
    BY <1>5, <2>1 DEF os_mutex_unlock, Behind
  <2>3. /\ waiting_mutex' \in [Threads -> Mutexes \cup {None}]
        /\ \A x \in Threads : waiting_mutex'[x] # waiting_mutex[x] =>
              waiting_mutex[x] = m /\ waiting_mutex'[x] = None
        /\ wq \in [Mutexes -> Seq(Threads)] /\ QueuesAre(wq, waiting_mutex', priority)
        /\ wait_q[m] # <<>> => Head(wait_q[m]) \in Threads /\ waiting_mutex[Head(wait_q[m])] = m
    <3>1. HandsOver(m)
      BY <2>2 DEF HandsOver
    <3> QED BY <2>1, <3>1, HandedOver
  <2>4. /\ owner' \in [Mutexes -> Threads \cup {None}] /\ owner'[m] = None
        /\ \A n \in Mutexes : n # m => owner'[n] = owner[n]
        /\ base_priority' \in [Threads -> Priorities]
    BY <1>1, <1>2, <2>2 DEF TypeOK
  <2>5. Acyclic(owner', waiting_mutex')
    <3>1. \A x \in Threads : waiting_mutex'[x] # None => waiting_mutex'[x] = waiting_mutex[x]
      BY <2>3
    <3>2. \A n \in Mutexes : owner'[n] \in Threads =>
              owner'[n] = owner[n] \/ waiting_mutex'[owner'[n]] = None
      BY <2>4, MutexAssumption
    <3> QED BY <1>1, <3>1, <3>2, FewerEdges
  <2>6. SetPriorities(os_mutex_update_pi_chain_locked(t, owner', wq, base_priority',
                                                      waiting_mutex'))
    BY <1>2, <2>2
  <2>7. /\ wait_q' \in [Mutexes -> Seq(Threads)] /\ priority' \in [Threads -> Priorities]
        /\ QueuesAre(wait_q', waiting_mutex', priority')
        /\ /\ Acyclic(owner', waiting_mutex') /\ ChainIsLongEnough
           /\ \A x \in Threads : x # t =>
                 Justified(x, owner', waiting_mutex', priority, base_priority')
           => AllJustified'
    BY <1>1, <2>3, <2>4, <2>6, Settled
  <2>8. ASSUME AllJustified, NEW x \in Threads, x # t
        PROVE  Justified(x, owner', waiting_mutex', priority, base_priority')
    <3>1. Justified(x, owner, waiting_mutex, priority, base_priority)
      BY <2>8 DEF AllJustified
    <3>2. \A y \in Threads : waiting_mutex[y] # None /\ owner[waiting_mutex[y]] = x =>
              waiting_mutex'[y] = waiting_mutex[y] /\ owner'[waiting_mutex'[y]] = x
      <4> SUFFICES ASSUME NEW y \in Threads, waiting_mutex[y] # None, owner[waiting_mutex[y]] = x
                   PROVE  waiting_mutex'[y] = waiting_mutex[y] /\ owner'[waiting_mutex'[y]] = x
        OBVIOUS
      <4>1. waiting_mutex[y] \in Mutexes /\ waiting_mutex[y] # m
        BY <1>1, <1>2, <2>8 DEF TypeOK
      <4>2. waiting_mutex'[y] = waiting_mutex[y]
        BY <2>3, <4>1
      <4> QED BY <2>4, <4>1, <4>2
    <3> QED BY <1>2, <3>1, <3>2 DEF Justified
  <2>9. /\ notified' \in [Threads -> BOOLEAN] /\ \A x \in Threads : notified[x] => notified'[x]
        /\ \A x \in Threads : waiting_mutex'[x] # waiting_mutex[x] => notified'[x]
    <3>1. CASE wait_q[m] = <<>>
      BY <1>1, <2>2, <3>1 DEF TypeOK, NotifyFirst
    <3>2. CASE wait_q[m] # <<>>
      <4>1. PICK h : h = Head(wait_q[m])
        OBVIOUS
      <4>2. h \in Threads /\ notified' = [notified EXCEPT ![h] = TRUE]
        BY <2>2, <2>3, <3>2, <4>1 DEF NotifyFirst
      <4>3. waiting_mutex' = [waiting_mutex EXCEPT ![h] = None]
        BY <2>2, <3>2, <4>1
      <4> QED BY <1>1, <4>2, <4>3 DEF TypeOK
    <3> QED BY <3>1, <3>2
  <2>10. TypeOK'
    BY <1>1, <1>2, <1>3, <2>2, <2>3, <2>4, <2>7, <2>9 DEF TypeOK, avars
  <2>11. ASSUME NEW x \in Threads PROVE Consistent(x)'
    BY <1>1, <1>2, <2>3, <2>9 DEF Consistent, avars
  <2> QED BY <2>5, <2>7, <2>8, <2>10, <2>11 DEF Kept
<1> QED BY <1>4, <1>5

\* Every action.
LEMMA NextKept ==
    ASSUME IInv, Next
    PROVE  Kept
<1>1. ASSUME NEW t \in Threads, MutexStep(t) PROVE Kept
  <2>1. UNCHANGED avars
    BY <1>1 DEF MutexStep
  <2>2. CASE \E m \in Mutexes : os_mutex_lock(t, m)
    BY <2>1, <2>2, LockStep
  <2>3. CASE \E m \in Mutexes : os_mutex_unlock(t, m)
    BY <2>1, <2>3, UnlockStep
  <2>4. CASE \E m \in Mutexes : os_mutex_init(t, m) \/ os_mutex_deinit(t, m)
    BY <2>1, <2>4, QuietSteps
  <2>5. CASE Lock(t)
    BY <2>1, <2>5, QuietSteps, FailStep, RetryStep DEF Lock
  <2>6. CASE \E u \in Threads, p \in Priorities : os_thread_set_priority(t, u, p)
    BY <2>1, <2>6, PriorityStep
  <2> QED BY <1>1, <2>2, <2>3, <2>4, <2>5, <2>6 DEF MutexStep
<1> QED BY <1>1, AbortStep, DeleteStep DEF Next
-----------------------------------------------------------------------------
(* Hand-off                                                                *)

\* Thread t has been woken for m and will come back for it.
ComesBack(t, m) == want[t] = m /\ waiting_mutex[t] = None /\ Ready(t)

\* Only an unlock frees a mutex; its first waiter comes back for it.
LEMMA FreedIsClaimed ==
    ASSUME IInv, Next, \A t \in Threads : ~completed'[t],
           NEW m \in Mutexes, owner'[m] = None, owner[m] # None
    PROVE  \/ \E t \in Threads : ComesBack(t, m)'
           \/ \A t \in Threads : waiting_mutex'[t] # m
<1>1. /\ TypeOK /\ \A x \in Threads : Consistent(x)
  BY DEF IInv
<1>2. PICK t \in Threads : os_mutex_unlock(t, m) /\ UNCHANGED avars
  <2>1. PICK t \in Threads : MutexStep(t) \/ (\E u \in Threads : os_thread_abort(t, u))
                             \/ os_thread_abort_delete(t)
    BY DEF Next
  <2>2. CASE MutexStep(t)
    <3>1. UNCHANGED avars
      BY <2>2 DEF MutexStep
    <3>2. CASE \E n \in Mutexes : os_mutex_unlock(t, n)
      <4>1. PICK n \in Mutexes : os_mutex_unlock(t, n)
        BY <3>2
      <4>2. owner' = owner \/ owner' = [owner EXCEPT ![n] = None]
        BY <4>1 DEF os_mutex_unlock
      <4>3. n = m
        BY <1>1, <4>2 DEF TypeOK
      <4> QED BY <3>1, <4>1, <4>3
    <3>3. CASE ~\E n \in Mutexes : os_mutex_unlock(t, n)
      <4>1. owner' = owner \/ \E n : owner' = [owner EXCEPT ![n] = t]
        BY <2>2, <3>3 DEF MutexStep, Lock, os_mutex_lock, Acquire, Block, os_mutex_init,
           os_mutex_deinit, os_mutex_lock_notified, os_mutex_lock_timeout, os_mutex_lock_fail,
           os_mutex_lock_again, os_mutex_lock_retry, os_thread_set_priority, mvars
      <4> QED BY <1>1, <4>1, MutexAssumption DEF TypeOK
    <3> QED BY <3>2, <3>3
  <2>3. CASE ~MutexStep(t)
    <3>1. owner' = owner
      BY <2>1, <2>3 DEF os_thread_abort, os_thread_abort_delete, mvars
    <3> QED BY <3>1
  <2> QED BY <2>2, <2>3
<1>3. /\ UNCHANGED <<pc, want>> /\ notified' = NotifyFirst(wait_q[m]) /\ HandsOver(m)
  <2>1. lock_count[m] > 1 => owner' = owner
    BY <1>2 DEF os_mutex_unlock
  <2> QED BY <1>2, <2>1 DEF os_mutex_unlock, HandsOver
<1>4. PICK wq : wq = Behind(m)
  OBVIOUS
<1>5. /\ wait_q[m] # <<>> => Head(wait_q[m]) \in Threads /\ waiting_mutex[Head(wait_q[m])] = m
      /\ wait_q[m] = <<>> => \A x \in Threads : waiting_mutex[x] # m
  BY <1>3, <1>4, HandedOver
<1>6. CASE wait_q[m] = <<>>
  BY <1>3, <1>5, <1>6 DEF HandsOver
<1>7. CASE wait_q[m] # <<>>
  <2>1. PICK h : h = Head(wait_q[m])
    OBVIOUS
  <2>2. h \in Threads /\ waiting_mutex[h] = m /\ m # None
    BY <1>5, <1>7, <2>1, MutexAssumption
  <2>3. notified' = [notified EXCEPT ![h] = TRUE] /\ waiting_mutex' = [waiting_mutex EXCEPT ![h] = None]
    BY <1>3, <1>7, <2>1 DEF NotifyFirst, HandsOver
  <2>4. notified'[h] /\ waiting_mutex'[h] = None
    BY <1>1, <2>2, <2>3 DEF TypeOK
  <2>5. ~completed[h]
    BY <1>2, <2>2 DEF avars
  <2>6. pc[h] \in {"wait", "woken", "expired"} /\ want[h] = m
    BY <1>1, <2>2, <2>5 DEF Consistent
  <2>7. ComesBack(h, m)'
    BY <1>3, <2>4, <2>6 DEF ComesBack, Ready
  <2> QED BY <2>2, <2>7
<1> QED BY <1>6, <1>7

\* A thread that comes back for a free mutex does so until it has taken it.
LEMMA ClaimIsKept ==
    ASSUME IInv, Next, \A t \in Threads : ~completed'[t],
           NEW m \in Mutexes, owner[m] = None, owner'[m] = None,
           NEW x \in Threads, ComesBack(x, m)
    PROVE  ComesBack(x, m)'
<1>1. /\ TypeOK /\ \A y \in Threads : Consistent(y)
  BY DEF IInv
<1>2. PICK t \in Threads : MutexStep(t) \/ (\E u \in Threads : os_thread_abort(t, u))
                           \/ os_thread_abort_delete(t)
  BY DEF Next
<1>3. ASSUME pc'[x] = pc[x], want'[x] = want[x], waiting_mutex'[x] = None,
             notified[x] => notified'[x]
      PROVE  ComesBack(x, m)'
  BY <1>3 DEF ComesBack, Ready
<1>4. pc[x] # "idle" /\ want[x] = m /\ waiting_mutex[x] = None
  BY DEF ComesBack, Ready
<1>5. ASSUME NEW n \in Mutexes, os_mutex_lock(t, n) PROVE ComesBack(x, m)'
  <2>1. x # t
    BY <1>4, <1>5 DEF os_mutex_lock
  <2> QED BY <1>1, <1>3, <1>4, <1>5, <2>1 DEF os_mutex_lock, Acquire, Block, TypeOK
<1>6. ASSUME NEW n \in Mutexes, os_mutex_unlock(t, n) PROVE ComesBack(x, m)'
  <2>1. UNCHANGED <<pc, want>>
    BY <1>6 DEF os_mutex_unlock
  <2>2. \/ UNCHANGED <<waiting_mutex, notified>>
        \/ notified' = NotifyFirst(wait_q[n]) /\ HandsOver(n)
    BY <1>6 DEF os_mutex_unlock, HandsOver
  <2>3. waiting_mutex'[x] = None /\ (notified[x] => notified'[x])
    BY <1>1, <1>4, <2>2 DEF TypeOK, NotifyFirst, HandsOver
  <2> QED BY <1>3, <2>1, <2>3
<1>7. ASSUME NEW n \in Mutexes, os_mutex_init(t, n) \/ os_mutex_deinit(t, n)
      PROVE  ComesBack(x, m)'
  BY <1>3, <1>4, <1>7 DEF os_mutex_init, os_mutex_deinit
<1>8. ASSUME Lock(t) PROVE ComesBack(x, m)'
  <2>1. CASE os_mutex_lock_notified(t)
    BY <1>1, <1>4, <2>1 DEF os_mutex_lock_notified, TypeOK, ComesBack, Ready
  <2>2. CASE os_mutex_lock_timeout(t)
    BY <1>1, <1>4, <2>2 DEF os_mutex_lock_timeout, TypeOK, ComesBack, Ready
  <2>3. CASE os_mutex_lock_fail(t)
    BY <1>1, <1>3, <1>4, <2>3 DEF os_mutex_lock_fail, TypeOK
  <2>4. CASE os_mutex_lock_again(t)
    BY <1>1, <1>4, <2>4 DEF os_mutex_lock_again, TypeOK, ComesBack, Ready
  <2>5. CASE os_mutex_lock_retry(t)
    <3>1. x # t
      <4> SUFFICES ASSUME x = t PROVE FALSE
        OBVIOUS
      <4>1. Acquire(x, m) \/ Block(x, m) \/ owner[m] # None
        BY <1>4, <2>5 DEF os_mutex_lock_retry
      <4>2. Acquire(x, m)
        BY <4>1 DEF Block
      <4>3. owner'[m] = x
        BY <1>1, <4>2 DEF Acquire, TypeOK
      <4> QED BY <4>3, MutexAssumption
    <3> QED BY <1>1, <1>3, <1>4, <2>5, <3>1 DEF os_mutex_lock_retry, Acquire, Block, TypeOK
  <2> QED BY <1>8, <2>1, <2>2, <2>3, <2>4, <2>5 DEF Lock
<1>9. ASSUME NEW u \in Threads, NEW p \in Priorities, os_thread_set_priority(t, u, p)
      PROVE  ComesBack(x, m)'
  BY <1>3, <1>4, <1>9 DEF os_thread_set_priority
<1>10. ASSUME NEW u \in Threads, os_thread_abort(t, u) PROVE FALSE
  BY <1>1, <1>10 DEF os_thread_abort, TypeOK
<1>11. ASSUME os_thread_abort_delete(t) PROVE FALSE
  BY <1>1, <1>11, MutexAssumption DEF os_thread_abort_delete, Consistent
<1> QED BY <1>2, <1>5, <1>6, <1>7, <1>8, <1>9, <1>10, <1>11 DEF MutexStep

\* A thread begins to wait only for a mutex that is not free.
LEMMA NewWaiter ==
    ASSUME IInv, Next, NEW m \in Mutexes, owner'[m] = None,
           NEW x \in Threads, waiting_mutex'[x] = m
    PROVE  waiting_mutex[x] = m
<1>1. TypeOK /\ m # None
  BY MutexAssumption DEF IInv
<1>2. PICK t \in Threads : MutexStep(t) \/ (\E u \in Threads : os_thread_abort(t, u))
                           \/ os_thread_abort_delete(t)
  BY DEF Next
<1>3. CASE \E n : Block(t, n)
  <2>1. PICK n : Block(t, n)
    BY <1>3
  <2>2. owner' = owner /\ owner[n] # None /\ waiting_mutex' = [waiting_mutex EXCEPT ![t] = n]
    BY <2>1 DEF Block, mvars
  <2> QED BY <1>1, <2>2 DEF TypeOK
<1>4. CASE ~\E n : Block(t, n)
  <2>1. waiting_mutex' = waiting_mutex \/ \E y : waiting_mutex' = [waiting_mutex EXCEPT ![y] = None]
    <3>1. CASE \E n \in Mutexes : os_mutex_lock(t, n)
      BY <1>4, <3>1 DEF os_mutex_lock, Acquire
    <3>2. CASE \E n \in Mutexes : os_mutex_unlock(t, n)
      BY <3>2 DEF os_mutex_unlock
    <3>3. CASE \E n \in Mutexes : os_mutex_init(t, n) \/ os_mutex_deinit(t, n)
      BY <3>3 DEF os_mutex_init, os_mutex_deinit
    <3>4. CASE Lock(t)
      BY <1>4, <3>4 DEF Lock, Acquire, os_mutex_lock_notified, os_mutex_lock_timeout,
         os_mutex_lock_fail, os_mutex_lock_again, os_mutex_lock_retry
    <3>5. CASE \E u \in Threads, p \in Priorities : os_thread_set_priority(t, u, p)
      BY <3>5 DEF os_thread_set_priority
    <3>6. CASE (\E u \in Threads : os_thread_abort(t, u)) \/ os_thread_abort_delete(t)
      BY <3>6 DEF os_thread_abort, os_thread_abort_delete
    <3> QED BY <1>2, <3>1, <3>2, <3>3, <3>4, <3>5, <3>6 DEF MutexStep
  <2> QED BY <1>1, <2>1 DEF TypeOK
<1> QED BY <1>3, <1>4

LEMMA NextClaimed ==
    ASSUME IInv, Next
    PROVE  FreeMutexIsClaimed'
<1>1. Kept
  BY NextKept
<1> SUFFICES ASSUME NEW m \in Mutexes, owner'[m] = None, wait_q'[m] # <<>>,
                    \A t \in Threads : ~completed'[t]
             PROVE  \E t \in Threads : ComesBack(t, m)'
  BY DEF FreeMutexIsClaimed, ComesBack
<1>2. PICK x \in Threads : waiting_mutex'[x] = m
  <2>1. /\ wait_q'[m] \in Seq(Threads)
        /\ Range(wait_q'[m]) = {t \in Threads : waiting_mutex'[t] = m}
    BY <1>1 DEF Kept, QueuesAre, Queued
  <2>2. 1 \in DOMAIN wait_q'[m]
    BY <2>1
  <2>3. wait_q'[m][1] \in Range(wait_q'[m])
    BY <2>2 DEF Range
  <2> QED BY <2>1, <2>3
<1>3. CASE owner[m] # None
  BY <1>2, <1>3, FreedIsClaimed
<1>4. CASE owner[m] = None
  <2>1. waiting_mutex[x] = m
    BY <1>2, NewWaiter
  <2>2. wait_q[m] # <<>>
    <3>1. x \in Range(wait_q[m])
      BY <2>1 DEF IInv, QueuesAre, Queued
    <3> QED BY <3>1 DEF Range
  <2>3. \A t \in Threads : ~completed[t]
    <3>1. ASSUME NEW t \in Threads, completed[t] PROVE completed'[t]
      <4>1. TypeOK
        BY DEF IInv
      <4>2. completed' = completed \/ \E u : completed' = [completed EXCEPT ![u] = TRUE]
        BY DEF Next, MutexStep, os_thread_abort, os_thread_abort_delete, avars
      <4> QED BY <3>1, <4>1, <4>2 DEF TypeOK
    <3> QED BY <3>1
  <2>4. PICK y \in Threads : ComesBack(y, m)
    BY <1>4, <2>2, <2>3 DEF IInv, FreeMutexIsClaimed, ComesBack
  <2> QED BY <1>4, <2>4, ClaimIsKept
<1> QED BY <1>3, <1>4
-----------------------------------------------------------------------------
(* The theorems                                                            *)

LEMMA InitInv == Init => IInv /\ AllJustified
<1> SUFFICES ASSUME Init PROVE IInv /\ AllJustified
  OBVIOUS
<1>1. TypeOK
  BY MutexAssumption DEF Init, TypeOK
<1>2. \A t \in Threads : Consistent(t)
  BY DEF Init, Consistent
<1>3. QueuesAre(wait_q, waiting_mutex, priority)
  <2> SUFFICES ASSUME NEW m \in Mutexes
               PROVE  Queued(wait_q[m], m, waiting_mutex) /\ Sorted(wait_q[m], priority)
    BY DEF QueuesAre
  <2>1. wait_q[m] = <<>> /\ \A t \in Threads : waiting_mutex[t] # m
    BY MutexAssumption DEF Init
  <2>2. wait_q[m] \in Seq(Threads) /\ DOMAIN wait_q[m] = {}
    BY <2>1
  <2> QED BY <2>1, <2>2 DEF Queued, Distinct, Sorted, Range
<1>4. Acyclic(owner, waiting_mutex)
  BY DEF Init, Acyclic
<1>5. FreeMutexIsClaimed
  BY DEF Init, FreeMutexIsClaimed
<1>6. AllJustified
  <2>1. ASSUME NEW t \in Threads PROVE priority[t] <= base_priority[t]
    <3>1. priority[t] = base_priority[t] /\ base_priority[t] \in Nat
      BY MutexAssumption DEF Init
    <3> QED BY <3>1
  <2> QED BY <2>1 DEF AllJustified, Justified
<1> QED BY <1>1, <1>2, <1>3, <1>4, <1>5, <1>6 DEF IInv

LEMMA NextInv == IInv /\ [Next]_vars => IInv' /\ (ChainIsLongEnough /\ AllJustified => AllJustified')
<1> SUFFICES ASSUME IInv, [Next]_vars
             PROVE  IInv' /\ (ChainIsLongEnough /\ AllJustified => AllJustified')
  OBVIOUS
<1>1. CASE Next
  BY <1>1, NextKept, NextClaimed DEF Kept, IInv
<1>2. CASE UNCHANGED vars
  <2>1. /\ UNCHANGED <<owner, lock_count, initialized, wait_q, base_priority, waiting_mutex>>
        /\ UNCHANGED <<priority, notified, pc, want, completed, victim>>
    BY <1>2 DEF vars, mvars, avars
  <2>2. TypeOK'
    BY <2>1 DEF IInv, TypeOK
  <2>3. \A t \in Threads : Consistent(t)'
    BY <2>1 DEF IInv, Consistent
  <2>4. FreeMutexIsClaimed'
    BY <2>1 DEF IInv, FreeMutexIsClaimed, Ready
  <2>5. AllJustified => AllJustified'
    BY <2>1 DEF AllJustified
  <2> QED BY <2>1, <2>2, <2>3, <2>4, <2>5 DEF IInv
<1> QED BY <1>1, <1>2

\* The inductive invariant holds.
THEOREM Invariance == Spec => []IInv
<1>1. Init => IInv
  BY InitInv
<1>2. IInv /\ [Next]_vars => IInv'
  BY NextInv
<1> QED BY <1>1, <1>2, PTL DEF Spec

(***************************************************************************)
(* The fields of every mutex and thread keep their types: in particular    *)
(* os_mutex_update_pi_chain_locked only hands on priorities in use.        *)
(***************************************************************************)
THEOREM TypeCorrect == Spec => []TypeOK
<1>1. IInv => TypeOK
  BY DEF IInv
<1> QED BY <1>1, Invariance, PTL

(***************************************************************************)
(* Whatever the lock, unlock, timeout, abort and set_priority calls have   *)
(* done, each wait queue holds the threads that wait for its mutex, once   *)
(* each and in the order of their priorities.                              *)
(***************************************************************************)
THEOREM QueuesOrdered == Spec => []WaitQueuesAreOrdered
<1>1. IInv => WaitQueuesAreOrdered
  <2> SUFFICES ASSUME IInv, NEW m \in Mutexes
               PROVE  /\ \A t \in Threads : waiting_mutex[t] = m <=>
                             Cardinality({i \in DOMAIN wait_q[m] : wait_q[m][i] = t}) = 1
                      /\ Sorted(wait_q[m], priority)
    BY DEF WaitQueuesAreOrdered, Sorted
  <2>1. Queued(wait_q[m], m, waiting_mutex) /\ Sorted(wait_q[m], priority)
    BY DEF IInv, QueuesAre
  <2>2. PICK q : q = wait_q[m]
    OBVIOUS
  <2>3. ASSUME NEW t \in Threads
        PROVE  waiting_mutex[t] = m <=> Cardinality({i \in DOMAIN q : q[i] = t}) = 1
    <3>1. waiting_mutex[t] = m <=> \E i \in DOMAIN q : q[i] = t
      BY <2>1, <2>2 DEF Queued, Range
    <3>2. CASE \E i \in DOMAIN q : q[i] = t
      <4>1. PICK i \in DOMAIN q : q[i] = t
        BY <3>2
      <4>2. {j \in DOMAIN q : q[j] = t} = {i}
        BY <2>1, <2>2, <4>1 DEF Queued, Distinct
      <4>3. Cardinality({i}) = 1
        BY FS_Singleton
      <4> QED BY <3>1, <3>2, <4>2, <4>3
    <3>3. CASE ~\E i \in DOMAIN q : q[i] = t
      <4>1. {j \in DOMAIN q : q[j] = t} = {}
        BY <3>3
      <4>2. Cardinality({}) = 0
        BY FS_EmptySet
      <4> QED BY <3>1, <3>3, <4>1, <4>2
    <3> QED BY <3>2, <3>3
  <2> QED BY <2>1, <2>2, <2>3
<1> QED BY <1>1, Invariance, PTL

\* A chain of owners that comes back to where it began is a deadlock.
LEMMA NoCycle ==
    ASSUME IInv, NEW t \in Threads, NEW N \in Nat, NEW n \in 1 .. N, NEW h,
           h[0] = t, h[n] = t, \A k \in 0 .. N : h[k] \in Threads \cup {None},
           \A k \in 1 .. N :
               h[k] = IF h[k - 1] = None \/ waiting_mutex[h[k - 1]] = None THEN None
                      ELSE owner[waiting_mutex[h[k - 1]]]
    PROVE  FALSE
<1>1. t # None
  BY MutexAssumption
<1>2. PICK P : P = {j \in 0 .. n : h[n - j] # None}
  OBVIOUS
<1>3. \A j \in 0 .. n : j \in P
  <2>1. n \in Nat /\ n - 0 = n /\ 0 \in 0 .. n
    OBVIOUS
  <2>2. 0 \in P
    BY <1>1, <1>2, <2>1
  <2>3. ASSUME NEW j \in 1 .. n, j - 1 \in P PROVE j \in P
    <3>1. PICK k : k = n - (j - 1)
      OBVIOUS
    <3>2. k \in 1 .. N /\ k - 1 = n - j /\ h[k] # None /\ j \in 0 .. n
      BY <1>2, <2>3, <3>1
    <3>3. h[k - 1] # None
      BY <3>2
    <3> QED BY <1>2, <3>2, <3>3
  <2> QED BY <2>1, <2>2, <2>3, InductionTo
<1>4. ASSUME NEW k \in 0 .. n PROVE h[k] \in Threads
  <2>1. n - k \in 0 .. n /\ n - (n - k) = k /\ k \in 0 .. N
    OBVIOUS
  <2>2. h[k] # None
    BY <1>2, <1>3, <2>1
  <2> QED BY <2>1, <2>2
<1>5. PICK C : C = {h[k] : k \in 0 .. n - 1}
  OBVIOUS
<1>6. ASSUME NEW k \in 0 .. n - 1
      PROVE  /\ h[k] \in Threads /\ waiting_mutex[h[k]] # None
             /\ owner[waiting_mutex[h[k]]] \in C
  <2>1. PICK j : j = k + 1
    OBVIOUS
  <2>2. j \in 1 .. N /\ j \in 0 .. n /\ j - 1 = k /\ k \in 0 .. n
    BY <2>1
  <2>3. h[j] \in Threads /\ h[k] \in Threads
    BY <1>4, <2>2
  <2>4. h[j] # None
    BY <2>3, MutexAssumption
  <2>5. waiting_mutex[h[k]] # None /\ h[j] = owner[waiting_mutex[h[k]]]
    BY <2>2, <2>4
  <2>6. h[j] \in C
    <3>1. CASE j = n
      <4>1. 0 \in 0 .. n - 1 /\ h[j] = h[0]
        BY <3>1
      <4> QED BY <1>5, <4>1
    <3>2. CASE j # n
      <4>1. j \in 0 .. n - 1
        BY <2>2, <3>2
      <4> QED BY <1>5, <4>1
    <3> QED BY <3>1, <3>2
  <2> QED BY <2>3, <2>5, <2>6
<1>7. C \in SUBSET Threads /\ C # {}
  <2>1. 0 \in 0 .. n - 1
    OBVIOUS
  <2> QED BY <1>5, <1>6, <2>1
<1>8. PICK u \in C : waiting_mutex[u] = None \/ owner[waiting_mutex[u]] \notin C
  BY <1>7 DEF IInv, Acyclic
<1> QED BY <1>5, <1>6, <1>8

(***************************************************************************)
(* os_mutex_would_deadlock_locked refuses every wait that would close a    *)
(* cycle of owners and waiters, also when it gives up after                *)
(* OS_PI_MAX_CHAIN_DEPTH owners, and no other call closes one.             *)
(***************************************************************************)
THEOREM NobodyDeadlocks == Spec => []NoDeadlockCycle
<1>1. IInv => NoDeadlockCycle
  <2> SUFFICES ASSUME IInv, NEW t \in Threads, NEW n \in 1 .. Cardinality(Threads),
                      NEW h, h = OwnerChain(t, Cardinality(Threads)), h[n] = t
               PROVE  FALSE
    BY DEF NoDeadlockCycle, OwnerChain
  <2>1. PICK N : N = Cardinality(Threads)
    OBVIOUS
  <2>2. N \in Nat
    BY <2>1, MutexAssumption, FS_CardinalityType
  <2>3. /\ h[0] = t /\ \A k \in 0 .. N : h[k] \in Threads \cup {None}
        /\ \A k \in 1 .. N :
              h[k] = IF h[k - 1] = None \/ waiting_mutex[h[k - 1]] = None THEN None
                     ELSE owner[waiting_mutex[h[k - 1]]]
    <3>1. TypeOK /\ Cardinality(Threads) \in Nat
      BY <2>1, <2>2 DEF IInv
    <3>2. /\ h[0] = t /\ \A k \in 0 .. Cardinality(Threads) : h[k] \in Threads \cup {None}
          /\ \A k \in 1 .. Cardinality(Threads) :
                h[k] = IF h[k - 1] = None \/ waiting_mutex[h[k - 1]] = None THEN None
                       ELSE owner[waiting_mutex[h[k - 1]]]
      BY <3>1, Pursuit
    <3> QED BY <2>1, <3>2
  <2>4. n \in 1 .. N
    BY <2>1
  <2> QED BY <2>2, <2>3, <2>4, NoCycle
<1> QED BY <1>1, Invariance, PTL

(***************************************************************************)
(* Priority inheritance never leaves a thread above what it is owed: with  *)
(* no more threads than OS_PI_MAX_CHAIN_DEPTH, every live thread runs at   *)
(* its own priority or at most at that of a thread that waits for one of   *)
(* its mutexes, through chains of mutexes, timeouts, aborts and priority   *)
(* changes.                                                                *)
(***************************************************************************)
THEOREM BoostsEnd == ChainIsLongEnough => (Spec => []NoBoostOutlivesItsReason)
<1> SUFFICES ASSUME ChainIsLongEnough PROVE Spec => []NoBoostOutlivesItsReason
  OBVIOUS
<1> DEFINE JInv == IInv /\ AllJustified
<1>1. Init => JInv
  BY InitInv
<1>2. JInv /\ [Next]_vars => JInv'
  BY NextInv
<1>3. JInv => NoBoostOutlivesItsReason
  <2> SUFFICES ASSUME JInv, NEW t \in Threads PROVE priority[t] <= MaxOf(Claims(t))
    BY DEF NoBoostOutlivesItsReason
  <2>1. /\ base_priority \in [Threads -> Priorities] /\ priority \in [Threads -> Priorities]
    BY DEF IInv, TypeOK
  <2>2. PICK T : T = Claims(t)
    OBVIOUS
  <2>3. T \subseteq Priorities /\ base_priority[t] \in T
    BY <2>1, <2>2 DEF Claims
  <2>4. IsFiniteSet(T) /\ T \subseteq Nat /\ T # {}
    BY <2>3, MutexAssumption, FS_Subset
  <2>5. MaxOf(T) \in T /\ \A y \in T : y <= MaxOf(T)
    BY <2>4, LargestNumber
  <2>6. \E y \in T : priority[t] <= y
    <3>1. CASE priority[t] <= base_priority[t]
      BY <2>3, <3>1
    <3>2. CASE \E u \in Threads : /\ waiting_mutex[u] # None /\ owner[waiting_mutex[u]] = t
                                  /\ priority[t] <= priority[u]
      BY <2>2, <3>2 DEF Claims
    <3> QED BY <3>1, <3>2 DEF AllJustified, Justified
  <2>7. priority[t] \in Nat
    BY <2>1, MutexAssumption
  <2> QED BY <2>2, <2>4, <2>5, <2>6, <2>7
<1> QED BY <1>1, <1>2, <1>3, PTL DEF Spec

(***************************************************************************)
(* Unlocking loses nobody: while no thread has been aborted, a free mutex  *)
(* that is awaited has been handed to a thread that is on its way back for *)
(* it in os_mutex_lock.                                                    *)
(***************************************************************************)
THEOREM FreeIsClaimed == Spec => []FreeMutexIsClaimed
<1>1. IInv => FreeMutexIsClaimed
  BY DEF IInv
<1> QED BY <1>1, Invariance, PTL
=============================================================================
