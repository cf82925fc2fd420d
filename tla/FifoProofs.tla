----------------------------- MODULE FifoProofs -----------------------------
(***************************************************************************)
(* Proofs about os_fifo for any number of queues, nodes and threads and    *)
(* any limit.                                                              *)
(***************************************************************************)
EXTENDS Fifo, FiniteSetTheorems, SequenceTheorems, TLAPS

\* A thread is on a queue exactly while it is inside a call, and the queue is
\* initialized then; a queue that is not initialized is empty.
CallsAreTracked ==
    /\ \A t \in Threads : IF pc[t] = "idle" THEN on[t] = None
                          ELSE on[t] \in Fifos /\ fifo[on[t]].initialized
    /\ \A f \in Fifos : ~fifo[f].initialized => fifo[f].list = <<>>

Queued(n, f, i) == i \in DOMAIN fifo[f].list /\ fifo[f].list[i] = n

(***************************************************************************)
(* node->queued is set exactly for the nodes on a list, and a node has one *)
(* place only.                                                             *)
(***************************************************************************)
FlagsArePlaces ==
    \A n \in Nodes :
        /\ queued[n] <=> \E f \in Fifos : \E i \in Nat : Queued(n, f, i)
        /\ \A f, g \in Fifos : \A i, j \in Nat :
               Queued(n, f, i) /\ Queued(n, g, j) => f = g /\ i = j

\* The inductive invariant.
IInv == TypeOK /\ CallsAreTracked /\ TokenMeansNode /\ FlagsArePlaces

Steps == {"idle", "give", "take", "unlink"}
Control == [initialized : BOOLEAN, list : Seq(Nodes), count : 0 .. Limit, items : 0 .. Limit]

\* Giving or taking a token leaves the other fields of a queue alone.
LEMMA SameRecord ==
    ASSUME NEW r \in Control, NEW i
    PROVE  [r EXCEPT !.items = i] = [initialized |-> r.initialized, list |-> r.list,
                                     count |-> r.count, items |-> i]
BY DEF Control

\* The fields of a queue and the places on its list.
LEMMA QueueFacts ==
    ASSUME IInv, NEW f \in Fifos
    PROVE  /\ fifo[f] \in Control /\ fifo[f].initialized \in BOOLEAN
           /\ fifo[f].count \in Nat /\ fifo[f].items \in Nat
           /\ fifo[f].count <= Limit /\ fifo[f].items <= Limit
           /\ fifo[f].list \in Seq(Nodes)
           /\ Len(fifo[f].list) \in Nat
           /\ DOMAIN fifo[f].list = 1 .. Len(fifo[f].list)
           /\ fifo[f].count = Len(fifo[f].list)
           /\ fifo[f].items + At(f, "unlink") + At(f, "give") = fifo[f].count
<1>1. fifo[f] \in Control
  BY DEF IInv, TypeOK, Control
<1>2. fifo[f].list \in Seq(Nodes)
  BY <1>1 DEF Control
<1> QED BY <1>1, <1>2, FifoAssumption, LenProperties DEF Control, IInv, TokenMeansNode

\* The four ways in which a step moves a token or a node, in numbers.
LEMMA Balance ==
    ASSUME NEW items \in Nat, NEW u \in Nat, NEW g \in Nat, NEW count \in Nat,
           items + u + g = count
    PROVE  /\ items + u + (g + 1) = count + 1
           /\ (items + 1) + u + (g - 1) = count
           /\ (items - 1) + (u + 1) + g = count
           /\ items + (u - 1) + g = count - 1
OBVIOUS

\* Head counts are numbers, and zero where nobody is.
LEMMA HeadCount ==
    ASSUME NEW f, NEW s
    PROVE  /\ At(f, s) \in Nat
           /\ (\A t \in Threads : ~(pc[t] = s /\ on[t] = f)) => At(f, s) = 0
<1> DEFINE S == {u \in Threads : pc[u] = s /\ on[u] = f}
<1>1. IsFiniteSet(S)
  <2>1. S \subseteq Threads
    OBVIOUS
  <2> QED BY <2>1, FifoAssumption, FS_Subset
<1>2. Cardinality(S) \in Nat
  BY <1>1, FS_CardinalityType
<1>3. (\A t \in Threads : ~(pc[t] = s /\ on[t] = f)) => S = {}
  OBVIOUS
<1>4. S = {} => Cardinality(S) = 0
  BY <1>1, FS_EmptySet
<1>5. At(f, s) = Cardinality(S)
  BY DEF At
<1> HIDE DEF S
<1> QED BY <1>2, <1>3, <1>4, <1>5

\* A thread that goes from one step of a call on queue f to another is counted
\* at the other one from then on, and no other count changes.
LEMMA MoveOne ==
    ASSUME TypeOK, NEW t \in Threads, NEW f \in Fifos, NEW from, NEW to, from # to,
           Goto(t, f, from, to), NEW s \in {"unlink", "give"}
    PROVE  /\ s = from => At(f, s) \in Nat \ {0} /\ At(f, s)' = At(f, s) - 1
           /\ s = to => At(f, s)' = At(f, s) + 1
           /\ s \notin {from, to} => At(f, s)' = At(f, s)
           /\ \A g \in Fifos : g # f => At(g, s)' = At(g, s)
<1> DEFINE S(g) == {u \in Threads : pc[u] = s /\ on[u] = g}
<1> DEFINE N(g) == {u \in Threads : pc'[u] = s /\ on'[u] = g}
<1>1. \A u \in Threads \ {t} : pc'[u] = pc[u] /\ on'[u] = on[u]
  BY DEF Goto, TypeOK
<1>2. /\ pc[t] = from /\ pc'[t] = to
      /\ on[t] = IF from = "idle" THEN None ELSE f
      /\ on'[t] = IF to = "idle" THEN None ELSE f
  BY DEF Goto, TypeOK
<1>3. ASSUME NEW g \in Fifos PROVE IsFiniteSet(S(g))
  <2>1. S(g) \subseteq Threads
    OBVIOUS
  <2> QED BY <2>1, FifoAssumption, FS_Subset
<1>4. s = from => N(f) = S(f) \ {t} /\ t \in S(f)
  BY <1>1, <1>2
<1>5. s = to => N(f) = S(f) \cup {t} /\ t \notin S(f)
  BY <1>1, <1>2
<1>6. s \notin {from, to} => N(f) = S(f)
  BY <1>1, <1>2
<1>7. \A g \in Fifos : g # f => N(g) = S(g)
  BY <1>1, <1>2, FifoAssumption
<1>8. \A g : At(g, s) = Cardinality(S(g)) /\ At(g, s)' = Cardinality(N(g))
  BY DEF At
<1>9. IsFiniteSet(S(f))
  BY <1>3
<1> HIDE DEF S, N
<1>10. s = to => Cardinality(N(f)) = Cardinality(S(f)) + 1
  BY <1>5, <1>9, FS_AddElement
<1>11. s = from => /\ Cardinality(N(f)) = Cardinality(S(f)) - 1
                   /\ Cardinality(S(f)) \in Nat \ {0}
  BY <1>4, <1>9, FS_RemoveElement, FS_CardinalityType, FS_EmptySet
<1> QED BY <1>6, <1>7, <1>8, <1>10, <1>11

\* Moving a thread inside its call keeps track of the calls.
LEMMA MoveTracked ==
    ASSUME IInv, NEW t \in Threads, NEW f \in Fifos, NEW from \in Steps, NEW to \in Steps,
           Goto(t, f, from, to), from = "idle" => fifo[f].initialized,
           \A g \in Fifos : fifo'[g].initialized = fifo[g].initialized
    PROVE  /\ fifo[f].initialized
           /\ pc' \in [Threads -> Steps] /\ on' \in [Threads -> Fifos \cup {None}]
           /\ \A u \in Threads : IF pc'[u] = "idle" THEN on'[u] = None
                                 ELSE on'[u] \in Fifos /\ fifo'[on'[u]].initialized
<1>1. fifo[f].initialized
  BY DEF Goto, IInv, CallsAreTracked
<1>2. /\ \A u \in Threads \ {t} : pc'[u] = pc[u] /\ on'[u] = on[u]
      /\ pc'[t] = to /\ on'[t] = IF to = "idle" THEN None ELSE f
  BY DEF Goto, IInv, TypeOK
<1>3. pc' \in [Threads -> Steps] /\ on' \in [Threads -> Fifos \cup {None}]
  BY DEF Goto, IInv, TypeOK, Steps
<1>4. fifo'[f].initialized
  BY <1>1
<1>5. ASSUME NEW u \in Threads
      PROVE  IF pc'[u] = "idle" THEN on'[u] = None
             ELSE on'[u] \in Fifos /\ fifo'[on'[u]].initialized
  <2>1. CASE u = t
    BY <1>2, <1>4, <2>1
  <2>2. CASE u # t
    BY <1>2, <2>2 DEF IInv, CallsAreTracked
  <2> QED BY <2>1, <2>2
<1> QED BY <1>1, <1>3, <1>5

(***************************************************************************)
(* A step that changes no list and no flag: what remains to be shown is    *)
(* that the token it moves is accounted for.                               *)
(***************************************************************************)
LEMMA SameLists ==
    ASSUME IInv, \A g \in Fifos : fifo'[g].list = fifo[g].list,
           queued' = queued
    PROVE  FlagsArePlaces'
<1>1. \A n, g, i : g \in Fifos => (Queued(n, g, i)' <=> Queued(n, g, i))
  BY DEF Queued
<1> QED BY <1>1 DEF IInv, FlagsArePlaces
-----------------------------------------------------------------------------
\* Cleared queues and nodes satisfy the inductive invariant.
LEMMA InitInv == Init => IInv
<1> SUFFICES ASSUME Init PROVE IInv
  OBVIOUS
<1> USE FifoAssumption
<1>1. Zeroed \in Control /\ Zeroed.initialized = FALSE /\ Zeroed.list = <<>>
      /\ Zeroed.count = 0 /\ Zeroed.items = 0
  BY DEF Zeroed, Control
<1>2. TypeOK
  BY <1>1 DEF Init, TypeOK, Control
<1>3. CallsAreTracked
  BY <1>1 DEF Init, CallsAreTracked
<1>4. \A f \in Fifos : At(f, "unlink") = 0 /\ At(f, "give") = 0
  BY HeadCount DEF Init
<1>5. TokenMeansNode
  BY <1>1, <1>4 DEF Init, TokenMeansNode
<1>6. \A n, i : \A f \in Fifos : ~Queued(n, f, i)
  BY <1>1 DEF Init, Queued
<1>7. FlagsArePlaces
  BY <1>6 DEF FlagsArePlaces, Init
<1> QED BY <1>2, <1>3, <1>5, <1>7 DEF IInv

(***************************************************************************)
(* What every step inside a call on queue f has in common: the other       *)
(* queues are left alone.  The step keeps the invariant if it leaves f a   *)
(* well-formed queue whose tokens are accounted for and whose nodes are    *)
(* flagged.                                                                *)
(***************************************************************************)
LEMMA StepInv ==
    ASSUME IInv, NEW t \in Threads, NEW f \in Fifos, NEW from \in Steps, NEW to \in Steps,
           from # to, Goto(t, f, from, to), from = "idle" => fifo[f].initialized,
           NEW q \in Control, fifo' = [fifo EXCEPT ![f] = q],
           q.initialized = fifo[f].initialized,
           q.count = Len(q.list),
           q.items + At(f, "unlink")' + At(f, "give")' = q.count,
           queued' \in [Nodes -> BOOLEAN], got' \in [Threads -> Nodes \cup {None}],
           FlagsArePlaces'
    PROVE  IInv'
<1>1. /\ fifo'[f] = q
      /\ \A g \in Fifos : g # f => fifo'[g] = fifo[g]
      /\ \A g \in Fifos : fifo'[g].initialized = fifo[g].initialized
      /\ fifo' \in [Fifos -> Control]
  BY DEF IInv, TypeOK, Control
<1>2. /\ fifo[f].initialized
      /\ pc' \in [Threads -> Steps] /\ on' \in [Threads -> Fifos \cup {None}]
      /\ \A u \in Threads : IF pc'[u] = "idle" THEN on'[u] = None
                            ELSE on'[u] \in Fifos /\ fifo'[on'[u]].initialized
  BY <1>1, MoveTracked
<1>3. TypeOK'
  BY <1>1, <1>2 DEF TypeOK, Control, Steps
<1>4. CallsAreTracked'
  BY <1>1, <1>2 DEF CallsAreTracked, IInv
<1>5. \A g \in Fifos : g # f => /\ At(g, "unlink")' = At(g, "unlink")
                                /\ At(g, "give")' = At(g, "give")
  BY MoveOne DEF IInv
<1>6. TokenMeansNode'
  BY <1>1, <1>5 DEF TokenMeansNode, IInv
<1> QED BY <1>3, <1>4, <1>6 DEF IInv

\* Linking a node that is on no list at the end of list f gives it its one
\* place and moves no other node.
LEMMA PutPlaces ==
    ASSUME IInv, NEW f \in Fifos, NEW n \in Nodes, ~queued[n],
           queued' = [queued EXCEPT ![n] = TRUE],
           fifo'[f].list = Append(fifo[f].list, n),
           \A g \in Fifos : g # f => fifo'[g].list = fifo[g].list
    PROVE  FlagsArePlaces'
<1>1. /\ fifo[f].list \in Seq(Nodes) /\ Len(fifo[f].list) \in Nat
      /\ DOMAIN fifo[f].list = 1 .. Len(fifo[f].list)
  BY QueueFacts
<1>4. PICK last \in Nat : last = Len(fifo[f].list) + 1
  BY <1>1
<1>2. /\ DOMAIN fifo'[f].list = 1 .. last
      /\ \A i \in 1 .. Len(fifo[f].list) : fifo'[f].list[i] = fifo[f].list[i]
      /\ fifo'[f].list[last] = n
  BY <1>1, <1>4, AppendProperties, LenProperties
<1>3. ASSUME NEW m, NEW g \in Fifos, NEW i \in Nat
      PROVE  Queued(m, g, i)' <=> Queued(m, g, i) \/ (m = n /\ g = f /\ i = last)
  <2>1. CASE g # f
    BY <2>1 DEF Queued
  <2>2. CASE g = f
    <3>1. Queued(m, f, i) <=> i \in 1 .. Len(fifo[f].list) /\ fifo[f].list[i] = m
      BY <1>1 DEF Queued
    <3>2. Queued(m, f, i)' <=> i \in 1 .. last /\ fifo'[f].list[i] = m
      BY <1>2 DEF Queued
    <3>3. /\ i \in 1 .. last <=> i \in 1 .. Len(fifo[f].list) \/ i = last
          /\ last \notin 1 .. Len(fifo[f].list)
      BY <1>1, <1>4
    <3> QED BY <1>2, <2>2, <3>1, <3>2, <3>3
  <2> QED BY <2>1, <2>2
<1>5. \A g \in Fifos : \A i \in Nat : ~Queued(n, g, i)
  BY DEF IInv, FlagsArePlaces
<1>6. ASSUME NEW m \in Nodes
      PROVE  queued'[m] <=> \E g \in Fifos : \E i \in Nat : Queued(m, g, i)'
  <2>1. CASE m = n
    <3>1. queued'[m]
      BY <2>1 DEF IInv, TypeOK
    <3>2. Queued(m, f, last)'
      BY <1>3, <2>1
    <3> QED BY <3>1, <3>2
  <2>2. CASE m # n
    <3>1. queued'[m] = queued[m]
      BY <2>2 DEF IInv, TypeOK
    <3> QED BY <1>3, <2>2, <3>1 DEF IInv, FlagsArePlaces
  <2> QED BY <2>1, <2>2
<1>7. ASSUME NEW m \in Nodes, NEW g \in Fifos, NEW h \in Fifos, NEW i \in Nat, NEW j \in Nat,
             Queued(m, g, i)', Queued(m, h, j)'
      PROVE  g = h /\ i = j
  BY <1>3, <1>5, <1>7 DEF IInv, FlagsArePlaces
<1> QED BY <1>6, <1>7 DEF FlagsArePlaces

\* Unlinking the first node of list f takes away its one place; the others
\* move up and keep their order.
LEMMA UnlinkPlaces ==
    ASSUME IInv, NEW f \in Fifos, fifo[f].list # <<>>,
           queued' = [queued EXCEPT ![Head(fifo[f].list)] = FALSE],
           fifo'[f].list = Tail(fifo[f].list),
           \A g \in Fifos : g # f => fifo'[g].list = fifo[g].list
    PROVE  FlagsArePlaces'
<1> DEFINE n == Head(fifo[f].list)
<1>1. /\ fifo[f].list \in Seq(Nodes) /\ Len(fifo[f].list) \in Nat \ {0}
      /\ DOMAIN fifo[f].list = 1 .. Len(fifo[f].list)
  BY QueueFacts, EmptySeq
<1>2. /\ n \in Nodes /\ n = fifo[f].list[1]
      /\ DOMAIN fifo'[f].list = 1 .. Len(fifo[f].list) - 1
      /\ \A i \in 1 .. Len(fifo[f].list) - 1 : fifo'[f].list[i] = fifo[f].list[i + 1]
  BY <1>1, HeadTailProperties, LenProperties
<1>3. Queued(n, f, 1)
  BY <1>1, <1>2 DEF Queued
<1> HIDE DEF n
<1>4. \A g \in Fifos : \A i \in Nat : Queued(n, g, i) => g = f /\ i = 1
  BY <1>2, <1>3 DEF IInv, FlagsArePlaces
<1>5. ASSUME NEW m, NEW g \in Fifos, NEW i \in Nat
      PROVE  Queued(m, g, i)' <=> IF g = f THEN i # 0 /\ Queued(m, f, i + 1)
                                            ELSE Queued(m, g, i)
  <2>1. CASE g # f
    BY <2>1 DEF Queued
  <2>2. CASE g = f
    <3>1. Queued(m, f, i + 1) <=> i + 1 \in 1 .. Len(fifo[f].list) /\ fifo[f].list[i + 1] = m
      BY <1>1 DEF Queued
    <3>2. Queued(m, f, i)' <=> i \in 1 .. Len(fifo[f].list) - 1 /\ fifo'[f].list[i] = m
      BY <1>2 DEF Queued
    <3>3. i \in 1 .. Len(fifo[f].list) - 1 <=> i # 0 /\ i + 1 \in 1 .. Len(fifo[f].list)
      BY <1>1
    <3> QED BY <1>2, <2>2, <3>1, <3>2, <3>3
  <2> QED BY <2>1, <2>2
<1>6. ASSUME NEW m \in Nodes
      PROVE  queued'[m] <=> \E g \in Fifos : \E i \in Nat : Queued(m, g, i)'
  <2>1. CASE m = n
    <3>1. ~queued'[m]
      BY <2>1 DEF n, IInv, TypeOK
    <3>2. ASSUME NEW g \in Fifos, NEW i \in Nat, Queued(m, g, i)' PROVE FALSE
      BY <1>4, <1>5, <2>1, <3>2
    <3> QED BY <3>1, <3>2
  <2>2. CASE m # n
    <3>1. queued'[m] = queued[m]
      BY <2>2 DEF n, IInv, TypeOK
    <3>2. ASSUME NEW g \in Fifos, NEW i \in Nat, Queued(m, g, i)'
          PROVE  \E h \in Fifos : \E j \in Nat : Queued(m, h, j)
      <4>1. i + 1 \in Nat
        OBVIOUS
      <4> QED BY <1>5, <3>2, <4>1
    <3>3. ASSUME NEW g \in Fifos, NEW i \in Nat, Queued(m, g, i)
          PROVE  \E h \in Fifos : \E j \in Nat : Queued(m, h, j)'
      <4>1. CASE g # f
        BY <1>5, <3>3, <4>1
      <4>2. CASE g = f
        <5>1. i \in 1 .. Len(fifo[f].list) /\ i # 1
          BY <1>1, <1>2, <2>2, <3>3, <4>2 DEF Queued
        <5>2. i - 1 \in Nat /\ i - 1 # 0 /\ (i - 1) + 1 = i
          BY <5>1
        <5>3. Queued(m, f, i - 1)'
          BY <1>5, <3>3, <4>2, <5>2
        <5> QED BY <5>2, <5>3
      <4> QED BY <4>1, <4>2
    <3>4. queued[m] <=> \E g \in Fifos : \E i \in Nat : Queued(m, g, i)
      BY DEF IInv, FlagsArePlaces
    <3> QED BY <3>1, <3>2, <3>3, <3>4
  <2> QED BY <2>1, <2>2
<1>7. ASSUME NEW m \in Nodes, NEW g \in Fifos, NEW h \in Fifos, NEW i \in Nat, NEW j \in Nat,
             Queued(m, g, i)', Queued(m, h, j)'
      PROVE  g = h /\ i = j
  <2>1. i + 1 \in Nat /\ j + 1 \in Nat
    OBVIOUS
  <2>2. \A a, b \in Fifos : \A k, l \in Nat :
            Queued(m, a, k) /\ Queued(m, b, l) => a = b /\ k = l
    BY DEF IInv, FlagsArePlaces
  <2> QED BY <1>5, <1>7, <2>1, <2>2
<1> QED BY <1>6, <1>7 DEF FlagsArePlaces

\* Every step of put and get, init and deinit preserve the inductive
\* invariant.
LEMMA NextInv == IInv /\ [Next]_vars => IInv'
<1> SUFFICES ASSUME IInv, [Next]_vars PROVE IInv'
  OBVIOUS
<1> USE FifoAssumption
<1>0. /\ fifo \in [Fifos -> Control] /\ pc \in [Threads -> Steps] /\ TypeOK
      /\ queued \in [Nodes -> BOOLEAN] /\ got \in [Threads -> Nodes \cup {None}]
      /\ \A f \in Fifos : At(f, "unlink") \in Nat /\ At(f, "give") \in Nat
  BY HeadCount DEF IInv, TypeOK, Control, Steps
<1>1. ASSUME NEW f \in Fifos, NEW z \in Control, fifo' = [fifo EXCEPT ![f] = z],
             z.list = <<>>, z.count = 0, z.items = 0, fifo[f].list = <<>>,
             \A t \in Threads : on[t] # f,
             UNCHANGED <<queued, pc, on, got>>
      PROVE  IInv'
  <2>1. /\ fifo'[f] = z /\ fifo' \in [Fifos -> Control]
        /\ \A g \in Fifos : g # f => fifo'[g] = fifo[g]
    BY <1>0, <1>1
  <2>2. TypeOK'
    BY <1>0, <1>1, <2>1 DEF TypeOK, Control
  <2>3. CallsAreTracked'
    BY <1>1, <2>1 DEF IInv, CallsAreTracked
  <2>4. \A g \in Fifos : At(g, "unlink")' = At(g, "unlink") /\ At(g, "give")' = At(g, "give")
    BY <1>1 DEF At
  <2>5. At(f, "unlink") = 0 /\ At(f, "give") = 0
    BY <1>1, HeadCount
  <2>6. TokenMeansNode'
    BY <1>1, <2>1, <2>4, <2>5 DEF IInv, TokenMeansNode
  <2>7. FlagsArePlaces'
    BY <1>1, <2>1, SameLists
  <2> QED BY <2>2, <2>3, <2>6, <2>7 DEF IInv
<1>2. ASSUME NEW f \in Fifos, os_fifo_init(f)
      PROVE  IInv'
  <2> DEFINE z == [Zeroed EXCEPT !.initialized = TRUE]
  <2>1. z \in Control /\ z.list = <<>> /\ z.count = 0 /\ z.items = 0
    <3>1. Zeroed \in Control
      BY DEF Zeroed, Control
    <3>2. z \in Control
      BY <3>1 DEF Control
    <3>3. z.list = <<>> /\ z.count = 0 /\ z.items = 0
      BY DEF Zeroed
    <3> QED BY <3>2, <3>3
  <2>2. fifo[f].list = <<>> /\ \A t \in Threads : on[t] # f
    BY <1>2 DEF os_fifo_init, IInv, CallsAreTracked
  <2>3. fifo' = [fifo EXCEPT ![f] = z] /\ UNCHANGED <<queued, pc, on, got>>
    BY <1>2 DEF os_fifo_init
  <2> HIDE DEF z
  <2> QED BY <1>1, <2>1, <2>2, <2>3
<1>3. ASSUME NEW f \in Fifos, os_fifo_deinit(f)
      PROVE  IInv'
  <2>1. Zeroed \in Control /\ Zeroed.list = <<>> /\ Zeroed.count = 0 /\ Zeroed.items = 0
    BY DEF Zeroed, Control
  <2>2. /\ fifo[f].list = <<>> /\ \A t \in Threads : on[t] # f
        /\ fifo' = [fifo EXCEPT ![f] = Zeroed] /\ UNCHANGED <<queued, pc, on, got>>
    BY <1>3 DEF os_fifo_deinit, CanDeinit
  <2> QED BY <1>1, <2>1, <2>2
<1>4. ASSUME NEW f \in Fifos, NEW t \in Threads, NEW n \in Nodes, os_fifo_put(t, f, n)
      PROVE  IInv'
  <2> DEFINE q == [initialized |-> fifo[f].initialized, list |-> Append(fifo[f].list, n),
                   count |-> fifo[f].count + 1, items |-> fifo[f].items]
  <2>1. /\ fifo[f].initialized /\ ~queued[n] /\ fifo[f].count < Limit
        /\ Goto(t, f, "idle", "give") /\ queued' = [queued EXCEPT ![n] = TRUE] /\ got' = got
    BY <1>4 DEF os_fifo_put, CanPut
  <2>2. fifo' = [fifo EXCEPT ![f] = q]
    BY <1>0, <1>4 DEF os_fifo_put, Control
  <2>3. /\ fifo[f].list \in Seq(Nodes) /\ fifo[f].count = Len(fifo[f].list)
        /\ fifo[f].count \in Nat /\ fifo[f].items \in Nat
        /\ fifo[f].items + At(f, "unlink") + At(f, "give") = fifo[f].count
    BY QueueFacts
  <2>4. /\ q.list = Append(fifo[f].list, n) /\ q.count = fifo[f].count + 1
        /\ q.items = fifo[f].items /\ q.initialized = fifo[f].initialized
    BY <1>0 DEF Control
  <2>5. Append(fifo[f].list, n) \in Seq(Nodes) /\ Len(Append(fifo[f].list, n)) = Len(fifo[f].list) + 1
    BY <2>3, AppendProperties
  <2>6. q \in Control
    BY <1>0, <2>1, <2>3, <2>5 DEF Control
  <2>7. At(f, "unlink")' = At(f, "unlink") /\ At(f, "give")' = At(f, "give") + 1
    BY <1>0, <2>1, MoveOne
  <2> HIDE DEF q
  <2>8. FlagsArePlaces'
    <3>1. fifo'[f].list = q.list /\ \A g \in Fifos : g # f => fifo'[g].list = fifo[g].list
      BY <1>0, <2>2
    <3> QED BY <2>1, <2>4, <3>1, PutPlaces
  <2>9. q.count = Len(q.list) /\ q.items + At(f, "unlink")' + At(f, "give")' = q.count
    <3>1. At(f, "unlink") \in Nat /\ At(f, "give") \in Nat
      BY <1>0
    <3>2. q.count = Len(q.list)
      BY <2>3, <2>4, <2>5, <2>7
    <3>3. q.items + At(f, "unlink")' + At(f, "give")' = q.count
      <4>0. /\ fifo[f].items \in Nat /\ fifo[f].count \in Nat
            /\ fifo[f].items + At(f, "unlink") + At(f, "give") = fifo[f].count
        BY <2>3
      <4>1. fifo[f].items + At(f, "unlink") + (At(f, "give") + 1) = fifo[f].count + 1
        BY <3>1, <4>0, Balance
      <4> QED BY <2>4, <2>7, <4>1
    <3> QED BY <3>2, <3>3
  <2>10. queued' \in [Nodes -> BOOLEAN] /\ got' \in [Threads -> Nodes \cup {None}]
    BY <1>0, <2>1
  <2> QED BY <2>1, <2>2, <2>4, <2>6, <2>8, <2>9, <2>10, StepInv DEF Steps
<1>5. ASSUME NEW f \in Fifos, NEW t \in Threads, os_fifo_put_give(t, f)
      PROVE  IInv'
  <2> DEFINE q == [initialized |-> fifo[f].initialized, list |-> fifo[f].list,
                   count |-> fifo[f].count, items |-> fifo[f].items + 1]
  <2>1. Goto(t, f, "give", "idle") /\ UNCHANGED <<queued, got>>
    BY <1>5 DEF os_fifo_put_give
  <2>3. /\ At(f, "give") \in Nat \ {0} /\ At(f, "give")' = At(f, "give") - 1
        /\ At(f, "unlink")' = At(f, "unlink")
    BY <1>0, <2>1, MoveOne
  <2>4. /\ fifo[f].count \in Nat /\ fifo[f].items \in Nat /\ fifo[f].count <= Limit
        /\ fifo[f].items + At(f, "unlink") + At(f, "give") = fifo[f].count
        /\ fifo[f].count = Len(fifo[f].list)
    BY QueueFacts
  <2>5. fifo[f].items < Limit
    BY <1>0, <2>3, <2>4
  <2>2. fifo' = [fifo EXCEPT ![f] = q]
    BY <1>0, <1>5, <2>5, SameRecord DEF os_fifo_put_give
  <2>6. /\ q.list = fifo[f].list /\ q.count = fifo[f].count
        /\ q.items = fifo[f].items + 1 /\ q.initialized = fifo[f].initialized
    BY <1>0, <2>5 DEF Control
  <2>7. q \in Control
    BY <1>0, <2>4, <2>5 DEF Control
  <2> HIDE DEF q
  <2>8. FlagsArePlaces'
    BY <1>0, <2>1, <2>2, <2>6, SameLists
  <2>9. q.count = Len(q.list) /\ q.items + At(f, "unlink")' + At(f, "give")' = q.count
    <3>1. At(f, "unlink") \in Nat /\ At(f, "give") \in Nat
      BY <1>0
    <3>2. q.count = Len(q.list)
      BY <2>3, <2>4, <2>6
    <3>3. q.items + At(f, "unlink")' + At(f, "give")' = q.count
      <4>0. /\ fifo[f].items \in Nat /\ fifo[f].count \in Nat
            /\ fifo[f].items + At(f, "unlink") + At(f, "give") = fifo[f].count
        BY <2>4
      <4>1. (fifo[f].items + 1) + At(f, "unlink") + (At(f, "give") - 1) = fifo[f].count
        BY <3>1, <4>0, Balance
      <4> QED BY <2>3, <2>6, <4>1
    <3> QED BY <3>2, <3>3
  <2>10. queued' \in [Nodes -> BOOLEAN] /\ got' \in [Threads -> Nodes \cup {None}]
    BY <1>0, <2>1
  <2> QED BY <2>1, <2>2, <2>6, <2>7, <2>8, <2>9, <2>10, StepInv DEF Steps
<1>6. ASSUME NEW f \in Fifos, NEW t \in Threads,
             os_fifo_get_call(t, f) \/ os_fifo_get_timeout(t, f)
      PROVE  IInv'
  <2>1. /\ UNCHANGED <<fifo, queued, got>>
        /\ \/ fifo[f].initialized /\ Goto(t, f, "idle", "take")
           \/ Goto(t, f, "take", "idle")
    BY <1>6 DEF os_fifo_get_call, os_fifo_get_timeout
  <2>2. fifo' = [fifo EXCEPT ![f] = fifo[f]] /\ fifo[f] \in Control
    BY <1>0, <2>1
  <2>3. At(f, "unlink")' = At(f, "unlink") /\ At(f, "give")' = At(f, "give")
    BY <1>0, <2>1, MoveOne
  <2>4. FlagsArePlaces'
    BY <2>1, SameLists
  <2>5. /\ fifo[f].count = Len(fifo[f].list)
        /\ fifo[f].items + At(f, "unlink")' + At(f, "give")' = fifo[f].count
    BY <2>3, QueueFacts
  <2>6. queued' \in [Nodes -> BOOLEAN] /\ got' \in [Threads -> Nodes \cup {None}]
    BY <1>0, <2>1
  <2>7. CASE fifo[f].initialized /\ Goto(t, f, "idle", "take")
    BY <2>2, <2>4, <2>5, <2>6, <2>7, StepInv DEF Steps
  <2>8. CASE Goto(t, f, "take", "idle")
    BY <2>2, <2>4, <2>5, <2>6, <2>8, StepInv DEF Steps
  <2> QED BY <2>1, <2>7, <2>8
<1>7. ASSUME NEW f \in Fifos, NEW t \in Threads, os_fifo_get_take(t, f)
      PROVE  IInv'
  <2> DEFINE q == [initialized |-> fifo[f].initialized, list |-> fifo[f].list,
                   count |-> fifo[f].count, items |-> fifo[f].items - 1]
  <2>1. Goto(t, f, "take", "unlink") /\ fifo[f].items > 0 /\ UNCHANGED <<queued, got>>
    BY <1>7 DEF os_fifo_get_take
  <2>2. fifo' = [fifo EXCEPT ![f] = q]
    BY <1>0, <1>7, SameRecord DEF os_fifo_get_take
  <2>3. At(f, "unlink")' = At(f, "unlink") + 1 /\ At(f, "give")' = At(f, "give")
    BY <1>0, <2>1, MoveOne
  <2>4. /\ fifo[f].count \in Nat /\ fifo[f].items \in Nat
        /\ fifo[f].items + At(f, "unlink") + At(f, "give") = fifo[f].count
        /\ fifo[f].count = Len(fifo[f].list)
    BY QueueFacts
  <2>5. /\ q.list = fifo[f].list /\ q.count = fifo[f].count
        /\ q.items = fifo[f].items - 1 /\ q.initialized = fifo[f].initialized
    BY <1>0 DEF Control
  <2>6. q \in Control
    BY <1>0, <2>1 DEF Control
  <2> HIDE DEF q
  <2>7. FlagsArePlaces'
    BY <1>0, <2>1, <2>2, <2>5, SameLists
  <2>8. q.count = Len(q.list) /\ q.items + At(f, "unlink")' + At(f, "give")' = q.count
    <3>1. At(f, "unlink") \in Nat /\ At(f, "give") \in Nat
      BY <1>0
    <3>2. q.count = Len(q.list)
      BY <2>3, <2>4, <2>5
    <3>3. q.items + At(f, "unlink")' + At(f, "give")' = q.count
      BY <2>3, <2>4, <2>5, <3>1, Balance
    <3> QED BY <3>2, <3>3
  <2>9. queued' \in [Nodes -> BOOLEAN] /\ got' \in [Threads -> Nodes \cup {None}]
    BY <1>0, <2>1
  <2> QED BY <2>1, <2>2, <2>5, <2>6, <2>7, <2>8, <2>9, StepInv DEF Steps
<1>8. ASSUME NEW f \in Fifos, NEW t \in Threads, os_fifo_get_unlink(t, f)
      PROVE  IInv'
  <2> DEFINE n == Head(fifo[f].list)
  <2> DEFINE q == [initialized |-> fifo[f].initialized, list |-> Tail(fifo[f].list),
                   count |-> fifo[f].count - 1, items |-> fifo[f].items]
  <2>1. Goto(t, f, "unlink", "idle")
    BY <1>8 DEF os_fifo_get_unlink
  <2>2. /\ At(f, "unlink") \in Nat \ {0} /\ At(f, "unlink")' = At(f, "unlink") - 1
        /\ At(f, "give")' = At(f, "give")
    BY <1>0, <2>1, MoveOne
  <2>3. /\ fifo[f].list \in Seq(Nodes) /\ fifo[f].count = Len(fifo[f].list)
        /\ fifo[f].count \in Nat /\ fifo[f].items \in Nat /\ fifo[f].count <= Limit
        /\ fifo[f].items + At(f, "unlink") + At(f, "give") = fifo[f].count
    BY QueueFacts
  <2>4. fifo[f].count > 0 /\ fifo[f].list # <<>>
    BY <1>0, <2>2, <2>3
  <2>5. /\ got' = [got EXCEPT ![t] = n] /\ queued' = [queued EXCEPT ![n] = FALSE]
        /\ fifo' = [fifo EXCEPT ![f] = q]
    BY <1>0, <1>8, <2>4 DEF os_fifo_get_unlink, Control
  <2>6. /\ n \in Nodes /\ Tail(fifo[f].list) \in Seq(Nodes)
        /\ Len(Tail(fifo[f].list)) = Len(fifo[f].list) - 1
    BY <2>3, <2>4, HeadTailProperties
  <2>7. /\ q.list = Tail(fifo[f].list) /\ q.count = fifo[f].count - 1
        /\ q.items = fifo[f].items /\ q.initialized = fifo[f].initialized
    BY <1>0 DEF Control
  <2>8. q \in Control
    BY <1>0, <2>3, <2>4, <2>6 DEF Control
  <2> HIDE DEF q
  <2>9. FlagsArePlaces'
    <3>1. fifo'[f].list = q.list /\ \A g \in Fifos : g # f => fifo'[g].list = fifo[g].list
      BY <1>0, <2>5
    <3> QED BY <2>4, <2>5, <2>7, <3>1, UnlinkPlaces
  <2>10. q.count = Len(q.list) /\ q.items + At(f, "unlink")' + At(f, "give")' = q.count
    <3>1. At(f, "unlink") \in Nat /\ At(f, "give") \in Nat
      BY <1>0
    <3>2. q.count = Len(q.list)
      BY <2>2, <2>3, <2>6, <2>7
    <3>3. q.items + At(f, "unlink")' + At(f, "give")' = q.count
      <4>0. /\ fifo[f].items \in Nat /\ fifo[f].count \in Nat
            /\ fifo[f].items + At(f, "unlink") + At(f, "give") = fifo[f].count
        BY <2>3
      <4>1. fifo[f].items + (At(f, "unlink") - 1) + At(f, "give") = fifo[f].count - 1
        BY <3>1, <4>0, Balance
      <4> QED BY <2>2, <2>7, <4>1
    <3> QED BY <3>2, <3>3
  <2>11. queued' \in [Nodes -> BOOLEAN] /\ got' \in [Threads -> Nodes \cup {None}]
    BY <1>0, <2>5, <2>6
  <2> QED BY <2>1, <2>5, <2>7, <2>8, <2>9, <2>10, <2>11, StepInv DEF Steps
<1>9. CASE UNCHANGED vars
  <2>1. \A f \in Fifos : At(f, "unlink")' = At(f, "unlink") /\ At(f, "give")' = At(f, "give")
    BY <1>9 DEF vars, At
  <2>2. FlagsArePlaces'
    BY <1>9, SameLists DEF vars
  <2> QED BY <1>9, <2>1, <2>2 DEF vars, IInv, TypeOK, CallsAreTracked, TokenMeansNode
<1> QED BY <1>2, <1>3, <1>4, <1>5, <1>6, <1>7, <1>8, <1>9 DEF Next, Step

\* The inductive invariant holds in every reachable state.
LEMMA Invariance == Spec => []IInv
BY InitInv, NextInv, PTL DEF Spec

\* A flagged node has exactly one place on exactly one list, the others none.
LEMMA OnePlace == IInv => NodeOnOneList
<1> SUFFICES ASSUME IInv, NEW n \in Nodes
             PROVE  Cardinality(Places(n)) = IF queued[n] THEN 1 ELSE 0
  BY DEF NodeOnOneList
<1>1. ASSUME NEW f \in Fifos, NEW i \in Nat
      PROVE  Queued(n, f, i) <=> <<f, i>> \in Places(n)
  <2>1. DOMAIN fifo[f].list = 1 .. Len(fifo[f].list) /\ Len(fifo[f].list) <= Limit
        /\ Len(fifo[f].list) \in Nat
    BY QueueFacts
  <2>2. i \in DOMAIN fifo[f].list => i \in 1 .. Limit
    BY <2>1, FifoAssumption
  <2> QED BY <2>2 DEF Queued, Places
<1>2. CASE queued[n]
  <2>1. PICK f \in Fifos, i \in Nat : Queued(n, f, i)
    BY <1>2 DEF IInv, FlagsArePlaces
  <2>2. ASSUME NEW p \in Places(n) PROVE p = <<f, i>>
    <3>1. p \in Fifos \X (1 .. Limit) /\ Queued(n, p[1], p[2])
      BY DEF Places, Queued
    <3>2. p[1] \in Fifos /\ p[2] \in Nat /\ p = <<p[1], p[2]>>
      BY <3>1
    <3>3. p[1] = f /\ p[2] = i
      BY <2>1, <3>1, <3>2 DEF IInv, FlagsArePlaces
    <3> QED BY <3>2, <3>3
  <2>3. Places(n) = {<<f, i>>}
    BY <1>1, <2>1, <2>2
  <2> QED BY <1>2, <2>3, FS_Singleton
<1>3. CASE ~queued[n]
  <2>1. Places(n) = {}
    <3>1. ASSUME NEW p \in Places(n) PROVE FALSE
      <4>1. p \in Fifos \X (1 .. Limit) /\ Queued(n, p[1], p[2])
        BY DEF Places, Queued
      <4>2. p[1] \in Fifos /\ p[2] \in Nat
        BY <4>1
      <4> QED BY <1>3, <4>1, <4>2 DEF IInv, FlagsArePlaces
    <3> QED BY <3>1
  <2> QED BY <1>3, <2>1, FS_EmptySet
<1> QED BY <1>2, <1>3

\* Types: neither the count nor the tokens of a queue leave 0 .. Limit, so no
\* put makes the uint16_t counters wrap.
THEOREM TypeCorrect == Spec => []TypeOK
BY Invariance, PTL DEF IInv

\* A get that has taken a token finds a node on the list: -EAGAIN in
\* os_fifo_get is dead code, and no token of a put is ever lost.
THEOREM TokensAreNodes == Spec => []TokenMeansNode
BY Invariance, PTL DEF IInv

\* node->queued keeps every node on at most one place of at most one queue,
\* whichever queues and threads compete for it.
THEOREM NodesAreLinkedOnce == Spec => []NodeOnOneList
BY Invariance, OnePlace, PTL
=============================================================================
