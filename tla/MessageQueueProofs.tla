------------------------ MODULE MessageQueueProofs -------------------------
(***************************************************************************)
(* Proofs about os_msgq for any number of threads, any set of messages and *)
(* any capacity.                                                           *)
(***************************************************************************)
EXTENDS MessageQueue, FiniteSetTheorems, SequenceTheorems, TLAPS

\* Outside a call no message is being passed; before os_msgq_init and after
\* os_msgq_deinit nobody is inside a call and the counters are zero.
CallsAreTracked ==
    /\ ~initialized => /\ \A t \in Threads : pc[t] = "idle"
                       /\ count = 0
    /\ \A t \in Threads : pc[t] \in {"put_take", "put_copy"} => arg[t] \in Messages

\* The inductive invariant.
IInv == TypeOK /\ TokensAccountForSlots /\ CallsAreTracked

\* Moving one thread from one step to another moves one unit between the two
\* head counts and leaves every other head count alone.
LEMMA MoveOne ==
    ASSUME NEW t \in Threads, NEW from, NEW to, from # to,
           pc \in [Threads -> Steps], Goto(t, from, to)
    PROVE  /\ At(from) \in Nat \ {0}
           /\ At(from)' = At(from) - 1
           /\ At(to)' = At(to) + 1
           /\ \A s : At(s) \in Nat
           /\ \A s : s \notin {from, to} => At(s)' = At(s)
<1> DEFINE S(s) == {u \in Threads : pc[u] = s}
<1> DEFINE S2(s) == {u \in Threads : pc'[u] = s}
<1>1. \A s : IsFiniteSet(S(s))
  <2>1. ASSUME NEW s PROVE IsFiniteSet(S(s))
    <3>1. S(s) \subseteq Threads
      OBVIOUS
    <3> QED BY <3>1, ThreadsAssumption, FS_Subset
  <2> QED BY <2>1
<1>2. S2(from) = S(from) \ {t} /\ t \in S(from)
  BY DEF Goto
<1>3. S2(to) = S(to) \cup {t} /\ t \notin S(to)
  BY DEF Goto
<1>4. \A s : s \notin {from, to} => S2(s) = S(s)
  BY DEF Goto
<1>5. \A s : Cardinality(S(s)) \in Nat
  BY <1>1, FS_CardinalityType
<1>6. Cardinality(S2(to)) = Cardinality(S(to)) + 1
  <2>1. IsFiniteSet(S(to)) BY <1>1
  <2> HIDE DEF S, S2
  <2> QED BY <1>3, <2>1, FS_AddElement
<1>7. Cardinality(S2(from)) = Cardinality(S(from)) - 1
  <2>1. IsFiniteSet(S(from)) BY <1>1
  <2> HIDE DEF S, S2
  <2> QED BY <1>2, <2>1, FS_RemoveElement
<1>8. Cardinality(S(from)) # 0
  <2>1. IsFiniteSet(S(from)) BY <1>1
  <2> HIDE DEF S, S2
  <2> QED BY <1>2, <2>1, FS_EmptySet
<1>9. \A s : At(s) = Cardinality(S(s)) /\ At(s)' = Cardinality(S2(s))
  BY DEF At
<1> HIDE DEF S, S2
<1> QED BY <1>4, <1>5, <1>6, <1>7, <1>8, <1>9

\* A step some thread is about to perform has a positive head count.
LEMMA HeadCount ==
    ASSUME NEW s
    PROVE  /\ At(s) \in Nat
           /\ (\A t \in Threads : pc[t] # s) => At(s) = 0
           /\ (\E t \in Threads : pc[t] = s) => At(s) > 0
<1> DEFINE S == {u \in Threads : pc[u] = s}
<1>1. IsFiniteSet(S)
  <2>1. S \subseteq Threads
    OBVIOUS
  <2> QED BY <2>1, ThreadsAssumption, FS_Subset
<1>2. Cardinality(S) \in Nat
  BY <1>1, FS_CardinalityType
<1>3. (\A t \in Threads : pc[t] # s) <=> S = {}
  OBVIOUS
<1>4. S = {} <=> Cardinality(S) = 0
  BY <1>1, FS_EmptySet
<1>5. At(s) = Cardinality(S)
  BY DEF At
<1> HIDE DEF S
<1> QED BY <1>2, <1>3, <1>4, <1>5

\* The ring index advances by one and wraps.
LEMMA NextIndex ==
    ASSUME NEW i \in Slots
    PROVE  /\ next_index(i) \in Slots
           /\ next_index(i) = IF i + 1 = Capacity THEN 0 ELSE i + 1
<1> USE CapacityAssumption DEF Slots, next_index
<1>1. CASE i + 1 = Capacity
  <2>1. (i + 1) % Capacity = 0
    BY <1>1
  <2> QED BY <1>1, <2>1
<1>2. CASE i + 1 # Capacity
  <2>1. i + 1 \in 0 .. Capacity - 1
    BY <1>2
  <2>2. (i + 1) % Capacity = i + 1
    BY <2>1
  <2> QED BY <1>2, <2>1, <2>2
<1> QED BY <1>1, <1>2
-----------------------------------------------------------------------------
\* The zeroed control block that os_msgq_init starts from satisfies the
\* inductive invariant.
LEMMA InitInv == Init => IInv
<1> SUFFICES ASSUME Init PROVE IInv
  OBVIOUS
<1> USE CapacityAssumption, NoMessageAssumption
<1>0. initialized \in BOOLEAN
  BY Zenon DEF Init
<1>1. TypeOK
  BY <1>0 DEF Init, TypeOK, Slots, Steps
<1>2. TokensAccountForSlots /\ CallsAreTracked
  BY DEF Init, TokensAccountForSlots, CallsAreTracked
<1> QED BY <1>1, <1>2 DEF IInv

\* A thread inside a call finds the queue initialized.
LEMMA BusyMeansInitialized ==
    ASSUME IInv, NEW t \in Threads, pc[t] # "idle"
    PROVE  initialized
BY DEF IInv, CallsAreTracked

\* Every step of put, get, init and deinit preserves the inductive invariant.
LEMMA NextInv == IInv /\ [Next]_vars => IInv'
<1> SUFFICES ASSUME IInv, [Next]_vars PROVE IInv'
  OBVIOUS
<1> USE CapacityAssumption, NoMessageAssumption
<1>0. \A s : At(s) \in Nat
  BY HeadCount
<1>1. CASE os_msgq_init
  <2>1. ~initialized /\ pc' = pc /\ \A t \in Threads : pc'[t] = "idle"
    BY <1>1 DEF os_msgq_init, IInv, CallsAreTracked
  <2>2. \A s : s # "idle" => At(s)' = 0
    <3>1. ASSUME NEW s, s # "idle" PROVE At(s)' = 0
      <4>1. {u \in Threads : pc'[u] = s} = {}
        BY <2>1, <3>1
      <4> QED BY <4>1, FS_EmptySet DEF At
    <3> QED BY <3>1
  <2>3. TypeOK'
    BY <1>1 DEF os_msgq_init, IInv, TypeOK, Slots
  <2>4. TokensAccountForSlots'
    BY <1>1, <2>2 DEF os_msgq_init, TokensAccountForSlots
  <2>5. CallsAreTracked'
    BY <1>1, <2>1 DEF os_msgq_init, IInv, CallsAreTracked
  <2> QED BY <2>3, <2>4, <2>5 DEF IInv
<1>2. CASE os_msgq_deinit
  <2>0. initialized' \in BOOLEAN
    BY <1>2, Zenon DEF os_msgq_deinit
  <2>1. TypeOK'
    BY <1>2, <2>0 DEF os_msgq_deinit, IInv, TypeOK, Slots
  <2>2. TokensAccountForSlots' /\ CallsAreTracked'
    BY <1>2 DEF os_msgq_deinit, IInv, TokensAccountForSlots, CallsAreTracked
  <2> QED BY <2>1, <2>2 DEF IInv
<1>3. ASSUME NEW t \in Threads, NEW m \in Messages, os_msgq_put_call(t, m)
      PROVE  IInv'
  <2>1. initialized /\ initialized' = initialized
    BY <1>3, BusyMeansInitialized DEF os_msgq_put_call, Goto
  <2>2. pc[t] = "idle" /\ pc' = [pc EXCEPT ![t] = "put_take"] /\ Goto(t, "idle", "put_take")
    BY <1>3 DEF os_msgq_put_call, Goto
  <2>3. /\ At("idle") \in Nat \ {0} /\ At("idle")' = At("idle") - 1
        /\ At("put_take")' = At("put_take") + 1
        /\ \A s : s \notin {"idle", "put_take"} => At(s)' = At(s)
    BY <2>2, MoveOne, "idle" # "put_take" DEF IInv, TypeOK
  <2>4. TokensAccountForSlots /\ TypeOK
    BY DEF IInv
  <2>5. TokensAccountForSlots' /\ count' \in 0 .. Capacity
        /\ items' \in 0 .. Capacity /\ spaces' \in 0 .. Capacity
    BY <1>3, <1>0, <2>1, <2>3, <2>4 DEF os_msgq_put_call, TokensAccountForSlots, TypeOK, os_sem_give
  <2>6. TypeOK'
    BY <1>3, <2>1, <2>2, <2>4, <2>5, NextIndex DEF os_msgq_put_call, TypeOK, Steps
  <2>7. CallsAreTracked'
    BY <1>3, <2>1, <2>2, <2>4 DEF os_msgq_put_call, IInv, CallsAreTracked, TypeOK
  <2> QED BY <2>5, <2>6, <2>7 DEF IInv
<1>4. ASSUME NEW t \in Threads, os_msgq_put_take(t)
      PROVE  IInv'
  <2>1. initialized /\ initialized' = initialized
    BY <1>4, BusyMeansInitialized DEF os_msgq_put_take, Goto
  <2>2. pc[t] = "put_take" /\ pc' = [pc EXCEPT ![t] = "put_copy"] /\ Goto(t, "put_take", "put_copy")
    BY <1>4 DEF os_msgq_put_take, Goto
  <2>3. /\ At("put_take") \in Nat \ {0} /\ At("put_take")' = At("put_take") - 1
        /\ At("put_copy")' = At("put_copy") + 1
        /\ \A s : s \notin {"put_take", "put_copy"} => At(s)' = At(s)
    BY <2>2, MoveOne, "put_take" # "put_copy" DEF IInv, TypeOK
  <2>4. TokensAccountForSlots /\ TypeOK
    BY DEF IInv
  <2>5. TokensAccountForSlots' /\ count' \in 0 .. Capacity
        /\ items' \in 0 .. Capacity /\ spaces' \in 0 .. Capacity
    BY <1>4, <1>0, <2>1, <2>3, <2>4 DEF os_msgq_put_take, TokensAccountForSlots, TypeOK, os_sem_give
  <2>6. TypeOK'
    BY <1>4, <2>1, <2>2, <2>4, <2>5, NextIndex DEF os_msgq_put_take, TypeOK, Steps
  <2>7. CallsAreTracked'
    BY <1>4, <2>1, <2>2, <2>4 DEF os_msgq_put_take, IInv, CallsAreTracked, TypeOK
  <2> QED BY <2>5, <2>6, <2>7 DEF IInv
<1>5. ASSUME NEW t \in Threads, os_msgq_put_timeout(t)
      PROVE  IInv'
  <2>1. initialized /\ initialized' = initialized
    BY <1>5, BusyMeansInitialized DEF os_msgq_put_timeout, Goto
  <2>2. pc[t] = "put_take" /\ pc' = [pc EXCEPT ![t] = "idle"] /\ Goto(t, "put_take", "idle")
    BY <1>5 DEF os_msgq_put_timeout, Goto
  <2>3. /\ At("put_take") \in Nat \ {0} /\ At("put_take")' = At("put_take") - 1
        /\ At("idle")' = At("idle") + 1
        /\ \A s : s \notin {"put_take", "idle"} => At(s)' = At(s)
    BY <2>2, MoveOne, "put_take" # "idle" DEF IInv, TypeOK
  <2>4. TokensAccountForSlots /\ TypeOK
    BY DEF IInv
  <2>5. TokensAccountForSlots' /\ count' \in 0 .. Capacity
        /\ items' \in 0 .. Capacity /\ spaces' \in 0 .. Capacity
    BY <1>5, <1>0, <2>1, <2>3, <2>4 DEF os_msgq_put_timeout, TokensAccountForSlots, TypeOK, os_sem_give
  <2>6. TypeOK'
    BY <1>5, <2>1, <2>2, <2>4, <2>5, NextIndex DEF os_msgq_put_timeout, TypeOK, Steps
  <2>7. CallsAreTracked'
    BY <1>5, <2>1, <2>2, <2>4 DEF os_msgq_put_timeout, IInv, CallsAreTracked, TypeOK
  <2> QED BY <2>5, <2>6, <2>7 DEF IInv
<1>6. ASSUME NEW t \in Threads, os_msgq_put_copy(t)
      PROVE  IInv'
  <2>1. initialized /\ initialized' = initialized
    BY <1>6, BusyMeansInitialized DEF os_msgq_put_copy, Goto
  <2>2. pc[t] = "put_copy" /\ pc' = [pc EXCEPT ![t] = "put_give"] /\ Goto(t, "put_copy", "put_give")
    BY <1>6 DEF os_msgq_put_copy, Goto
  <2>3. /\ At("put_copy") \in Nat \ {0} /\ At("put_copy")' = At("put_copy") - 1
        /\ At("put_give")' = At("put_give") + 1
        /\ \A s : s \notin {"put_copy", "put_give"} => At(s)' = At(s)
    BY <2>2, MoveOne, "put_copy" # "put_give" DEF IInv, TypeOK
  <2>4. TokensAccountForSlots /\ TypeOK
    BY DEF IInv
  <2>5. TokensAccountForSlots' /\ count' \in 0 .. Capacity
        /\ items' \in 0 .. Capacity /\ spaces' \in 0 .. Capacity
    BY <1>6, <1>0, <2>1, <2>3, <2>4 DEF os_msgq_put_copy, TokensAccountForSlots, TypeOK, os_sem_give
  <2>6. TypeOK'
    BY <1>6, <2>1, <2>2, <2>4, <2>5, NextIndex DEF os_msgq_put_copy, TypeOK, Steps
  <2>7. CallsAreTracked'
    BY <1>6, <2>1, <2>2, <2>4 DEF os_msgq_put_copy, IInv, CallsAreTracked, TypeOK
  <2> QED BY <2>5, <2>6, <2>7 DEF IInv
<1>7. ASSUME NEW t \in Threads, os_msgq_put_give(t)
      PROVE  IInv'
  <2>1. initialized /\ initialized' = initialized
    BY <1>7, BusyMeansInitialized DEF os_msgq_put_give, Goto
  <2>2. pc[t] = "put_give" /\ pc' = [pc EXCEPT ![t] = "idle"] /\ Goto(t, "put_give", "idle")
    BY <1>7 DEF os_msgq_put_give, Goto
  <2>3. /\ At("put_give") \in Nat \ {0} /\ At("put_give")' = At("put_give") - 1
        /\ At("idle")' = At("idle") + 1
        /\ \A s : s \notin {"put_give", "idle"} => At(s)' = At(s)
    BY <2>2, MoveOne, "put_give" # "idle" DEF IInv, TypeOK
  <2>4. TokensAccountForSlots /\ TypeOK
    BY DEF IInv
  <2>5. TokensAccountForSlots' /\ count' \in 0 .. Capacity
        /\ items' \in 0 .. Capacity /\ spaces' \in 0 .. Capacity
    <3>0. items + At("get_copy") + At("put_give") = count /\ At("get_copy") \in Nat
      BY <1>0, <2>1, <2>4 DEF TokensAccountForSlots
    <3>1. items < Capacity
      BY <2>3, <2>4, <3>0 DEF TypeOK
    <3>. items' = items + 1
      BY <1>7, <3>1 DEF os_msgq_put_give, os_sem_give
    <3>2. spaces' = spaces /\ count' = count
      BY <1>7 DEF os_msgq_put_give
    <3> QED BY <1>0, <2>1, <2>3, <2>4, <3>1, <3>2 DEF TokensAccountForSlots, TypeOK
  <2>6. TypeOK'
    BY <1>7, <2>1, <2>2, <2>4, <2>5, NextIndex DEF os_msgq_put_give, TypeOK, Steps
  <2>7. CallsAreTracked'
    BY <1>7, <2>1, <2>2, <2>4 DEF os_msgq_put_give, IInv, CallsAreTracked, TypeOK
  <2> QED BY <2>5, <2>6, <2>7 DEF IInv
<1>8. ASSUME NEW t \in Threads, os_msgq_get_call(t)
      PROVE  IInv'
  <2>1. initialized /\ initialized' = initialized
    BY <1>8, BusyMeansInitialized DEF os_msgq_get_call, Goto
  <2>2. pc[t] = "idle" /\ pc' = [pc EXCEPT ![t] = "get_take"] /\ Goto(t, "idle", "get_take")
    BY <1>8 DEF os_msgq_get_call, Goto
  <2>3. /\ At("idle") \in Nat \ {0} /\ At("idle")' = At("idle") - 1
        /\ At("get_take")' = At("get_take") + 1
        /\ \A s : s \notin {"idle", "get_take"} => At(s)' = At(s)
    BY <2>2, MoveOne, "idle" # "get_take" DEF IInv, TypeOK
  <2>4. TokensAccountForSlots /\ TypeOK
    BY DEF IInv
  <2>5. TokensAccountForSlots' /\ count' \in 0 .. Capacity
        /\ items' \in 0 .. Capacity /\ spaces' \in 0 .. Capacity
    BY <1>8, <1>0, <2>1, <2>3, <2>4 DEF os_msgq_get_call, TokensAccountForSlots, TypeOK, os_sem_give
  <2>6. TypeOK'
    BY <1>8, <2>1, <2>2, <2>4, <2>5, NextIndex DEF os_msgq_get_call, TypeOK, Steps
  <2>7. CallsAreTracked'
    BY <1>8, <2>1, <2>2, <2>4 DEF os_msgq_get_call, IInv, CallsAreTracked, TypeOK
  <2> QED BY <2>5, <2>6, <2>7 DEF IInv
<1>9. ASSUME NEW t \in Threads, os_msgq_get_take(t)
      PROVE  IInv'
  <2>1. initialized /\ initialized' = initialized
    BY <1>9, BusyMeansInitialized DEF os_msgq_get_take, Goto
  <2>2. pc[t] = "get_take" /\ pc' = [pc EXCEPT ![t] = "get_copy"] /\ Goto(t, "get_take", "get_copy")
    BY <1>9 DEF os_msgq_get_take, Goto
  <2>3. /\ At("get_take") \in Nat \ {0} /\ At("get_take")' = At("get_take") - 1
        /\ At("get_copy")' = At("get_copy") + 1
        /\ \A s : s \notin {"get_take", "get_copy"} => At(s)' = At(s)
    BY <2>2, MoveOne, "get_take" # "get_copy" DEF IInv, TypeOK
  <2>4. TokensAccountForSlots /\ TypeOK
    BY DEF IInv
  <2>5. TokensAccountForSlots' /\ count' \in 0 .. Capacity
        /\ items' \in 0 .. Capacity /\ spaces' \in 0 .. Capacity
    BY <1>9, <1>0, <2>1, <2>3, <2>4 DEF os_msgq_get_take, TokensAccountForSlots, TypeOK, os_sem_give
  <2>6. TypeOK'
    BY <1>9, <2>1, <2>2, <2>4, <2>5, NextIndex DEF os_msgq_get_take, TypeOK, Steps
  <2>7. CallsAreTracked'
    BY <1>9, <2>1, <2>2, <2>4 DEF os_msgq_get_take, IInv, CallsAreTracked, TypeOK
  <2> QED BY <2>5, <2>6, <2>7 DEF IInv
<1>10. ASSUME NEW t \in Threads, os_msgq_get_timeout(t)
      PROVE  IInv'
  <2>1. initialized /\ initialized' = initialized
    BY <1>10, BusyMeansInitialized DEF os_msgq_get_timeout, Goto
  <2>2. pc[t] = "get_take" /\ pc' = [pc EXCEPT ![t] = "idle"] /\ Goto(t, "get_take", "idle")
    BY <1>10 DEF os_msgq_get_timeout, Goto
  <2>3. /\ At("get_take") \in Nat \ {0} /\ At("get_take")' = At("get_take") - 1
        /\ At("idle")' = At("idle") + 1
        /\ \A s : s \notin {"get_take", "idle"} => At(s)' = At(s)
    BY <2>2, MoveOne, "get_take" # "idle" DEF IInv, TypeOK
  <2>4. TokensAccountForSlots /\ TypeOK
    BY DEF IInv
  <2>5. TokensAccountForSlots' /\ count' \in 0 .. Capacity
        /\ items' \in 0 .. Capacity /\ spaces' \in 0 .. Capacity
    BY <1>10, <1>0, <2>1, <2>3, <2>4 DEF os_msgq_get_timeout, TokensAccountForSlots, TypeOK, os_sem_give
  <2>6. TypeOK'
    BY <1>10, <2>1, <2>2, <2>4, <2>5, NextIndex DEF os_msgq_get_timeout, TypeOK, Steps
  <2>7. CallsAreTracked'
    BY <1>10, <2>1, <2>2, <2>4 DEF os_msgq_get_timeout, IInv, CallsAreTracked, TypeOK
  <2> QED BY <2>5, <2>6, <2>7 DEF IInv
<1>11. ASSUME NEW t \in Threads, os_msgq_get_copy(t)
      PROVE  IInv'
  <2>1. initialized /\ initialized' = initialized
    BY <1>11, BusyMeansInitialized DEF os_msgq_get_copy, Goto
  <2>2. pc[t] = "get_copy" /\ pc' = [pc EXCEPT ![t] = "get_give"] /\ Goto(t, "get_copy", "get_give")
    BY <1>11 DEF os_msgq_get_copy, Goto
  <2>3. /\ At("get_copy") \in Nat \ {0} /\ At("get_copy")' = At("get_copy") - 1
        /\ At("get_give")' = At("get_give") + 1
        /\ \A s : s \notin {"get_copy", "get_give"} => At(s)' = At(s)
    BY <2>2, MoveOne, "get_copy" # "get_give" DEF IInv, TypeOK
  <2>4. TokensAccountForSlots /\ TypeOK
    BY DEF IInv
  <2>5. TokensAccountForSlots' /\ count' \in 0 .. Capacity
        /\ items' \in 0 .. Capacity /\ spaces' \in 0 .. Capacity
    BY <1>11, <1>0, <2>1, <2>3, <2>4 DEF os_msgq_get_copy, TokensAccountForSlots, TypeOK, os_sem_give
  <2>6. TypeOK'
    BY <1>11, <2>1, <2>2, <2>4, <2>5, NextIndex DEF os_msgq_get_copy, TypeOK, Steps
  <2>7. CallsAreTracked'
    BY <1>11, <2>1, <2>2, <2>4 DEF os_msgq_get_copy, IInv, CallsAreTracked, TypeOK
  <2> QED BY <2>5, <2>6, <2>7 DEF IInv
<1>12. ASSUME NEW t \in Threads, os_msgq_get_give(t)
      PROVE  IInv'
  <2>1. initialized /\ initialized' = initialized
    BY <1>12, BusyMeansInitialized DEF os_msgq_get_give, Goto
  <2>2. pc[t] = "get_give" /\ pc' = [pc EXCEPT ![t] = "idle"] /\ Goto(t, "get_give", "idle")
    BY <1>12 DEF os_msgq_get_give, Goto
  <2>3. /\ At("get_give") \in Nat \ {0} /\ At("get_give")' = At("get_give") - 1
        /\ At("idle")' = At("idle") + 1
        /\ \A s : s \notin {"get_give", "idle"} => At(s)' = At(s)
    BY <2>2, MoveOne, "get_give" # "idle" DEF IInv, TypeOK
  <2>4. TokensAccountForSlots /\ TypeOK
    BY DEF IInv
  <2>5. TokensAccountForSlots' /\ count' \in 0 .. Capacity
        /\ items' \in 0 .. Capacity /\ spaces' \in 0 .. Capacity
    BY <1>12, <1>0, <2>1, <2>3, <2>4 DEF os_msgq_get_give, TokensAccountForSlots, TypeOK, os_sem_give
  <2>6. TypeOK'
    BY <1>12, <2>1, <2>2, <2>4, <2>5, NextIndex DEF os_msgq_get_give, TypeOK, Steps
  <2>7. CallsAreTracked'
    BY <1>12, <2>1, <2>2, <2>4 DEF os_msgq_get_give, IInv, CallsAreTracked, TypeOK
  <2> QED BY <2>5, <2>6, <2>7 DEF IInv
<1>13. CASE UNCHANGED vars
  BY <1>13 DEF vars, IInv, TypeOK, TokensAccountForSlots, CallsAreTracked, At
<1> QED BY <1>1, <1>2, <1>3, <1>4, <1>5, <1>6, <1>7, <1>8, <1>9, <1>10, <1>11, <1>12, <1>13 DEF Next, Put, Get

(***************************************************************************)
(* Every reachable state satisfies the inductive invariant: indices, count *)
(* and token counts stay within the capacity (os_sem_give never saturates),*)
(* and the tokens account for the slots.                                   *)
(***************************************************************************)
THEOREM Invariance == Spec => []IInv
<1>1. IInv /\ [Next]_vars => IInv'
  BY NextInv
<1> QED BY InitInv, <1>1, PTL DEF Spec

(***************************************************************************)
(* For every capacity and number of threads the types and bounds hold.     *)
(***************************************************************************)
THEOREM TypeCorrect == Spec => []TypeOK
<1>1. IInv => TypeOK
  BY DEF IInv
<1> QED BY Invariance, <1>1, PTL

(***************************************************************************)
(* No slot is lost or counted twice by calls suspended between their       *)
(* semaphore operations and their copy.                                    *)
(***************************************************************************)
THEOREM SlotsAccounted == Spec => []TokensAccountForSlots
<1>1. IInv => TokensAccountForSlots
  BY DEF IInv
<1> QED BY Invariance, <1>1, PTL

\* The accounting is what makes the unchecked copies safe.
LEMMA AccountingIsSafe == IInv => CopiesAreSafe
<1> SUFFICES ASSUME IInv, NEW t \in Threads
             PROVE  /\ pc[t] = "put_copy" => count < Capacity
                    /\ pc[t] = "get_copy" => count > 0
  BY DEF CopiesAreSafe
<1>1. \A s : At(s) \in Nat
  BY HeadCount
<1>2. \A s : pc[t] = s => At(s) > 0
  BY HeadCount
<1>3. pc[t] # "idle" => initialized
  BY BusyMeansInitialized
<1> QED BY <1>1, <1>2, <1>3, CapacityAssumption DEF IInv, TypeOK, TokensAccountForSlots

(***************************************************************************)
(* os_msgq_put never overwrites an unread message and os_msgq_get never    *)
(* copies an empty slot, although neither tests `count'.                   *)
(***************************************************************************)
THEOREM SafeCopies == Spec => []CopiesAreSafe
BY Invariance, AccountingIsSafe, PTL
-----------------------------------------------------------------------------
\* The queued messages occupy the slots from read_index up to write_index.
RingIsContiguous == write_index = Slot(count)

\* The empty ring of a zeroed control block is contiguous.
LEMMA RingInit == Init => RingIsContiguous
BY CapacityAssumption DEF Init, RingIsContiguous, Slot

\* The copies of put and get advance the two indices so that the queued
\* messages stay contiguous modulo the capacity.
LEMMA RingNext == IInv /\ RingIsContiguous /\ [Next]_vars => RingIsContiguous'
<1> SUFFICES ASSUME IInv, RingIsContiguous, [Next]_vars PROVE RingIsContiguous'
  OBVIOUS
<1> USE CapacityAssumption
<1>1. /\ read_index \in Slots /\ write_index \in Slots /\ count \in 0 .. Capacity
      /\ next_index(read_index) = IF read_index + 1 = Capacity THEN 0 ELSE read_index + 1
      /\ next_index(write_index) = IF write_index + 1 = Capacity THEN 0 ELSE write_index + 1
  BY NextIndex DEF IInv, TypeOK
<1>2. CopiesAreSafe
  BY AccountingIsSafe
<1>3. ASSUME NEW t \in Threads, os_msgq_put_copy(t)
      PROVE  RingIsContiguous'
  <2>1. /\ count < Capacity /\ count' = count + 1
        /\ write_index' = next_index(write_index) /\ read_index' = read_index
    BY <1>2, <1>3 DEF CopiesAreSafe, os_msgq_put_copy, Goto
  <2> QED BY <1>1, <2>1 DEF RingIsContiguous, Slot, Slots
<1>4. ASSUME NEW t \in Threads, os_msgq_get_copy(t)
      PROVE  RingIsContiguous'
  <2>1. /\ count > 0 /\ count' = count - 1
        /\ read_index' = next_index(read_index) /\ write_index' = write_index
    BY <1>2, <1>4 DEF CopiesAreSafe, os_msgq_get_copy, Goto
  <2> QED BY <1>1, <2>1 DEF RingIsContiguous, Slot, Slots
<1>5. CASE os_msgq_init \/ os_msgq_deinit
  BY <1>5 DEF os_msgq_init, os_msgq_deinit, RingIsContiguous, Slot
<1>6. CASE UNCHANGED <<read_index, write_index, count>>
  BY <1>6 DEF RingIsContiguous, Slot
<1>7. \/ os_msgq_init \/ os_msgq_deinit
      \/ \E t \in Threads : os_msgq_put_copy(t) \/ os_msgq_get_copy(t)
      \/ UNCHANGED <<read_index, write_index, count>>
  BY DEF Next, Put, Get, vars, os_msgq_put_call, os_msgq_put_take,
         os_msgq_put_timeout, os_msgq_put_give, os_msgq_get_call,
         os_msgq_get_take, os_msgq_get_timeout, os_msgq_get_give
<1> QED BY <1>3, <1>4, <1>5, <1>6, <1>7

\* What a slot of the ring may hold.
Content == Messages \cup {NoMessage}

\* The queued messages form a sequence of length `count'.
LEMMA QueuedSeq ==
    ASSUME IInv
    PROVE  /\ Queued \in Seq(Content) /\ Len(Queued) = count
           /\ \A i \in 1 .. count : Queued[i] = buffer[Slot(i - 1)]
<1>1. /\ count \in 0 .. Capacity /\ read_index \in Slots
      /\ buffer \in [Slots -> Content]
  BY DEF IInv, TypeOK, Content
<1>2. \A i \in 1 .. count : Slot(i - 1) \in Slots
  BY <1>1, CapacityAssumption DEF Slot, Slots
<1>3. \A i \in 1 .. count : buffer[Slot(i - 1)] \in Content
  BY <1>1, <1>2
<1> QED BY <1>1, <1>3, CapacityAssumption DEF Queued

\* What the critical section of a put does to the queued messages.
LEMMA PutAppends ==
    ASSUME IInv, RingIsContiguous, NEW t \in Threads, os_msgq_put_copy(t)
    PROVE  Channel!Send
<1> USE CapacityAssumption
<1>1. /\ count < Capacity /\ count \in Nat /\ read_index \in Slots
      /\ arg[t] \in Messages /\ buffer \in [Slots -> Messages \cup {NoMessage}]
  BY AccountingIsSafe DEF CopiesAreSafe, os_msgq_put_copy, Goto, IInv, TypeOK, CallsAreTracked
<1>2. /\ buffer' = [buffer EXCEPT ![write_index] = arg[t]]
      /\ count' = count + 1 /\ read_index' = read_index /\ received' = received
  BY DEF os_msgq_put_copy
<1>3. \A i \in 0 .. count : Slot(i) \in Slots /\ Slot(i)' = Slot(i)
  BY <1>1, <1>2 DEF Slot, Slots
<1>4. \A i \in 0 .. count - 1 : Slot(i) # write_index
  BY <1>1 DEF Slot, Slots, RingIsContiguous
<1>5. \A i \in 1 .. count + 1 :
         buffer'[Slot(i - 1)'] = IF i = count + 1 THEN arg[t] ELSE buffer[Slot(i - 1)]
  <2> TAKE i \in 1 .. count + 1
  <2>1. CASE i = count + 1
    <3>1. i - 1 = count /\ Slot(i - 1)' = write_index /\ write_index \in Slots
      BY <1>1, <1>3, <2>1 DEF RingIsContiguous
    <3> QED BY <1>1, <1>2, <2>1, <3>1
  <2>2. CASE i # count + 1
    <3>1. i - 1 \in 0 .. count - 1
      BY <1>1, <2>2
    <3>2. Slot(i - 1) # write_index /\ Slot(i - 1) \in Slots /\ Slot(i - 1)' = Slot(i - 1)
      BY <1>1, <1>3, <1>4, <3>1
    <3> QED BY <1>1, <1>2, <2>2, <3>2
  <2> QED BY <2>1, <2>2
<1>6. /\ Queued \in Seq(Content) /\ Len(Queued) = count
      /\ \A i \in 1 .. count : Queued[i] = buffer[Slot(i - 1)]
  BY <1>1, QueuedSeq
<1>7. /\ Queued' \in Seq(Content) /\ Len(Queued') = count + 1
      /\ \A i \in 1 .. count + 1 : Queued'[i] = buffer'[Slot(i - 1)']
  <2>1. \A i \in 1 .. count + 1 : buffer'[Slot(i - 1)'] \in Content
    <3> TAKE i \in 1 .. count + 1
    <3>1. i # count + 1 => Slot(i - 1) \in Slots
      BY <1>1, <1>3
    <3> QED BY <1>1, <1>5, <3>1 DEF Content
  <2>2. Queued' = [i \in 1 .. count + 1 |-> buffer'[Slot(i - 1)']]
    BY <1>2 DEF Queued
  <2> QED BY <1>1, <2>1, <2>2
<1>8. Queued' = Append(Queued, arg[t])
  <2>1. /\ Append(Queued, arg[t]) \in Seq(Content)
        /\ Len(Append(Queued, arg[t])) = count + 1
        /\ \A i \in 1 .. count + 1 :
              Append(Queued, arg[t])[i] = IF i = count + 1 THEN arg[t] ELSE Queued[i]
    BY <1>1, <1>6, AppendProperties DEF Content
  <2>2. \A i \in 1 .. count + 1 : Queued'[i] = Append(Queued, arg[t])[i]
    BY <1>1, <1>5, <1>6, <1>7, <2>1
  <2> QED BY <1>7, <2>1, <2>2, SeqEqual
<1> QED BY <1>1, <1>2, <1>6, <1>8 DEF Channel!Send

\* What the critical section of a get does to the queued messages.
LEMMA GetRemoves ==
    ASSUME IInv, NEW t \in Threads, os_msgq_get_copy(t)
    PROVE  Channel!Receive(t)
<1> USE CapacityAssumption
<1>1. /\ count \in 1 .. Capacity /\ read_index \in Slots
      /\ buffer \in [Slots -> Content]
  BY AccountingIsSafe DEF CopiesAreSafe, os_msgq_get_copy, Goto, IInv, TypeOK, Content
<1>2. /\ received' = [received EXCEPT ![t] = buffer[read_index]]
      /\ count' = count - 1 /\ buffer' = buffer
      /\ read_index' = IF read_index + 1 = Capacity THEN 0 ELSE read_index + 1
  BY <1>1, NextIndex DEF os_msgq_get_copy
<1>3. /\ \A i \in 0 .. count - 1 : Slot(i) \in Slots
      /\ \A i \in 1 .. count - 1 : Slot(i - 1)' = Slot(i)
      /\ Slot(0) = read_index
  BY <1>1, <1>2 DEF Slot, Slots
<1>4. /\ Queued \in Seq(Content) /\ Len(Queued) = count
      /\ \A i \in 1 .. count : Queued[i] = buffer[Slot(i - 1)]
  BY <1>1, QueuedSeq
<1>5. /\ Queued' \in Seq(Content) /\ Len(Queued') = count - 1
      /\ \A i \in 1 .. count - 1 : Queued'[i] = buffer[Slot(i)]
  <2>1. \A i \in 1 .. count - 1 : buffer[Slot(i)] \in Content
    BY <1>1, <1>3
  <2>2. Queued' = [i \in 1 .. count - 1 |-> buffer[Slot(i)]]
    BY <1>1, <1>2, <1>3 DEF Queued
  <2> QED BY <1>1, <2>1, <2>2
<1>6. /\ Queued # <<>> /\ Head(Queued) = buffer[read_index]
      /\ Tail(Queued) \in Seq(Content) /\ Len(Tail(Queued)) = count - 1
      /\ \A i \in 1 .. count - 1 : Tail(Queued)[i] = Queued[i + 1]
  BY <1>1, <1>3, <1>4, HeadTailProperties
<1>7. \A i \in 1 .. count - 1 : Queued'[i] = Tail(Queued)[i]
  <2> TAKE i \in 1 .. count - 1
  <2>1. i + 1 \in 1 .. count /\ (i + 1) - 1 = i
    BY <1>1
  <2>2. Queued[i + 1] = buffer[Slot((i + 1) - 1)]
    BY <1>4, <2>1
  <2>3. Queued[i + 1] = buffer[Slot(i)]
    BY <2>1, <2>2
  <2> QED BY <1>5, <1>6, <2>3
<1>8. Queued' = Tail(Queued)
  BY <1>5, <1>6, <1>7, SeqEqual
<1> QED BY <1>2, <1>6, <1>8 DEF Channel!Receive

\* Every step of the queue is a step of the channel or leaves it alone.
LEMMA StepSimulation ==
    IInv /\ RingIsContiguous /\ [Next]_vars => [Channel!Next]_(Channel!vars)
<1> SUFFICES ASSUME IInv, RingIsContiguous, [Next]_vars
             PROVE  [Channel!Next]_(Channel!vars)
  OBVIOUS
<1>1. ASSUME NEW t \in Threads, os_msgq_put_copy(t)
      PROVE  Channel!Next
  BY <1>1, PutAppends DEF Channel!Next
<1>2. ASSUME NEW t \in Threads, os_msgq_get_copy(t)
      PROVE  Channel!Next
  BY <1>2, GetRemoves DEF Channel!Next
<1>3. CASE os_msgq_init \/ os_msgq_deinit
  <2>1. Queued' = <<>> /\ received' = received
    BY <1>3 DEF os_msgq_init, os_msgq_deinit, Queued
  <2> QED BY <2>1 DEF Channel!Next, Channel!Discard
<1>4. CASE UNCHANGED <<buffer, read_index, count, received>>
  BY <1>4 DEF Channel!vars, Queued, Slot
<1>5. \/ os_msgq_init \/ os_msgq_deinit
      \/ \E t \in Threads : os_msgq_put_copy(t) \/ os_msgq_get_copy(t)
      \/ UNCHANGED <<buffer, read_index, count, received>>
  BY DEF Next, Put, Get, vars, os_msgq_put_call, os_msgq_put_take,
         os_msgq_put_timeout, os_msgq_put_give, os_msgq_get_call,
         os_msgq_get_take, os_msgq_get_timeout, os_msgq_get_give
<1> QED BY <1>1, <1>2, <1>3, <1>4, <1>5

(***************************************************************************)
(* os_msgq implements the bounded FIFO channel for every capacity, set of  *)
(* messages and number of threads: whatever calls are suspended half done, *)
(* each message is delivered once and in the order of the puts.            *)
(***************************************************************************)
THEOREM Refinement == Spec => ImplementsChannel
<1>1. Init => Channel!Init
  BY DEF Init, Channel!Init, Queued
<1> QED BY <1>1, Invariance, RingInit, RingNext, StepSimulation, PTL
        DEF Spec, ImplementsChannel, Channel!Spec
=============================================================================
