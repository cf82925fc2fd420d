--------------------------- MODULE MemSlabProofs ----------------------------
(***************************************************************************)
(* Proofs about os_mem_slab for any number of threads and any number of    *)
(* blocks.                                                                 *)
(***************************************************************************)
EXTENDS MemSlab, FiniteSetTheorems, SequenceTheorems, TLAPS

Steps == {"idle", "take", "pop", "give"}

\* A slab that is not initialized is empty and nobody is inside a call.
IdleWhenDown ==
    ~initialized => /\ free_list = <<>> /\ available = 0
                    /\ \A t \in Threads : pc[t] = "idle"

\* The inductive invariant.
IInv == /\ TypeOK /\ IdleWhenDown
        /\ TokensMatchFreeBlocks /\ BlocksArePartitioned /\ NoBlockOutlivesSlab

\* The number of blocks is a number.
LEMMA NumBlocks == num_blocks \in Nat
BY SlabAssumption, FS_CardinalityType DEF num_blocks

\* A step some thread is about to perform has a positive head count.
LEMMA HeadCount ==
    ASSUME NEW s
    PROVE  /\ At(s) \in Nat
           /\ (\A t \in Threads : pc[t] # s) => At(s) = 0
<1> DEFINE S == {u \in Threads : pc[u] = s}
<1>1. IsFiniteSet(S)
  <2>1. S \subseteq Threads
    OBVIOUS
  <2> QED BY <2>1, SlabAssumption, FS_Subset
<1>2. Cardinality(S) \in Nat
  BY <1>1, FS_CardinalityType
<1>3. (\A t \in Threads : pc[t] # s) => S = {}
  OBVIOUS
<1>4. S = {} => Cardinality(S) = 0
  BY <1>1, FS_EmptySet
<1>5. At(s) = Cardinality(S)
  BY DEF At
<1> HIDE DEF S
<1> QED BY <1>2, <1>3, <1>4, <1>5

\* A thread that goes from one step of a call to another is counted at the
\* other one from then on, and no other count changes.
LEMMA MoveOne ==
    ASSUME NEW t \in Threads, NEW from, NEW to, from # to,
           pc \in [Threads -> Steps], Goto(t, from, to)
    PROVE  /\ At(from) \in Nat \ {0} /\ At(from)' = At(from) - 1
           /\ At(to)' = At(to) + 1
           /\ \A s : s \notin {from, to} => At(s)' = At(s)
<1> DEFINE S(s) == {u \in Threads : pc[u] = s}
<1> DEFINE N(s) == {u \in Threads : pc'[u] = s}
<1>1. \A s : IsFiniteSet(S(s))
  <2>1. ASSUME NEW s PROVE IsFiniteSet(S(s))
    <3>1. S(s) \subseteq Threads
      OBVIOUS
    <3> QED BY <3>1, SlabAssumption, FS_Subset
  <2> QED BY <2>1
<1>2. N(from) = S(from) \ {t} /\ t \in S(from)
  BY DEF Goto
<1>3. N(to) = S(to) \cup {t} /\ t \notin S(to)
  BY DEF Goto
<1>4. \A s : s \notin {from, to} => N(s) = S(s)
  BY DEF Goto
<1>5. \A s : At(s) = Cardinality(S(s)) /\ At(s)' = Cardinality(N(s))
  BY DEF At
<1> HIDE DEF S, N
<1>6. IsFiniteSet(S(from)) /\ IsFiniteSet(S(to))
  BY <1>1
<1>7. Cardinality(N(to)) = Cardinality(S(to)) + 1
  BY <1>3, <1>6, FS_AddElement
<1>8. Cardinality(N(from)) = Cardinality(S(from)) - 1
  BY <1>2, <1>6, FS_RemoveElement
<1>9. Cardinality(S(from)) \in Nat \ {0}
  BY <1>2, <1>6, FS_CardinalityType, FS_EmptySet
<1> QED BY <1>4, <1>5, <1>7, <1>8, <1>9

\* A free list without repetitions that is as long as the slab has blocks
\* holds all of them.
LEMMA FullListHoldsAll ==
    ASSUME NEW s \in Seq(Blocks), Len(s) = num_blocks,
           \A i, j \in 1 .. Len(s) : s[i] = s[j] => i = j
    PROVE  \A b \in Blocks : \E i \in 1 .. Len(s) : s[i] = b
<1>1. s \in [1 .. Len(s) -> Blocks] /\ Len(s) \in Nat /\ DOMAIN s = 1 .. Len(s)
  BY LenProperties
<1>2. s \in Injection(1 .. Len(s), Blocks)
  BY <1>1 DEF Injection, IsInjective
<1>3. Cardinality(1 .. Len(s)) = Len(s)
  BY <1>1, FS_Interval
<1>4. s \in Surjection(1 .. Len(s), Blocks)
  BY <1>2, <1>3, SlabAssumption, FS_Injection DEF num_blocks
<1> QED BY <1>4 DEF Surjection

\* The order os_mem_slab_init gives the blocks is a list without repetitions.
LEMMA OrderIsList ==
    ASSUME NEW order \in Orders
    PROVE  /\ order \in Seq(Blocks) /\ Len(order) = num_blocks
           /\ \A i, j \in 1 .. Len(order) : order[i] = order[j] => i = j
BY NumBlocks DEF Orders
-----------------------------------------------------------------------------
\* The zeroed control block satisfies the inductive invariant.
LEMMA InitInv == Init => IInv
<1> SUFFICES ASSUME Init PROVE IInv
  OBVIOUS
<1>1. initialized \in BOOLEAN
  BY Zenon DEF Init
<1>2. TypeOK
  BY <1>1, NumBlocks DEF Init, TypeOK
<1>3. At("pop") = 0 /\ At("give") = 0
  BY HeadCount DEF Init
<1>4. TokensMatchFreeBlocks
  BY <1>3 DEF Init, TokensMatchFreeBlocks
<1>5. BlocksArePartitioned /\ NoBlockOutlivesSlab /\ IdleWhenDown
  BY DEF Init, BlocksArePartitioned, NoBlockOutlivesSlab, IdleWhenDown
<1> QED BY <1>2, <1>4, <1>5 DEF IInv

\* Every step of alloc and free, init and deinit preserve the inductive
\* invariant.
LEMMA NextInv == IInv /\ [Next]_vars => IInv'
<1> SUFFICES ASSUME IInv, [Next]_vars PROVE IInv'
  OBVIOUS
<1> USE NumBlocks DEF IInv
<1>0. /\ At("pop") \in Nat /\ At("give") \in Nat
      /\ pc \in [Threads -> Steps]
      /\ Len(free_list) \in Nat /\ DOMAIN free_list = 1 .. Len(free_list)
  BY HeadCount, LenProperties DEF TypeOK, Steps
<1>1. ASSUME NEW order \in Orders, os_mem_slab_init(order)
      PROVE  IInv'
  <2>1. /\ order \in Seq(Blocks) /\ Len(order) = num_blocks /\ DOMAIN order = 1 .. Len(order)
        /\ \A i, j \in 1 .. Len(order) : order[i] = order[j] => i = j
    BY OrderIsList, LenProperties
  <2>2. initialized' \in BOOLEAN
    BY <1>1, Zenon DEF os_mem_slab_init
  <2>3. TypeOK'
    BY <1>1, <2>1, <2>2 DEF os_mem_slab_init, TypeOK
  <2>4. At("pop")' = 0 /\ At("give")' = 0
    <3>1. At("pop") = 0 /\ At("give") = 0
      BY <1>1, HeadCount DEF os_mem_slab_init, IdleWhenDown
    <3> QED BY <1>1, <3>1 DEF os_mem_slab_init, At
  <2>5. TokensMatchFreeBlocks'
    BY <1>1, <2>1, <2>4 DEF os_mem_slab_init, TokensMatchFreeBlocks
  <2>6. BlocksArePartitioned'
    <3>1. \A b \in Blocks : \E i \in 1 .. Len(order) : order[i] = b
      BY <2>1, FullListHoldsAll
    <3>2. ASSUME NEW b \in Blocks \ misused PROVE OnFreeList(b)' /\ HasNoUser(b)'
      BY <1>1, <2>1, <3>1
         DEF os_mem_slab_init, NoBlockOutlivesSlab, OnFreeList, HasNoUser, HeldBy
    <3> QED BY <1>1, <2>1, <3>2 DEF os_mem_slab_init, BlocksArePartitioned
  <2>7. NoBlockOutlivesSlab' /\ IdleWhenDown'
    BY <1>1 DEF os_mem_slab_init, NoBlockOutlivesSlab, IdleWhenDown
  <2> QED BY <2>3, <2>5, <2>6, <2>7
<1>2. CASE os_mem_slab_deinit
  <2>1. initialized' \in BOOLEAN
    BY <1>2, Zenon DEF os_mem_slab_deinit
  <2>2. TypeOK'
    BY <1>2, <2>1 DEF os_mem_slab_deinit, TypeOK
  <2>3. At("pop")' = 0 /\ At("give")' = 0
    <3>1. At("pop") = 0 /\ At("give") = 0
      BY <1>2, HeadCount DEF os_mem_slab_deinit
    <3> QED BY <1>2, <3>1 DEF os_mem_slab_deinit, At
  <2>4. TokensMatchFreeBlocks'
    BY <1>2, <2>3 DEF os_mem_slab_deinit, TokensMatchFreeBlocks
  <2>5. \A t \in Threads : held[t] \subseteq misused
    <3>1. Len(free_list) = num_blocks /\ initialized
      BY <1>2 DEF os_mem_slab_deinit, CanDeinit, TokensMatchFreeBlocks
    <3>2. \A b \in Blocks : OnFreeList(b)
      BY <1>0, <3>1, FullListHoldsAll DEF TypeOK, BlocksArePartitioned, OnFreeList
    <3> QED BY <3>1, <3>2 DEF BlocksArePartitioned, HasNoUser, HeldBy, TypeOK
  <2>6. BlocksArePartitioned' /\ NoBlockOutlivesSlab' /\ IdleWhenDown'
    BY <1>2, <2>5
       DEF os_mem_slab_deinit, BlocksArePartitioned, NoBlockOutlivesSlab, IdleWhenDown
  <2> QED BY <2>2, <2>4, <2>6
<1>3. ASSUME NEW t \in Threads, os_mem_slab_alloc_call(t)
      PROVE  IInv'
  <2>1. At("pop")' = At("pop") /\ At("give")' = At("give")
    BY <1>0, <1>3, MoveOne DEF os_mem_slab_alloc_call
  <2>2. TypeOK'
    BY <1>3 DEF os_mem_slab_alloc_call, Goto, TypeOK
  <2>3. TokensMatchFreeBlocks'
    BY <1>3, <2>1 DEF os_mem_slab_alloc_call, TokensMatchFreeBlocks
  <2>4. BlocksArePartitioned' /\ NoBlockOutlivesSlab' /\ IdleWhenDown'
    BY <1>3 DEF os_mem_slab_alloc_call, BlocksArePartitioned, NoBlockOutlivesSlab,
                IdleWhenDown, OnFreeList, HasNoUser, HasOneUser, HeldBy
  <2> QED BY <2>2, <2>3, <2>4
<1>4. ASSUME NEW t \in Threads, os_mem_slab_alloc_take(t)
      PROVE  IInv'
  <2>1. At("pop")' = At("pop") + 1 /\ At("give")' = At("give")
    BY <1>0, <1>4, MoveOne DEF os_mem_slab_alloc_take
  <2>2. TypeOK'
    BY <1>4 DEF os_mem_slab_alloc_take, Goto, TypeOK
  <2>3. TokensMatchFreeBlocks'
    BY <1>0, <1>4, <2>1 DEF os_mem_slab_alloc_take, TokensMatchFreeBlocks, TypeOK
  <2>4. BlocksArePartitioned' /\ NoBlockOutlivesSlab' /\ IdleWhenDown'
    BY <1>4 DEF os_mem_slab_alloc_take, BlocksArePartitioned, NoBlockOutlivesSlab,
                IdleWhenDown, OnFreeList, HasNoUser, HasOneUser, HeldBy, Goto
  <2> QED BY <2>2, <2>3, <2>4
<1>5. ASSUME NEW t \in Threads, os_mem_slab_alloc_timeout(t)
      PROVE  IInv'
  <2>1. At("pop")' = At("pop") /\ At("give")' = At("give")
    BY <1>0, <1>5, MoveOne DEF os_mem_slab_alloc_timeout
  <2>2. TypeOK'
    BY <1>5 DEF os_mem_slab_alloc_timeout, Goto, TypeOK
  <2>3. TokensMatchFreeBlocks'
    BY <1>5, <2>1 DEF os_mem_slab_alloc_timeout, TokensMatchFreeBlocks
  <2>4. BlocksArePartitioned' /\ NoBlockOutlivesSlab' /\ IdleWhenDown'
    BY <1>5 DEF os_mem_slab_alloc_timeout, BlocksArePartitioned, NoBlockOutlivesSlab,
                IdleWhenDown, OnFreeList, HasNoUser, HasOneUser, HeldBy, Goto
  <2> QED BY <2>2, <2>3, <2>4
<1>6. ASSUME NEW t \in Threads, os_mem_slab_alloc_pop(t)
      PROVE  IInv'
  <2>1. /\ At("pop") \in Nat \ {0} /\ At("pop")' = At("pop") - 1
        /\ At("give")' = At("give")
    BY <1>0, <1>6, MoveOne DEF os_mem_slab_alloc_pop
  <2>2. free_blocks = Len(free_list) /\ free_blocks >= 1 /\ initialized
    BY <1>0, <1>6, <2>1 DEF TokensMatchFreeBlocks, TypeOK, os_mem_slab_alloc_pop, Goto,
                            IdleWhenDown
  <2>3. free_list # <<>>
    BY <2>2
  <2>4. /\ Head(free_list) \in Blocks /\ Head(free_list) = free_list[1]
        /\ free_list' \in Seq(Blocks)
        /\ Len(free_list') = Len(free_list) - 1
        /\ DOMAIN free_list' = 1 .. Len(free_list')
        /\ \A i \in 1 .. Len(free_list') : free_list'[i] = free_list[i + 1]
    BY <1>6, <2>3, HeadTailProperties, LenProperties DEF os_mem_slab_alloc_pop, TypeOK
  <2>5. TypeOK'
    BY <1>6, <2>2, <2>4 DEF os_mem_slab_alloc_pop, Goto, TypeOK
  <2>6. TokensMatchFreeBlocks'
    <3>1. available' = available /\ free_blocks' = free_blocks - 1
      BY <1>6 DEF os_mem_slab_alloc_pop
    <3>2. /\ available \in Nat /\ free_blocks \in Nat
          /\ At("pop") \in Nat /\ At("give") \in Nat
      BY <1>0 DEF TypeOK
    <3>3. free_blocks = Len(free_list) /\ available + At("pop") + At("give") = free_blocks
      BY DEF TokensMatchFreeBlocks
    <3>4. free_blocks' = Len(free_list')
      BY <2>4, <3>1, <3>3
    <3>5. available' + At("pop")' + At("give")' = free_blocks'
      BY <2>1, <3>1, <3>2, <3>3
    <3> QED BY <3>4, <3>5 DEF TokensMatchFreeBlocks
  <2>7. \A i, j \in DOMAIN free_list' : free_list'[i] = free_list'[j] => i = j
    <3> SUFFICES ASSUME NEW i \in DOMAIN free_list', NEW j \in DOMAIN free_list',
                        free_list'[i] = free_list'[j]
                 PROVE  i = j
      OBVIOUS
    <3>1. i \in Int /\ j \in Int /\ i + 1 \in DOMAIN free_list /\ j + 1 \in DOMAIN free_list
      BY <1>0, <2>4
    <3>2. i + 1 = j + 1
      BY <2>4, <3>1 DEF BlocksArePartitioned
    <3> QED BY <3>1, <3>2
  <2>8. ASSUME NEW b \in Blocks
        PROVE  OnFreeList(b)' <=> OnFreeList(b) /\ b # free_list[1]
    <3>1. ASSUME NEW i \in DOMAIN free_list', free_list'[i] = b
          PROVE  OnFreeList(b) /\ b # free_list[1]
      <4>1. i + 1 \in DOMAIN free_list /\ 1 \in DOMAIN free_list /\ i + 1 # 1
        BY <1>0, <2>4
      <4>2. free_list[i + 1] = b
        BY <2>4, <3>1
      <4> QED BY <4>1, <4>2 DEF OnFreeList, BlocksArePartitioned
    <3>2. OnFreeList(b) /\ b # free_list[1] => OnFreeList(b)'
      <4> SUFFICES ASSUME NEW i \in DOMAIN free_list, free_list[i] = b, b # free_list[1]
                   PROVE  OnFreeList(b)'
        BY DEF OnFreeList
      <4>1. i - 1 \in 1 .. Len(free_list') /\ free_list'[i - 1] = free_list[i]
        BY <1>0, <2>4
      <4> QED BY <2>4, <4>1 DEF OnFreeList
    <3> QED BY <3>1, <3>2 DEF OnFreeList
  <2>9. ASSUME NEW b \in Blocks, NEW u \in Threads
        PROVE  HeldBy(u, b)' <=> HeldBy(u, b) \/ (u = t /\ b = free_list[1])
    BY <1>6, <2>4 DEF os_mem_slab_alloc_pop, HeldBy, TypeOK
  <2>10. BlocksArePartitioned'
    <3>1. OnFreeList(free_list[1])
      BY <1>0, <2>2 DEF OnFreeList
    <3>2. ASSUME NEW b \in Blocks \ misused', OnFreeList(b)'
          PROVE  HasNoUser(b)'
      <4>1. OnFreeList(b) /\ b # free_list[1] /\ b \in Blocks \ misused
        BY <1>6, <2>8, <3>2 DEF os_mem_slab_alloc_pop
      <4>2. HasNoUser(b)
        BY <2>2, <4>1 DEF BlocksArePartitioned
      <4> QED BY <2>9, <4>1, <4>2 DEF HasNoUser
    <3>3. ASSUME NEW b \in Blocks \ misused', ~OnFreeList(b)'
          PROVE  HasOneUser(b)'
      <4>1. b \in Blocks \ misused
        BY <1>6 DEF os_mem_slab_alloc_pop
      <4>2. CASE b = free_list[1]
        <5>1. HasNoUser(b)
          BY <2>2, <3>1, <4>1, <4>2 DEF BlocksArePartitioned
        <5> QED BY <2>9, <4>1, <4>2, <5>1 DEF HasNoUser, HasOneUser
      <4>3. CASE b # free_list[1]
        <5>1. HasOneUser(b)
          BY <2>2, <2>8, <3>3, <4>1, <4>3 DEF BlocksArePartitioned
        <5> QED BY <2>9, <4>1, <4>3, <5>1 DEF HasOneUser
      <4> QED BY <4>2, <4>3
    <3> QED BY <2>7, <3>2, <3>3 DEF BlocksArePartitioned
  <2>11. NoBlockOutlivesSlab' /\ IdleWhenDown'
    BY <1>6, <2>2 DEF os_mem_slab_alloc_pop, NoBlockOutlivesSlab, IdleWhenDown
  <2> QED BY <2>5, <2>6, <2>10, <2>11
<1>7. ASSUME NEW t \in Threads, NEW u \in Threads, NEW b \in Blocks,
             os_mem_slab_free(t, u, b)
      PROVE  IInv'
  <2>1. At("pop")' = At("pop") /\ At("give")' = At("give") + 1
    <3>1. Goto(t, "idle", "give")
      BY <1>7 DEF os_mem_slab_free
    <3> QED BY <1>0, <3>1, MoveOne
  <2>2. <<b>> \in Seq(Blocks) /\ Len(<<b>>) = 1 /\ <<b>>[1] = b
    OBVIOUS
  <2>3. /\ free_list' \in Seq(Blocks)
        /\ Len(free_list') = Len(free_list) + 1
        /\ DOMAIN free_list' = 1 .. Len(free_list) + 1
        /\ free_list'[1] = b
        /\ \A i \in 2 .. Len(free_list) + 1 : free_list'[i] = free_list[i - 1]
    BY <1>0, <1>7, <2>2, ConcatProperties, LenProperties DEF os_mem_slab_free, TypeOK
  <2>4. TypeOK'
    BY <1>7, <2>3 DEF os_mem_slab_free, CanFree, Goto, TypeOK
  <2>5. TokensMatchFreeBlocks'
    <3>1. available' = available /\ free_blocks' = free_blocks + 1
      BY <1>7 DEF os_mem_slab_free
    <3>2. available \in Nat /\ free_blocks \in Nat
      BY DEF TypeOK
    <3>3. free_blocks = Len(free_list) /\ available + At("pop") + At("give") = free_blocks
      BY DEF TokensMatchFreeBlocks
    <3>4. free_blocks' = Len(free_list')
      BY <2>3, <3>1, <3>3
    <3>5. At("pop") \in Nat /\ At("give") \in Nat
      BY <1>0
    <3>6. available' + At("pop")' + At("give")' = free_blocks'
      BY <2>1, <3>1, <3>2, <3>3, <3>5
    <3> QED BY <3>4, <3>6 DEF TokensMatchFreeBlocks
  <2>6. \A i \in DOMAIN free_list : free_list[i] # b
    BY <1>7 DEF os_mem_slab_free, CanFree, OnFreeList
  <2>7. \A i, j \in DOMAIN free_list' : free_list'[i] = free_list'[j] => i = j
    <3> SUFFICES ASSUME NEW i \in DOMAIN free_list', NEW j \in DOMAIN free_list',
                        free_list'[i] = free_list'[j]
                 PROVE  i = j
      OBVIOUS
    <3>0. ASSUME NEW k \in DOMAIN free_list', k # 1
          PROVE  free_list'[k] # b
      <4>1. k \in 2 .. Len(free_list) + 1 /\ k - 1 \in DOMAIN free_list
        BY <1>0, <2>3, <3>0
      <4> QED BY <2>3, <2>6, <4>1
    <3>1. CASE i = 1 \/ j = 1
      BY <2>3, <3>0, <3>1
    <3>2. CASE i # 1 /\ j # 1
      <4>1. /\ i \in 2 .. Len(free_list) + 1 /\ j \in 2 .. Len(free_list) + 1
            /\ i - 1 \in DOMAIN free_list /\ j - 1 \in DOMAIN free_list
        BY <1>0, <2>3, <3>2
      <4>2. i - 1 = j - 1
        BY <2>3, <4>1 DEF BlocksArePartitioned
      <4> QED BY <4>1, <4>2
    <3> QED BY <3>1, <3>2
  <2>8. ASSUME NEW c \in Blocks
        PROVE  OnFreeList(c)' <=> OnFreeList(c) \/ c = b
    <3>1. ASSUME NEW i \in DOMAIN free_list', free_list'[i] = c, c # b
          PROVE  OnFreeList(c)
      <4>1. i \in 2 .. Len(free_list) + 1 /\ i - 1 \in DOMAIN free_list
        BY <1>0, <2>3, <3>1
      <4>2. free_list[i - 1] = c
        BY <2>3, <3>1, <4>1
      <4> QED BY <4>1, <4>2 DEF OnFreeList
    <3>2. c = b => OnFreeList(c)'
      BY <1>0, <2>3 DEF OnFreeList
    <3>3. ASSUME NEW i \in DOMAIN free_list, free_list[i] = c
          PROVE  OnFreeList(c)'
      <4>1. i + 1 \in 2 .. Len(free_list) + 1 /\ free_list'[i + 1] = c
        BY <1>0, <2>3, <3>3
      <4> QED BY <1>0, <2>3, <4>1 DEF OnFreeList
    <3> QED BY <3>1, <3>2, <3>3 DEF OnFreeList
  <2>9. ASSUME NEW c \in Blocks, NEW v \in Threads
        PROVE  HeldBy(v, c)' <=> HeldBy(v, c) /\ ~(v = u /\ c = b)
    BY <1>7 DEF os_mem_slab_free, HeldBy, TypeOK
  <2>10. BlocksArePartitioned'
    <3>1. initialized /\ misused \subseteq misused' /\ (b \notin misused' => HeldBy(u, b))
      BY <1>7 DEF os_mem_slab_free, HeldBy
    <3>2. ASSUME NEW c \in Blocks \ misused', OnFreeList(c)'
          PROVE  HasNoUser(c)'
      <4>1. c \in Blocks \ misused
        BY <3>1
      <4>2. CASE c = b
        <5>1. HasOneUser(b) /\ HeldBy(u, b)
          BY <1>7, <3>1, <4>1, <4>2, <2>6 DEF BlocksArePartitioned, OnFreeList
        <5>2. \A v \in Threads \ {u} : ~HeldBy(v, b)
          BY <5>1 DEF HasOneUser
        <5> QED BY <2>9, <4>2, <5>2 DEF HasNoUser
      <4>3. CASE c # b
        <5>1. HasNoUser(c)
          BY <2>8, <3>1, <3>2, <4>1, <4>3 DEF BlocksArePartitioned
        <5> QED BY <2>9, <5>1 DEF HasNoUser
      <4> QED BY <4>2, <4>3
    <3>3. ASSUME NEW c \in Blocks \ misused', ~OnFreeList(c)'
          PROVE  HasOneUser(c)'
      <4>1. c \in Blocks \ misused /\ c # b /\ ~OnFreeList(c)
        BY <2>8, <3>1, <3>3
      <4>2. HasOneUser(c)
        BY <3>1, <4>1 DEF BlocksArePartitioned
      <4> QED BY <2>9, <4>1, <4>2 DEF HasOneUser
    <3> QED BY <2>7, <3>2, <3>3 DEF BlocksArePartitioned
  <2>11. NoBlockOutlivesSlab' /\ IdleWhenDown'
    BY <1>7 DEF os_mem_slab_free, NoBlockOutlivesSlab, IdleWhenDown
  <2> QED BY <2>4, <2>5, <2>10, <2>11
<1>8. ASSUME NEW t \in Threads, os_mem_slab_free_give(t)
      PROVE  IInv'
  <2>1. /\ At("give") \in Nat \ {0} /\ At("give")' = At("give") - 1
        /\ At("pop")' = At("pop")
    BY <1>0, <1>8, MoveOne DEF os_mem_slab_free_give
  <2>2. available < num_blocks /\ available' = available + 1
    BY <1>0, <1>8, <2>1 DEF os_mem_slab_free_give, os_sem_give, TokensMatchFreeBlocks, TypeOK
  <2>3. TypeOK'
    BY <1>8, <2>2 DEF os_mem_slab_free_give, Goto, TypeOK
  <2>4. TokensMatchFreeBlocks'
    BY <1>0, <1>8, <2>1, <2>2 DEF os_mem_slab_free_give, TokensMatchFreeBlocks, TypeOK
  <2>5. BlocksArePartitioned' /\ NoBlockOutlivesSlab' /\ IdleWhenDown'
    BY <1>8 DEF os_mem_slab_free_give, BlocksArePartitioned, NoBlockOutlivesSlab,
                IdleWhenDown, OnFreeList, HasNoUser, HasOneUser, HeldBy, Goto
  <2> QED BY <2>3, <2>4, <2>5
<1>9. CASE UNCHANGED vars
  BY <1>9 DEF vars, TypeOK, TokensMatchFreeBlocks, BlocksArePartitioned,
              NoBlockOutlivesSlab, IdleWhenDown, OnFreeList, HasNoUser, HasOneUser, HeldBy, At
<1> QED BY <1>1, <1>2, <1>3, <1>4, <1>5, <1>6, <1>7, <1>8, <1>9 DEF Next, Step

\* The inductive invariant holds in every reachable state.
LEMMA Invariance == Spec => []IInv
BY InitInv, NextInv, PTL DEF Spec

\* Types: free_blocks and the tokens of `available' never leave the range of
\* the block count, so neither wraps.
THEOREM TypeCorrect == Spec => []TypeOK
BY Invariance, PTL DEF IInv

\* os_mem_slab_alloc pops without testing the list: its token guarantees that
\* there is a block, however many allocations and frees are half done.
THEOREM TokenMeansBlock == Spec => []TokensMatchFreeBlocks
BY Invariance, PTL DEF IInv

\* The scan in os_mem_slab_free keeps the free list free of repetitions, so
\* every block is either free and with nobody or off the list and with exactly
\* one user; the blocks are excepted that a user freed without holding them,
\* which the scan does not notice once they are allocated again.
THEOREM BlocksHaveOneOwner == Spec => []BlocksArePartitioned
BY Invariance, PTL DEF IInv

\* os_mem_slab_deinit compares two counters and by that knows that no block is
\* with a user, the same blocks excepted.
THEOREM DeinitIsSafe == Spec => []NoBlockOutlivesSlab
BY Invariance, PTL DEF IInv
=============================================================================
