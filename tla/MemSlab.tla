------------------------------ MODULE MemSlab -------------------------------
(***************************************************************************)
(* os_mem_slab (src/common/mem_slab.c): equal blocks on an intrusive free  *)
(* list, counted by the semaphore `available'.  alloc takes a token and    *)
(* pops a block in a later critical section without testing the list; free *)
(* pushes the block, after looking for it on the list, and gives the token *)
(* later.                                                                  *)
(***************************************************************************)
EXTENDS Integers, Sequences, FiniteSets

CONSTANTS Threads, Blocks

ASSUME SlabAssumption == /\ IsFiniteSet(Threads)
                         /\ IsFiniteSet(Blocks) /\ Blocks # {}

num_blocks == Cardinality(Blocks)

VARIABLES initialized, free_list, free_blocks, \* fields of struct os_mem_slab
          available,  \* tokens of its semaphore
          pc,         \* "idle", "take", "pop" (in alloc), "give" (in free)
          \* history variables:
          held,       \* held[t]: the blocks user t was given and has not freed
          misused     \* blocks freed by a user that did not hold them

vars == <<initialized, free_list, free_blocks, available, pc, held, misused>>

Goto(t, from, to) == pc[t] = from /\ pc' = [pc EXCEPT ![t] = to]

OnFreeList(b) == \E i \in DOMAIN free_list : free_list[i] = b

\* os_sem_give saturates at the semaphore's limit.
os_sem_give(n) == IF n < num_blocks THEN n + 1 ELSE n

os_mem_slab_alloc_call(t) ==
    /\ initialized
    /\ Goto(t, "idle", "take")
    /\ UNCHANGED <<initialized, free_list, free_blocks, available, held, misused>>

\* fault: the token is taken without looking whether there is one
take_unchecked(t) ==
    /\ Goto(t, "take", "pop")
    /\ available' = available - 1
    /\ UNCHANGED <<initialized, free_list, free_blocks, held, misused>>

os_mem_slab_alloc_take(t) ==
    /\ Goto(t, "take", "pop")
    /\ available > 0 /\ available' = available - 1
    /\ UNCHANGED <<initialized, free_list, free_blocks, held, misused>>

\* fault: the pop goes on although no token was taken
alloc_ignores_timeout(t) ==
    /\ Goto(t, "take", "pop")
    /\ UNCHANGED <<initialized, free_list, free_blocks, available, held, misused>>

os_mem_slab_alloc_timeout(t) ==
    /\ Goto(t, "take", "idle")
    /\ available = 0
    /\ UNCHANGED <<initialized, free_list, free_blocks, available, held, misused>>

os_mem_slab_alloc_pop(t) ==
    /\ Goto(t, "pop", "idle")
    /\ held' = [held EXCEPT ![t] = @ \cup {Head(free_list)}]
    /\ free_list' = Tail(free_list)
    /\ free_blocks' = free_blocks - 1
    /\ UNCHANGED <<initialized, available, misused>>

\* fault: the block is not looked for on the free list
free_without_scan(b) == free_blocks < num_blocks

\* A block that is already free is refused with -EINVAL.
CanFree(b) == free_blocks < num_blocks /\ ~OnFreeList(b)

\* Thread t frees block b for user u.  Any block may be passed: one that is
\* already free, which CanFree refuses, and one that was freed before and is
\* with somebody else by now, which the code takes for its holder's free.
os_mem_slab_free(t, u, b) ==
    /\ initialized /\ CanFree(b)
    /\ Goto(t, "idle", "give")
    /\ free_list' = <<b>> \o free_list
    /\ free_blocks' = free_blocks + 1
    /\ held' = [held EXCEPT ![u] = @ \ {b}]
    /\ misused' = IF b \in held[u] THEN misused ELSE misused \cup {b}
    /\ UNCHANGED <<initialized, available>>

os_mem_slab_free_give(t) ==
    /\ Goto(t, "give", "idle")
    /\ available' = os_sem_give(available)
    /\ UNCHANGED <<initialized, free_list, free_blocks, held, misused>>

\* The blocks in buffer order form the initial free list.
os_mem_slab_init(order) ==
    /\ ~initialized
    /\ initialized' = TRUE
    /\ free_list' = order
    /\ free_blocks' = num_blocks
    /\ available' = num_blocks
    /\ UNCHANGED <<pc, held, misused>>

\* fault: deinit does not test that every block has been returned
deinit_unchecked == initialized
CanDeinit == initialized /\ free_blocks = num_blocks

\* "Deinitialization requires that no thread is waiting" (README.md).
os_mem_slab_deinit ==
    /\ CanDeinit /\ \A t \in Threads : pc[t] = "idle"
    /\ initialized' = FALSE
    /\ free_list' = <<>>
    /\ free_blocks' = 0
    /\ available' = 0
    /\ UNCHANGED <<pc, held, misused>>

Orders == {s \in [1 .. num_blocks -> Blocks] :
              \A i, j \in 1 .. num_blocks : s[i] = s[j] => i = j}

Init == /\ initialized = FALSE /\ free_list = <<>>
        /\ free_blocks = 0 /\ available = 0
        /\ pc = [t \in Threads |-> "idle"]
        /\ held = [t \in Threads |-> {}] /\ misused = {}

Step(t) == \/ os_mem_slab_alloc_call(t) \/ os_mem_slab_alloc_take(t)
           \/ os_mem_slab_alloc_timeout(t) \/ os_mem_slab_alloc_pop(t)
           \/ (\E u \in Threads, b \in Blocks : os_mem_slab_free(t, u, b))
           \/ os_mem_slab_free_give(t)

Next == \/ (\E order \in Orders : os_mem_slab_init(order)) \/ os_mem_slab_deinit
        \/ \E t \in Threads : Step(t)

Spec == Init /\ [][Next]_vars
-----------------------------------------------------------------------------
\* Types; the counters stay within the number of blocks.
TypeOK == /\ initialized \in BOOLEAN
          /\ free_list \in Seq(Blocks)
          /\ free_blocks \in 0 .. num_blocks /\ available \in 0 .. num_blocks
          /\ pc \in [Threads -> {"idle", "take", "pop", "give"}]
          /\ held \in [Threads -> SUBSET Blocks] /\ misused \subseteq Blocks

\* Number of threads about to perform step s.
At(s) == Cardinality({t \in Threads : pc[t] = s})

(***************************************************************************)
(* A thread that has a token always finds a block: the free list is as     *)
(* long as free_blocks says, and holds one block for every token in the    *)
(* semaphore, in the hands of an allocating thread or still to be given    *)
(* back.  So alloc never dereferences a NULL free list.                    *)
(***************************************************************************)
TokensMatchFreeBlocks ==
    /\ free_blocks = Len(free_list)
    /\ available + At("pop") + At("give") = free_blocks

HeldBy(t, b) == b \in held[t]

\* Block b is with nobody; with exactly one user.
HasNoUser(b) == \A t \in Threads : ~HeldBy(t, b)
HasOneUser(b) == \E t \in Threads : /\ HeldBy(t, b)
                                    /\ \A u \in Threads \ {t} : ~HeldBy(u, b)

(***************************************************************************)
(* No block is ever lost or handed out twice: it is on the free list once  *)
(* and with nobody, or off the list and with exactly one user, however     *)
(* allocations, frees and repeated frees interleave.  Blocks are excepted  *)
(* that a user freed while another one held them: the code cannot tell     *)
(* that from the holder's own free (OnlyHoldersFree).                      *)
(***************************************************************************)
BlocksArePartitioned ==
    /\ \A i, j \in DOMAIN free_list : free_list[i] = free_list[j] => i = j
    /\ initialized => \A b \in Blocks \ misused :
                         IF OnFreeList(b) THEN HasNoUser(b) ELSE HasOneUser(b)

(***************************************************************************)
(* Deinitialization takes no block away from its user, with the same       *)
(* exception.                                                              *)
(***************************************************************************)
NoBlockOutlivesSlab == ~initialized => \A t \in Threads : held[t] \subseteq misused

(***************************************************************************)
(* No free by anybody but the holder is accepted.  mem_slab.c:97-111 only  *)
(* looks for the block on the free list, so this does not hold: a repeated *)
(* free is accepted once the block has been allocated again.               *)
(***************************************************************************)
OnlyHoldersFree == misused = {}
=============================================================================
