-------------------------------- MODULE Fifo --------------------------------
(***************************************************************************)
(* os_fifo (src/common/fifo.c): caller-owned nodes linked into a list and  *)
(* counted by the semaphore `items'.  A put links the node in a critical   *)
(* section and gives the token afterwards; a get takes a token and unlinks *)
(* in a later critical section.  Several queues share the nodes: the flag  *)
(* node->queued is what keeps a node off two lists at once.                *)
(***************************************************************************)
EXTENDS Integers, Sequences, FiniteSets

CONSTANTS Fifos, Nodes, Threads,
          Limit,  \* UINT16_MAX
          None

ASSUME FifoAssumption == IsFiniteSet(Threads) /\ Limit \in Nat \ {0} /\ None \notin Fifos

VARIABLES fifo,   \* struct os_fifo of each queue: initialized, list, count, items
          queued, \* node->queued
          pc,     \* "idle", "give" (in put), "take", "unlink" (in get)
          on,     \* the queue a thread's call is about
          got     \* the node the last successful get of a thread returned

vars == <<fifo, queued, pc, on, got>>

Zeroed == [initialized |-> FALSE, list |-> <<>>, count |-> 0, items |-> 0]

\* t moves from one step to another inside a call on queue f.
Goto(t, f, from, to) == /\ pc[t] = from
                        /\ on[t] = IF from = "idle" THEN None ELSE f
                        /\ pc' = [pc EXCEPT ![t] = to]
                        /\ on' = [on EXCEPT ![t] = IF to = "idle" THEN None ELSE f]

queues_anyway(f, n) == fifo[f].count < Limit \* fault: node->queued is ignored
exceeds_limit(f, n) == ~queued[n]            \* fault: no limit
\* -EBUSY if the node is queued, -ENOSPC if the queue is full.
CanPut(f, n) == ~queued[n] /\ fifo[f].count < Limit

os_fifo_put(t, f, n) ==
    /\ fifo[f].initialized /\ CanPut(f, n)
    /\ Goto(t, f, "idle", "give")
    /\ queued' = [queued EXCEPT ![n] = TRUE]
    /\ fifo' = [fifo EXCEPT ![f].list = Append(@, n), ![f].count = @ + 1]
    /\ UNCHANGED got

os_fifo_put_give(t, f) ==
    /\ Goto(t, f, "give", "idle")
    /\ fifo' = [fifo EXCEPT ![f].items = IF @ < Limit THEN @ + 1 ELSE @]
    /\ UNCHANGED <<queued, got>>

os_fifo_get_call(t, f) ==
    /\ fifo[f].initialized
    /\ Goto(t, f, "idle", "take")
    /\ UNCHANGED <<fifo, queued, got>>

os_fifo_get_take(t, f) ==
    /\ Goto(t, f, "take", "unlink")
    /\ fifo[f].items > 0
    /\ fifo' = [fifo EXCEPT ![f].items = @ - 1]
    /\ UNCHANGED <<queued, got>>

\* fault: after a timeout the list is read all the same
get_ignores_timeout(t, f) ==
    /\ Goto(t, f, "take", "unlink")
    /\ fifo[f].items = 0
    /\ UNCHANGED <<fifo, queued, got>>

os_fifo_get_timeout(t, f) ==
    /\ Goto(t, f, "take", "idle")
    /\ fifo[f].items = 0
    /\ UNCHANGED <<fifo, queued, got>>

\* The list is empty: -EAGAIN.  TokenMeansNode says that this is never reached.
os_fifo_get_unlink(t, f) ==
    /\ Goto(t, f, "unlink", "idle")
    /\ IF fifo[f].list = <<>> THEN UNCHANGED <<fifo, queued, got>>
       ELSE LET n == Head(fifo[f].list)
            IN  /\ got' = [got EXCEPT ![t] = n]
                /\ queued' = [queued EXCEPT ![n] = FALSE]
                /\ fifo' = [fifo EXCEPT ![f].list = Tail(@), ![f].count = @ - 1]

os_fifo_init(f) ==
    /\ ~fifo[f].initialized
    /\ fifo' = [fifo EXCEPT ![f] = [Zeroed EXCEPT !.initialized = TRUE]]
    /\ UNCHANGED <<queued, pc, on, got>>

CanDeinit(f) == fifo[f].initialized /\ fifo[f].list = <<>>

\* "Deinitialization requires that no thread is waiting" (README.md).
os_fifo_deinit(f) ==
    /\ CanDeinit(f) /\ \A t \in Threads : on[t] # f
    /\ fifo' = [fifo EXCEPT ![f] = Zeroed]
    /\ UNCHANGED <<queued, pc, on, got>>

\* os_fifo_node_init has cleared every node.
Init == /\ fifo = [f \in Fifos |-> Zeroed]
        /\ queued = [n \in Nodes |-> FALSE]
        /\ pc = [t \in Threads |-> "idle"]
        /\ on = [t \in Threads |-> None]
        /\ got = [t \in Threads |-> None]

Step(t, f) == \/ (\E n \in Nodes : os_fifo_put(t, f, n)) \/ os_fifo_put_give(t, f)
              \/ os_fifo_get_call(t, f) \/ os_fifo_get_take(t, f)
              \/ os_fifo_get_timeout(t, f) \/ os_fifo_get_unlink(t, f)

Next == \E f \in Fifos : \/ os_fifo_init(f) \/ os_fifo_deinit(f)
                         \/ \E t \in Threads : Step(t, f)

Spec == Init /\ [][Next]_vars
-----------------------------------------------------------------------------
\* Types; no counter leaves 0 .. Limit.
TypeOK == /\ fifo \in [Fifos -> [initialized : BOOLEAN, list : Seq(Nodes),
                                 count : 0 .. Limit, items : 0 .. Limit]]
          /\ queued \in [Nodes -> BOOLEAN]
          /\ pc \in [Threads -> {"idle", "give", "take", "unlink"}]
          /\ on \in [Threads -> Fifos \cup {None}]
          /\ got \in [Threads -> Nodes \cup {None}]

\* Number of threads about to perform step s on queue f.
At(f, s) == Cardinality({t \in Threads : pc[t] = s /\ on[t] = f})

(***************************************************************************)
(* A get that has its token finds a node (its -EAGAIN return is dead code):*)
(* the nodes on a list are the tokens in the semaphore, those taken by     *)
(* getters on their way to the list and those putters still have to give.  *)
(***************************************************************************)
TokenMeansNode ==
    \A f \in Fifos : /\ fifo[f].count = Len(fifo[f].list)
                     /\ fifo[f].items + At(f, "unlink") + At(f, "give") = fifo[f].count

Places(n) == {p \in Fifos \X (1 .. Limit) : /\ p[2] \in DOMAIN fifo[p[1]].list
                                            /\ fifo[p[1]].list[p[2]] = n}

(***************************************************************************)
(* A node is linked in at most one place of one queue, and node->queued    *)
(* says whether it is.                                                     *)
(***************************************************************************)
NodeOnOneList == \A n \in Nodes : Cardinality(Places(n)) = IF queued[n] THEN 1 ELSE 0
=============================================================================
