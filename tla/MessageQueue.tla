---------------------------- MODULE MessageQueue ----------------------------
(***************************************************************************)
(* os_msgq (src/common/message_queue.c): a ring of fixed-size messages     *)
(* guarded by two counting semaphores.  `spaces' counts free slots and     *)
(* `items' counts readable ones; a put takes a space, copies inside a      *)
(* critical section and gives an item, a get does the reverse.  The three  *)
(* parts of each call are separate steps here, because any other thread or *)
(* interrupt may run between them.                                         *)
(*                                                                         *)
(* A thread's pc says which step comes next:                               *)
(*   "idle"      outside the API                                           *)
(*   "put_take"  in os_sem_take(&msgq->spaces, timeout)                    *)
(*   "put_copy"  holds a space, about to enter the critical section        *)
(*   "put_give"  has copied its message, about to give `items'             *)
(*   "get_take", "get_copy", "get_give"   the same for os_msgq_get         *)
(***************************************************************************)
EXTENDS Integers, Sequences, FiniteSets

CONSTANTS Threads, Messages, Capacity, NoMessage

ASSUME ThreadsAssumption  == IsFiniteSet(Threads)
ASSUME CapacityAssumption == Capacity \in Nat \ {0}
ASSUME NoMessageAssumption == NoMessage \notin Messages

VARIABLES initialized, \* msgq->initialized
          buffer,      \* msgq->buffer, one message per slot
          read_index, write_index, count,
          items, spaces, \* token counts of the two semaphores
          pc,          \* next step of each thread
          arg,         \* the message a putting thread is passing
          received     \* the message a thread's last successful get returned

vars == <<initialized, buffer, read_index, write_index, count, items, spaces,
          pc, arg, received>>

Slots == 0 .. Capacity - 1
Steps == {"idle", "put_take", "put_copy", "put_give",
          "get_take", "get_copy", "get_give"}

Goto(t, from, to) == /\ pc[t] = from
                     /\ pc' = [pc EXCEPT ![t] = to]

\* os_sem_give saturates at the semaphore's limit.
os_sem_give(n) == IF n < Capacity THEN n + 1 ELSE n

\* The ring index after i.
unwrapped_index(i) == i + 1 \* fault: the index is not wrapped
next_index(i) == (i + 1) % Capacity
-----------------------------------------------------------------------------
os_msgq_put_call(t, m) ==
    /\ initialized
    /\ Goto(t, "idle", "put_take")
    /\ arg' = [arg EXCEPT ![t] = m]
    /\ UNCHANGED <<initialized, buffer, read_index, write_index, count, items,
                   spaces, received>>

os_msgq_put_take(t) ==
    /\ spaces > 0
    /\ spaces' = spaces - 1
    /\ Goto(t, "put_take", "put_copy")
    /\ UNCHANGED <<initialized, buffer, read_index, write_index, count, items,
                   arg, received>>

\* fault: the result of os_sem_take is ignored
put_ignores_timeout(t) ==
    /\ Goto(t, "put_take", "put_copy")
    /\ UNCHANGED <<initialized, buffer, read_index, write_index, count, items,
                   spaces, arg, received>>

\* No space before the timeout (at once when it is zero): -ETIMEDOUT, -EBUSY.
os_msgq_put_timeout(t) ==
    /\ spaces = 0
    /\ Goto(t, "put_take", "idle")
    /\ arg' = [arg EXCEPT ![t] = NoMessage]
    /\ UNCHANGED <<initialized, buffer, read_index, write_index, count, items,
                   spaces, received>>

os_msgq_put_copy(t) ==
    /\ Goto(t, "put_copy", "put_give")
    /\ buffer' = [buffer EXCEPT ![write_index] = arg[t]]
    /\ write_index' = next_index(write_index)
    /\ count' = count + 1
    /\ UNCHANGED <<initialized, read_index, items, spaces, arg, received>>

os_msgq_put_give(t) ==
    /\ Goto(t, "put_give", "idle")
    /\ items' = os_sem_give(items)
    /\ arg' = [arg EXCEPT ![t] = NoMessage]
    /\ UNCHANGED <<initialized, buffer, read_index, write_index, count, spaces,
                   received>>
-----------------------------------------------------------------------------
os_msgq_get_call(t) ==
    /\ initialized
    /\ Goto(t, "idle", "get_take")
    /\ UNCHANGED <<initialized, buffer, read_index, write_index, count, items,
                   spaces, arg, received>>

os_msgq_get_take(t) ==
    /\ items > 0
    /\ items' = items - 1
    /\ Goto(t, "get_take", "get_copy")
    /\ UNCHANGED <<initialized, buffer, read_index, write_index, count, spaces,
                   arg, received>>

os_msgq_get_timeout(t) ==
    /\ items = 0
    /\ Goto(t, "get_take", "idle")
    /\ UNCHANGED <<initialized, buffer, read_index, write_index, count, items,
                   spaces, arg, received>>

\* fault: the index is advanced before the copy
get_advances_first(t) ==
    /\ Goto(t, "get_copy", "get_give")
    /\ received' = [received EXCEPT ![t] = buffer[next_index(read_index)]]
    /\ read_index' = next_index(read_index)
    /\ count' = count - 1
    /\ UNCHANGED <<initialized, buffer, write_index, items, spaces, arg>>

os_msgq_get_copy(t) ==
    /\ Goto(t, "get_copy", "get_give")
    /\ received' = [received EXCEPT ![t] = buffer[read_index]]
    /\ read_index' = next_index(read_index)
    /\ count' = count - 1
    /\ UNCHANGED <<initialized, buffer, write_index, items, spaces, arg>>

\* fault: the freed slot is not returned
get_keeps_space(t) ==
    /\ Goto(t, "get_give", "idle")
    /\ UNCHANGED <<initialized, buffer, read_index, write_index, count, items,
                   spaces, arg, received>>

os_msgq_get_give(t) ==
    /\ Goto(t, "get_give", "idle")
    /\ spaces' = os_sem_give(spaces)
    /\ UNCHANGED <<initialized, buffer, read_index, write_index, count, items,
                   arg, received>>
-----------------------------------------------------------------------------
\* os_msgq_init clears the object and gives every slot to `spaces'.  The
\* caller's buffer keeps whatever it held.
os_msgq_init ==
    /\ ~initialized
    /\ initialized' = TRUE
    /\ read_index' = 0 /\ write_index' = 0 /\ count' = 0
    /\ items' = 0 /\ spaces' = Capacity
    /\ UNCHANGED <<buffer, pc, arg, received>>

\* The caller "must ensure ... no thread is waiting" (kernel.h): no thread is
\* inside a call.  Queued messages, if any, are discarded.
os_msgq_deinit ==
    /\ initialized
    /\ \A t \in Threads : pc[t] = "idle"
    /\ initialized' = FALSE
    /\ read_index' = 0 /\ write_index' = 0 /\ count' = 0
    /\ items' = 0 /\ spaces' = 0
    /\ UNCHANGED <<buffer, pc, arg, received>>

\* Caller storage before os_msgq_init: zeroed control block.
Init == /\ initialized = FALSE
        /\ buffer = [i \in Slots |-> NoMessage]
        /\ read_index = 0 /\ write_index = 0 /\ count = 0
        /\ items = 0 /\ spaces = 0
        /\ pc = [t \in Threads |-> "idle"]
        /\ arg = [t \in Threads |-> NoMessage]
        /\ received = [t \in Threads |-> NoMessage]

Put(t) == \/ \E m \in Messages : os_msgq_put_call(t, m)
          \/ os_msgq_put_take(t) \/ os_msgq_put_timeout(t)
          \/ os_msgq_put_copy(t) \/ os_msgq_put_give(t)

Get(t) == \/ os_msgq_get_call(t)
          \/ os_msgq_get_take(t) \/ os_msgq_get_timeout(t)
          \/ os_msgq_get_copy(t) \/ os_msgq_get_give(t)

Next == \/ os_msgq_init \/ os_msgq_deinit
        \/ \E t \in Threads : Put(t) \/ Get(t)

Spec == Init /\ [][Next]_vars
-----------------------------------------------------------------------------
\* Types, and the ring indices, count and token counts within the capacity.
TypeOK == /\ initialized \in BOOLEAN
          /\ buffer \in [Slots -> Messages \cup {NoMessage}]
          /\ read_index \in Slots /\ write_index \in Slots
          /\ count \in 0 .. Capacity
          /\ items \in 0 .. Capacity /\ spaces \in 0 .. Capacity
          /\ pc \in [Threads -> Steps]
          /\ arg \in [Threads -> Messages \cup {NoMessage}]
          /\ received \in [Threads -> Messages \cup {NoMessage}]

\* Number of threads about to perform step s.
At(s) == Cardinality({t \in Threads : pc[t] = s})

(***************************************************************************)
(* Every slot of the ring is accounted for exactly once, whatever threads  *)
(* are suspended between taking a token, copying and giving: a message is  *)
(* readable, claimed by a getter or still to be announced by its putter; a *)
(* slot is free, claimed by a putter or still to be returned by its getter.*)
(***************************************************************************)
TokensAccountForSlots ==
    initialized =>
      /\ items + At("get_copy") + At("put_give") = count
      /\ spaces + At("put_copy") + At("get_give") = Capacity - count

(***************************************************************************)
(* The unchecked copies of put and get are safe: a putter that reaches its *)
(* critical section finds a free slot, a getter finds a message, although  *)
(* neither call tests `count'.                                             *)
(***************************************************************************)
CopiesAreSafe ==
    \A t \in Threads : /\ pc[t] = "put_copy" => count < Capacity
                       /\ pc[t] = "get_copy" => count > 0

\* The index of the i-th queued message, counted from the oldest (i = 0).
Slot(i) == IF read_index + i < Capacity THEN read_index + i
                                        ELSE read_index + i - Capacity

\* The queued messages, oldest first.
Queued == [i \in 1 .. count |-> buffer[Slot(i - 1)]]

Channel == INSTANCE MessageChannel WITH chan <- Queued

(***************************************************************************)
(* os_msgq implements a bounded FIFO channel: through every interleaving   *)
(* of partly done puts and gets each message is delivered once, in order.  *)
(***************************************************************************)
ImplementsChannel == Channel!Spec
=============================================================================
