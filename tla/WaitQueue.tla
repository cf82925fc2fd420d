----------------------------- MODULE WaitQueue ------------------------------
(***************************************************************************)
(* The wait queues of the FreeRTOS and the RT-Thread port                  *)
(* (src/osal_freertos/waitq.c, src/osal_rtthread/waitq.c) and the priority *)
(* changes that reorder them (os_thread_set_priority).  A blocked thread   *)
(* sleeps on its task notification (FreeRTOS) or on its semaphore          *)
(* wait_storage (RT-Thread); that it was woken is decided in a critical    *)
(* section after the sleep.  A thread's pc is here                         *)
(*   "run"   in application code                                           *)
(*   "wait"  asleep in os_waitq_block                                      *)
(*   "back"  returned from the sleep, before the second critical section   *)
(* or, on RT-Thread, "reorder" in os_thread_set_priority.  Threads that    *)
(* wait here own no mutex and wait for none: module Mutex has those.       *)
(***************************************************************************)
EXTENDS Dlist, SequencesExt

CONSTANTS Threads,    \* the struct os_thread objects, with their wait_node
          Clients,    \* native tasks, which the application does not abort
          Queues, Priorities, Reasons,
          Ports       \* out of "freertos", "rtthread"

ASSUME WaitQueueAssumption ==
    /\ Ports \subseteq {"freertos", "rtthread"} /\ IsFiniteSet(Threads \cup Queues)
    /\ Priorities \subseteq Nat /\ Priorities # {}
    /\ Threads \cap (Queues \cup Clients) = {} /\ Null \notin Threads \cup Queues

VARIABLES port,        \* the port the program is built for
          mem,         \* the pointers of the queues and of the wait_nodes
          wait_q, wait_result, \* struct os_thread
          notify,      \* pending notification value, or tokens of wait_storage
          received,    \* local of os_waitq_block: what ended the sleep
          priority,    \* of the native task
          pc, target   \* a call in progress and the thread it is about

wvars == <<mem, wait_q, wait_result, notify, received>>

Actors == Threads \cup Clients
FreeRTOS == port = "freertos"

Goto(a, from, to) == pc[a] = from /\ pc' = [pc EXCEPT ![a] = to]

\* fault: new waiters go to the tail whatever their priority
insert_at_tail(m, q, t, pri) == sys_dlist_append(m, q, t)

\* In front of the first waiter with a lower priority.
os_waitq_insert_priority_locked(m, q, t, pri) ==
    LET queued == ForEachNode(m, q)
        lower  == {i \in DOMAIN queued : pri[t] > pri[queued[i]]}
    IN  IF lower = {} THEN sys_dlist_append(m, q, t)
        ELSE sys_dlist_insert(m, queued[Min(lower)], t)

os_waitq_block(t, q) ==
    /\ Goto(t, "run", "wait")
    /\ wait_q' = [wait_q EXCEPT ![t] = q]
    /\ wait_result' = [wait_result EXCEPT ![t] = Null]
    /\ mem' = os_waitq_insert_priority_locked(mem, q, t, priority)
    /\ UNCHANGED <<notify, received, priority, target>>

\* xTaskNotifyWait or rt_sem_take succeeds.
os_waitq_block_notified(t) ==
    /\ Goto(t, "wait", "back") /\ notify[t] # <<>>
    /\ received' = [received EXCEPT ![t] = Head(notify[t])]
    /\ notify' = [notify EXCEPT ![t] = Tail(@)]
    /\ UNCHANGED <<mem, wait_q, wait_result, priority, target>>

os_waitq_block_expired(t) ==
    /\ Goto(t, "wait", "back") /\ notify[t] = <<>>
    /\ UNCHANGED <<mem, wait_q, wait_result, notify, received, priority, target>>

\* What os_waitq_block returns.
BlockResult(t) ==
    IF wait_q[t] # Null
    THEN IF FreeRTOS \/ received[t] = Null THEN "ETIMEDOUT" ELSE "EAGAIN"
    ELSE IF ~FreeRTOS THEN wait_result[t]
    ELSE IF received[t] = Null THEN "ETIMEDOUT" ELSE received[t]

\* The second critical section: a thread that is still queued leaves the queue.
\* wait_result is not read after it, and cleared.
os_waitq_block_return(t) ==
    /\ Goto(t, "back", "run")
    /\ mem' = IF wait_q[t] = Null THEN mem ELSE sys_dlist_remove(mem, t)
    /\ wait_q' = [wait_q EXCEPT ![t] = Null]
    /\ wait_result' = [wait_result EXCEPT ![t] = Null]
    /\ received' = [received EXCEPT ![t] = Null]
    /\ UNCHANGED <<notify, priority, target>>

\* The notification value is overwritten; the limit of wait_storage is one token.
Notified(pending, reason) == IF FreeRTOS THEN <<reason>> ELSE <<"token">>

\* fault: only one of the threads that are woken together is notified
notify_one(woken, reason) ==
    LET first == CHOOSE t \in woken : TRUE
    IN  [notify EXCEPT ![first] = Notified(@, reason)]

os_waitq_notify_thread_locked(woken, reason) ==
    [t \in Threads |-> IF t \in woken THEN Notified(notify[t], reason) ELSE notify[t]]

Wake(woken, reason) ==
    /\ wait_q' = [t \in Threads |-> IF t \in woken THEN Null ELSE wait_q[t]]
    /\ wait_result' = [t \in Threads |-> IF t \in woken THEN reason ELSE wait_result[t]]
    /\ notify' = os_waitq_notify_thread_locked(woken, reason)
    /\ UNCHANGED <<received, priority, pc, target>>

os_waitq_wake_one(q, reason) ==
    /\ ~sys_dlist_is_empty(mem, q)
    /\ mem' = sys_dlist_get(mem, q)
    /\ Wake({sys_dlist_peek_head(mem, q)}, reason)

\* Waiters are taken off the queue until it is empty.
os_waitq_wake_all(q, reason) ==
    LET taken[k \in 0 .. Cardinality(Threads)] ==
            IF k = 0 THEN mem ELSE sys_dlist_get(taken[k - 1], q)
    IN  /\ ~sys_dlist_is_empty(mem, q)
        /\ mem' = taken[Cardinality(Threads)]
        /\ Wake(ToSet(ForEachNode(mem, q)), reason)

\* A waiting thread is taken out and put back where its priority belongs.
Reorder(t) ==
    mem' = IF wait_q[t] = Null THEN mem
           ELSE os_waitq_insert_priority_locked(sys_dlist_remove(mem, t), wait_q[t], t,
                                                priority')

\* On RT-Thread the queue is reordered in a critical section of its own.
os_thread_set_priority(a, t, p) ==
    /\ pc[a] = "run"
    /\ priority' = [priority EXCEPT ![t] = p]
    /\ IF FreeRTOS THEN Reorder(t) /\ UNCHANGED <<pc, target>>
       ELSE /\ Goto(a, "run", "reorder")
            /\ target' = [target EXCEPT ![a] = t]
            /\ UNCHANGED mem
    /\ UNCHANGED <<wait_q, wait_result, notify, received>>

os_thread_set_priority_reorder(a) ==
    /\ Goto(a, "reorder", "run")
    /\ target' = [target EXCEPT ![a] = Null]
    /\ priority' = priority /\ Reorder(target[a])
    /\ UNCHANGED <<wait_q, wait_result, notify, received>>

\* os_waitq_init; no thread is created yet.
WaitInit ==
    /\ port \in Ports
    /\ mem = [x \in Queues \cup Threads |->
                 IF x \in Queues THEN [next |-> x, prev |-> x]
                 ELSE [next |-> Null, prev |-> Null]]
    /\ wait_q = [t \in Threads |-> Null]
    /\ wait_result = [t \in Threads |-> Null]
    /\ notify = [t \in Threads |-> <<>>]
    /\ received = [t \in Threads |-> Null]
    /\ priority = [t \in Threads |-> Min(Priorities)]
    /\ pc = [a \in Actors |-> IF a \in Clients THEN "run" ELSE "none"]
    /\ target = [a \in Actors |-> Null]

WaitStep(t) == os_waitq_block_notified(t) \/ os_waitq_block_return(t)

WaitNext ==
    /\ UNCHANGED port
    /\ \/ \E t \in Threads : \/ WaitStep(t) \/ os_waitq_block_expired(t)
                             \/ \E q \in Queues : os_waitq_block(t, q)
       \/ \E q \in Queues, r \in Reasons : os_waitq_wake_one(q, r) \/ os_waitq_wake_all(q, r)
       \/ \E a \in Actors : os_thread_set_priority_reorder(a)
-----------------------------------------------------------------------------
(***************************************************************************)
(* The pointers of a queue form one ring through exactly the threads whose *)
(* wait_q names it, whatever wakes, timeouts, aborts and priority changes  *)
(* unlinked and relinked; a thread that waits nowhere is unlinked.         *)
(***************************************************************************)
WaitQueuesAreSound ==
    /\ \A q \in Queues :
          LET s == ForEachNode(mem, q)
          IN  /\ ToSet(s) = {t \in Threads : wait_q[t] = q}
              /\ IsInjective(s)
              /\ \A x \in ToSet(s) \cup {q} : mem[mem[x].next].prev = x
    /\ \A t \in Threads : wait_q[t] = Null <=> mem[t].next = Null

(***************************************************************************)
(* On FreeRTOS a queue is ordered by the current priority of its threads,  *)
(* so that wake_one wakes the most urgent one.                             *)
(***************************************************************************)
WaitQueuesAreOrdered ==
    FreeRTOS => \A q \in Queues :
        LET s == ForEachNode(mem, q)
        IN  \A i, j \in DOMAIN s : i < j => priority[s[i]] >= priority[s[j]]
=============================================================================
