------------------------------- MODULE Mutex --------------------------------
(***************************************************************************)
(* The FreeRTOS port's os_mutex (src/osal_freertos/mutex.c): recursive     *)
(* mutexes with transitive priority inheritance, priority-ordered wait     *)
(* queues and a hand-off through task notifications, with the parts of the *)
(* thread API that act on them (set_priority, abort).                      *)
(*                                                                         *)
(* Unlocking removes the first waiter from the queue, leaves the mutex     *)
(* without an owner and notifies the waiter, which comes back for the      *)
(* mutex later.  A thread's pc says where it is in os_mutex_lock:          *)
(*   "idle"    outside       "wait"    blocked in xTaskNotifyWait          *)
(*   "woken", "expired"      returned from it, notified or timed out       *)
(*   "retry"   back at the top of the loop                                 *)
(* or "abort" in os_thread_abort, before vTaskDelete; "dead" when deleted. *)
(* Calls that are refused (-EPERM, -EBUSY, -EDEADLK...) change nothing and *)
(* have no action.  A deleted task's priority stays as it was.             *)
(***************************************************************************)
EXTENDS Integers, Sequences, FiniteSets

CONSTANTS Threads, Mutexes,
          Priorities, \* FreeRTOS priorities, larger is more urgent
          MaxCount,   \* bound on recursive locking
          MaxChain,   \* OS_PI_MAX_CHAIN_DEPTH
          Ops,        \* "timeout", "set_priority", "abort", "deinit" beside lock and unlock
          None

ASSUME MutexAssumption ==
    /\ IsFiniteSet(Threads) /\ MaxChain \in Nat /\ MaxCount \in Nat \ {0}
    /\ Priorities \subseteq Nat /\ IsFiniteSet(Priorities)  \* below configMAX_PRIORITIES
    /\ None \notin Threads \cup Mutexes

VARIABLES owner, lock_count, wait_q, initialized, \* struct os_mutex
          base_priority, waiting_mutex,           \* struct os_thread
          priority,  \* uxTaskPriorityGet
          notified,  \* a task notification is pending
          pc,
          want,      \* the mutex a thread is inside os_mutex_lock for
          completed, \* struct os_thread: has been aborted
          victim     \* the thread that a thread in os_thread_abort will delete

mvars == <<owner, lock_count, initialized>>
avars == <<completed, victim>>
vars  == <<mvars, wait_q, base_priority, waiting_mutex, priority, notified, pc, want, avars>>

Owned(t, own) == {m \in Mutexes : own[m] = t}
MaxOf(S) == CHOOSE x \in S : \A y \in S : y <= x

\* sys_dlist_remove
RemoveNode(q, t) ==
    LET i == CHOOSE i \in DOMAIN q : q[i] = t
    IN  [j \in 1 .. Len(q) - 1 |-> IF j < i THEN q[j] ELSE q[j + 1]]

\* fault: new waiters go to the tail whatever their priority
insert_fifo(q, t, pri) == Append(q, t)

\* In front of the first waiter with a lower priority.
os_waitq_insert_priority_locked(q, t, pri) ==
    LET ahead == {i \in DOMAIN q : \A j \in 1 .. i : pri[t] <= pri[q[j]]}
        k     == Cardinality(ahead)
    IN  SubSeq(q, 1, k) \o <<t>> \o SubSeq(q, k + 1, Len(q))

\* fault: the current, perhaps inherited, priority is the floor
compute_keeps_boost(t, own, wq, pri, base) ==
    MaxOf({pri[t]} \cup {pri[u] : u \in {v \in Threads : \E m \in Owned(t, own) :
                              \E i \in DOMAIN wq[m] : wq[m][i] = v}})

\* The larger of t's own priority and those of the waiters on its mutexes.
os_mutex_compute_priority_locked(t, own, wq, pri, base) ==
    MaxOf({base[t]} \cup {pri[u] : u \in {v \in Threads : \E m \in Owned(t, own) :
                              \E i \in DOMAIN wq[m] : wq[m][i] = v}})

\* One turn of the loop of os_mutex_update_pi_chain_locked at thread s.cur.
PiStep(s, own, base, waits) ==
    LET t == s.cur
        p == [s.pri EXCEPT ![t] =
                 os_mutex_compute_priority_locked(t, own, s.wq, s.pri, base)]
        m == waits[t]
    IN  IF t = None \/ t \in s.visited THEN [s EXCEPT !.cur = None]
        ELSE [pri |-> p, visited |-> s.visited \cup {t},
              wq  |-> IF m = None THEN s.wq
                      ELSE [s.wq EXCEPT ![m] =
                               os_waitq_insert_priority_locked(RemoveNode(@, t), t, p)],
              cur |-> IF m = None THEN None ELSE own[m]]

\* Priorities and wait queues after the change reached thread t.
os_mutex_update_pi_chain_locked(t, own, wq, base, waits) ==
    LET chain[k \in 0 .. MaxChain] ==
            IF k = 0 THEN [pri |-> priority, wq |-> wq, visited |-> {}, cur |-> t]
            ELSE PiStep(chain[k - 1], own, base, waits)
    IN  chain[MaxChain]

SetPriorities(r) == priority' = r.pri /\ wait_q' = r.wq

\* fault: only the direct owner is looked at
deadlock_check_shallow(t, m) == owner[m] = t

os_mutex_would_deadlock_locked(t, m) ==
    LET holder[k \in 0 .. MaxChain] ==
            IF k = 0 THEN owner[m]
            ELSE IF holder[k - 1] = None \/ waiting_mutex[holder[k - 1]] = None THEN None
            ELSE owner[waiting_mutex[holder[k - 1]]]
    IN  \/ \E k \in 0 .. MaxChain - 1 : holder[k] = t
        \/ holder[MaxChain] # None

\* Preemptive scheduling on one core: a thread inside a call runs only while no
\* thread of higher priority is ready inside one.
Ready(t) == \/ pc[t] \in {"woken", "expired", "retry", "abort"}
            \/ pc[t] = "wait" /\ notified[t]
Runs(t)  == \A u \in Threads : Ready(u) => priority[u] <= priority[t]
-----------------------------------------------------------------------------
(* os_mutex_lock                                                           *)

Acquire(t, m) ==
    /\ owner[m] = None
    /\ owner' = [owner EXCEPT ![m] = t]
    /\ lock_count' = [lock_count EXCEPT ![m] = 1]
    /\ pc' = [pc EXCEPT ![t] = "idle"]
    /\ want' = [want EXCEPT ![t] = None]
    /\ UNCHANGED <<initialized, wait_q, base_priority, waiting_mutex, priority, notified>>

Block(t, m) ==
    /\ owner[m] \notin {None, t}
    /\ ~os_mutex_would_deadlock_locked(t, m)
    /\ waiting_mutex' = [waiting_mutex EXCEPT ![t] = m]
    /\ SetPriorities(os_mutex_update_pi_chain_locked(owner[m], owner,
           [wait_q EXCEPT ![m] = os_waitq_insert_priority_locked(@, t, priority)],
           base_priority, waiting_mutex'))
    /\ pc' = [pc EXCEPT ![t] = "wait"]
    /\ want' = [want EXCEPT ![t] = m]
    /\ UNCHANGED <<mvars, base_priority, notified>>

os_mutex_lock(t, m) ==
    /\ pc[t] = "idle" /\ Runs(t) /\ initialized[m]
    /\ \/ Acquire(t, m)
       \/ Block(t, m)
       \/ /\ owner[m] = t /\ lock_count[m] < MaxCount
          /\ lock_count' = [lock_count EXCEPT ![m] = @ + 1]
          /\ UNCHANGED <<owner, initialized, wait_q, base_priority, waiting_mutex,
                         priority, notified, pc, want>>

\* xTaskNotifyWait returns with the notification.
os_mutex_lock_notified(t) ==
    /\ pc[t] = "wait" /\ Runs(t) /\ notified[t]
    /\ notified' = [notified EXCEPT ![t] = FALSE]
    /\ pc' = [pc EXCEPT ![t] = "woken"]
    /\ UNCHANGED <<mvars, wait_q, base_priority, waiting_mutex, priority, want>>

os_mutex_lock_timeout(t) ==
    /\ pc[t] = "wait" /\ Runs(t) /\ ~notified[t] /\ "timeout" \in Ops
    /\ pc' = [pc EXCEPT ![t] = "expired"]
    /\ UNCHANGED <<mvars, wait_q, base_priority, waiting_mutex, priority, notified, want>>

\* Still queued: the call leaves the queue and fails (-ETIMEDOUT or -EAGAIN).
os_mutex_lock_fail(t) ==
    LET m == waiting_mutex[t]
    IN  /\ pc[t] \in {"woken", "expired"} /\ Runs(t) /\ m # None
        /\ waiting_mutex' = [waiting_mutex EXCEPT ![t] = None]
        /\ SetPriorities(os_mutex_update_pi_chain_locked(owner[m], owner,
               [wait_q EXCEPT ![m] = RemoveNode(@, t)], base_priority, waiting_mutex'))
        /\ pc' = [pc EXCEPT ![t] = "idle"]
        /\ want' = [want EXCEPT ![t] = None]
        /\ UNCHANGED <<mvars, base_priority, notified>>

\* Taken off the queue by an unlock: round the loop again.
os_mutex_lock_again(t) ==
    /\ pc[t] \in {"woken", "expired"} /\ Runs(t) /\ waiting_mutex[t] = None
    /\ pc' = [pc EXCEPT ![t] = "retry"]
    /\ UNCHANGED <<mvars, wait_q, base_priority, waiting_mutex, priority, notified, want>>

os_mutex_lock_retry(t) ==
    LET m == want[t]
    IN  /\ pc[t] = "retry" /\ Runs(t)
        /\ \/ Acquire(t, m)
           \/ Block(t, m)
           \/ /\ owner[m] # None
              /\ os_mutex_would_deadlock_locked(t, m) \/ "timeout" \in Ops
              /\ pc' = [pc EXCEPT ![t] = "idle"]
              /\ want' = [want EXCEPT ![t] = None]
              /\ UNCHANGED <<mvars, wait_q, base_priority, waiting_mutex, priority, notified>>
-----------------------------------------------------------------------------
\* fault: the next waiter is not told
unlock_without_notify(q) == notified

\* The first waiter, if there is one, is notified.
NotifyFirst(q) == IF q = <<>> THEN notified ELSE [notified EXCEPT ![Head(q)] = TRUE]

CanUnlock(t, m) == owner[m] = t /\ lock_count[m] > 0

os_mutex_unlock(t, m) ==
    /\ pc[t] = "idle" /\ Runs(t) /\ initialized[m] /\ CanUnlock(t, m)
    /\ lock_count' = [lock_count EXCEPT ![m] = @ - 1]
    /\ IF lock_count[m] > 1
       THEN UNCHANGED <<owner, initialized, wait_q, waiting_mutex, priority, notified>>
       ELSE LET q == wait_q[m]
            IN  /\ owner' = [owner EXCEPT ![m] = None]
                /\ notified' = NotifyFirst(q)
                /\ waiting_mutex' = IF q = <<>> THEN waiting_mutex
                                    ELSE [waiting_mutex EXCEPT ![Head(q)] = None]
                /\ SetPriorities(os_mutex_update_pi_chain_locked(t, owner',
                       [wait_q EXCEPT ![m] = IF q = <<>> THEN q ELSE Tail(q)],
                       base_priority, waiting_mutex'))
                /\ UNCHANGED initialized
    /\ UNCHANGED <<base_priority, pc, want>>

\* A mutex that nobody uses is initialized again.
os_mutex_init(t, m) ==
    /\ "deinit" \in Ops /\ pc[t] = "idle" /\ Runs(t) /\ ~initialized[m]
    /\ owner[m] = None /\ \A u \in Threads : want[u] # m
    /\ initialized' = [initialized EXCEPT ![m] = TRUE]
    /\ UNCHANGED <<owner, lock_count, wait_q, base_priority, waiting_mutex, priority,
                   notified, pc, want>>

\* The memset that follows the critical section is joined with it.
os_mutex_deinit(t, m) ==
    /\ "deinit" \in Ops /\ pc[t] = "idle" /\ Runs(t) /\ initialized[m]
    /\ owner[m] = None /\ wait_q[m] = <<>>
    /\ initialized' = [initialized EXCEPT ![m] = FALSE]
    /\ lock_count' = [lock_count EXCEPT ![m] = 0]
    /\ UNCHANGED <<owner, wait_q, base_priority, waiting_mutex, priority, notified, pc, want>>

\* t changes the base priority of u, which may be waiting.
os_thread_set_priority(t, u, p) ==
    /\ "set_priority" \in Ops /\ pc[t] = "idle" /\ Runs(t) /\ pc[u] # "dead"
    /\ base_priority' = [base_priority EXCEPT ![u] = p]
    /\ SetPriorities(os_mutex_update_pi_chain_locked(u, owner, wait_q, base_priority',
                                                     waiting_mutex))
    /\ UNCHANGED <<mvars, waiting_mutex, notified, pc, want>>

\* t aborts u, which must not own a mutex but may be waiting for one: the
\* critical section of os_thread_abort.  A thread that aborts itself is not
\* preempted by itself before it is deleted.
os_thread_abort(t, u) ==
    LET m == waiting_mutex[u]
    IN  /\ "abort" \in Ops /\ pc[t] = "idle" /\ Runs(t)
        /\ ~completed[u] /\ Owned(u, owner) = {}
        /\ completed' = [completed EXCEPT ![u] = TRUE]
        /\ waiting_mutex' = [waiting_mutex EXCEPT ![u] = None]
        /\ IF m = None THEN UNCHANGED <<wait_q, priority>>
           ELSE SetPriorities(os_mutex_update_pi_chain_locked(owner[m], owner,
                    [wait_q EXCEPT ![m] = RemoveNode(@, u)], base_priority, waiting_mutex'))
        /\ pc' = [pc EXCEPT ![t] = IF t = u THEN "dead" ELSE "abort"]
        /\ victim' = [victim EXCEPT ![t] = IF t = u THEN None ELSE u]
        /\ UNCHANGED <<mvars, base_priority, notified, want>>

\* vTaskDelete, after the critical section.
os_thread_abort_delete(t) ==
    LET u == victim[t]
    IN  /\ pc[t] = "abort" /\ Runs(t)
        /\ pc' = [pc EXCEPT ![u] = "dead", ![t] = "idle"]
        /\ want' = [want EXCEPT ![u] = None]
        /\ victim' = [victim EXCEPT ![u] = None, ![t] = None]
        /\ UNCHANGED <<mvars, wait_q, base_priority, waiting_mutex, priority, notified,
                       completed>>

\* The mutexes have been initialized and the threads created.
Init == /\ owner = [m \in Mutexes |-> None]
        /\ lock_count = [m \in Mutexes |-> 0]
        /\ wait_q = [m \in Mutexes |-> <<>>]
        /\ initialized = [m \in Mutexes |-> TRUE]
        /\ base_priority \in [Threads -> Priorities]
        /\ priority = base_priority
        /\ waiting_mutex = [t \in Threads |-> None]
        /\ notified = [t \in Threads |-> FALSE]
        /\ pc = [t \in Threads |-> "idle"]
        /\ want = [t \in Threads |-> None]
        /\ completed = [t \in Threads |-> FALSE]
        /\ victim = [t \in Threads |-> None]

Lock(t) == \/ os_mutex_lock_notified(t) \/ os_mutex_lock_timeout(t)
           \/ os_mutex_lock_fail(t) \/ os_mutex_lock_again(t) \/ os_mutex_lock_retry(t)

MutexStep(t) == /\ \/ \E m \in Mutexes : \/ os_mutex_lock(t, m) \/ os_mutex_unlock(t, m)
                                         \/ os_mutex_init(t, m) \/ os_mutex_deinit(t, m)
                   \/ Lock(t)
                   \/ \E u \in Threads, p \in Priorities : os_thread_set_priority(t, u, p)
                /\ UNCHANGED avars

Next == \E t \in Threads : \/ MutexStep(t)
                           \/ \E u \in Threads : os_thread_abort(t, u)
                           \/ os_thread_abort_delete(t)

Spec == Init /\ [][Next]_vars
-----------------------------------------------------------------------------
(***************************************************************************)
(* Every field has its type; in particular no lock count passes its bound  *)
(* or falls below zero, and inheritance only hands on priorities in use.   *)
(***************************************************************************)
TypeOK == /\ owner \in [Mutexes -> Threads \cup {None}]
          /\ lock_count \in [Mutexes -> 0 .. MaxCount]
          /\ wait_q \in [Mutexes -> Seq(Threads)]
          /\ initialized \in [Mutexes -> BOOLEAN]
          /\ base_priority \in [Threads -> Priorities]
          /\ priority \in [Threads -> Priorities]
          /\ waiting_mutex \in [Threads -> Mutexes \cup {None}]
          /\ notified \in [Threads -> BOOLEAN]
          /\ pc \in [Threads -> {"idle", "wait", "woken", "expired", "retry",
                                 "abort", "dead"}]
          /\ want \in [Threads -> Mutexes \cup {None}]
          /\ completed \in [Threads -> BOOLEAN]
          /\ victim \in [Threads -> Threads \cup {None}]

(***************************************************************************)
(* A wait queue holds exactly the threads that wait for its mutex, each    *)
(* once, ordered by their current priority: also after inheritance, a      *)
(* priority change or a timeout has moved threads in other queues.         *)
(***************************************************************************)
WaitQueuesAreOrdered ==
    \A m \in Mutexes :
        /\ \A t \in Threads : waiting_mutex[t] = m <=>
              Cardinality({i \in DOMAIN wait_q[m] : wait_q[m][i] = t}) = 1
        /\ \A i, j \in DOMAIN wait_q[m] :
              i < j => priority[wait_q[m][i]] >= priority[wait_q[m][j]]

\* The priorities that t must run at: its own and its waiters'.
Claims(t) ==
    {base_priority[t]} \cup
    {priority[u] : u \in {v \in Threads : /\ waiting_mutex[v] # None
                                         /\ owner[waiting_mutex[v]] = t}}

(***************************************************************************)
(* Priority inheritance: a thread runs at the larger of its own priority   *)
(* and the priorities of the threads waiting for the mutexes it owns, no   *)
(* less (inversion) and no more (a boost that outlives its reason).        *)
(* The code departs from it: section 4 of the README.                      *)
(***************************************************************************)
PrioritiesAreInherited ==
    \A t \in Threads : pc[t] # "dead" => priority[t] = MaxOf(Claims(t))

(***************************************************************************)
(* The half of it that holds for chains of mutexes, timeouts and priority  *)
(* changes as well: no thread keeps a boost whose reason is gone.          *)
(***************************************************************************)
NoBoostOutlivesItsReason ==
    \A t \in Threads : pc[t] # "dead" => priority[t] <= MaxOf(Claims(t))

(***************************************************************************)
(* The owners and waiters never form a cycle: -EDEADLK is returned before. *)
(***************************************************************************)
NoDeadlockCycle ==
    \A t \in Threads : waiting_mutex[t] # None =>
        LET holder[k \in 0 .. Cardinality(Threads)] ==
                IF k = 0 THEN t
                ELSE IF holder[k - 1] = None \/ waiting_mutex[holder[k - 1]] = None THEN None
                ELSE owner[waiting_mutex[holder[k - 1]]]
        IN  \A k \in 1 .. Cardinality(Threads) : holder[k] # t

(***************************************************************************)
(* As long as no thread is aborted, a free mutex with waiters has been     *)
(* handed to a thread that will come back for it: timeouts, retries and    *)
(* threads that lock in between strand nobody.                             *)
(***************************************************************************)
FreeMutexIsClaimed ==
    \A m \in Mutexes :
        owner[m] = None /\ wait_q[m] # <<>> /\ (\A t \in Threads : ~completed[t]) =>
            \E t \in Threads : want[t] = m /\ waiting_mutex[t] = None /\ Ready(t)

(***************************************************************************)
(* A deinitialized mutex is neither owned nor awaited.                     *)
(* The code departs from it: section 4 of the README.                      *)
(***************************************************************************)
DeinitializedIsUnused ==
    \A m \in Mutexes : ~initialized[m] => owner[m] = None /\ \A t \in Threads : want[t] # m

(***************************************************************************)
(* No mutex is left with an owner that has been deleted: an abort is       *)
(* refused while its target owns one.                                      *)
(* The code departs from it: section 4 of the README.                      *)
(***************************************************************************)
OwnerIsAlive == \A m \in Mutexes : owner[m] # None => pc[owner[m]] # "dead"

(***************************************************************************)
(* A lock call that is still queued when it returns from its wait has      *)
(* timed out: it has not been woken by a notification meant for an earlier *)
(* call.                                                                   *)
(* The code departs from it: section 4 of the README.                      *)
(***************************************************************************)
NoStaleNotification ==
    \A t \in Threads : pc[t] = "woken" => waiting_mutex[t] = None
=============================================================================
