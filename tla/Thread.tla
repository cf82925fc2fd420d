------------------------------- MODULE Thread -------------------------------
(***************************************************************************)
(* The life of a thread in the FreeRTOS and the RT-Thread port             *)
(* (src/osal_freertos/thread.c, src/osal_rtthread/thread.c): creation, the *)
(* completion handshake of a task that returns, join, delete, cooperative  *)
(* cancellation, and aborts of threads that run, wait in a wait queue or   *)
(* are about to leave one.  A task that ends, or its aborter, first marks  *)
(* the object completed, then gives the completion semaphore, then sets    *)
(* completion_signaled: three steps.  A join takes the semaphore and reaps *)
(* the object in two steps, whose order differs between the ports.         *)
(*                                                                         *)
(* Calls that are refused change nothing and have no action.  The fields   *)
(* state and aborted are written and never read, and are left out.         *)
(***************************************************************************)
EXTENDS WaitQueue

VARIABLES obj,        \* struct os_thread: the life-cycle fields
          completion, \* "dead", "empty" or "given": the completion semaphore
          late,       \* what the task of an earlier life has still to do
          botched,    \* threads of which an abort failed after the dequeueing
          disturbed,  \* ghost: threads whose life-cycle protocol was upset, see Upset
          overwritten \* ghost: a linked wait_node was zeroed

tvars == <<obj, completion, late, botched>>
vars  == <<port, wvars, priority, pc, target, tvars, disturbed, overwritten>>

Zeroed == [handle |-> FALSE, completion_handle |-> FALSE, completed |-> FALSE,
           completion_signaled |-> FALSE, completion_reaped |-> FALSE,
           join_active |-> FALSE, cancel_requested |-> FALSE]

AbortSteps == {"abort_delete", "abort_fail", "abort_give", "abort_signal"}
JoinSteps  == {"join_take", "join_expired", "join_reap", "join_free", "delete_reap",
               "delete_free"}
ExitSteps  == {"exit_give", "exit_signal", "exit_delete"}

CallOn(t)  == {a \in Actors : target[a] = t}

Set(t, field, v) == obj' = [obj EXCEPT ![t][field] = v]

\* a begins, or ends, a call on t.
Enter(a, t, to)   == Goto(a, "run", to) /\ target' = [target EXCEPT ![a] = t]
Return(a, from)   == Goto(a, from, "run") /\ target' = [target EXCEPT ![a] = Null]
Step(a, from, to) == Goto(a, from, to) /\ UNCHANGED target

\* What was kept for the task of t goes with it.
Gone(t) == /\ wait_result' = [wait_result EXCEPT ![t] = Null]
           /\ notify' = [notify EXCEPT ![t] = <<>>]
           /\ received' = [received EXCEPT ![t] = Null]
           /\ priority' = IF wait_q[t] # Null THEN priority
                          ELSE [priority EXCEPT ![t] = Min(Priorities)]
           /\ botched' = botched \ {t}
-----------------------------------------------------------------------------
(* os_thread_create                                                        *)

\* The object is new, its creation failed, or it is reaped.  A join may have
\* reaped it while its task is still on the way out; one such task is modelled.
Unused(t) == /\ pc[t] \in {"none"} \cup ExitSteps /\ late[t] = "none"
             /\ ~obj[t].handle

\* Nobody is left inside an operation on t.
Idle(t) == pc[t] = "none" /\ late[t] = "none" /\ CallOn(t) = {}

\* memset; zeroing a node that is linked breaks the ring for good.
Zero(t, handle, completion_handle) ==
    /\ obj' = [obj EXCEPT ![t] = [Zeroed EXCEPT !.handle = handle,
                                                !.completion_handle = completion_handle]]
    /\ mem' = sys_dnode_init(mem, t)
    /\ wait_q' = [wait_q EXCEPT ![t] = Null]
    /\ wait_result' = [wait_result EXCEPT ![t] = Null]
    /\ overwritten' = (wait_q[t] # Null)
    /\ disturbed' = IF Idle(t) /\ handle = completion_handle THEN disturbed \ {t}
                    ELSE disturbed \cup {t}
    /\ UNCHANGED target

os_thread_create(a, t, p) ==
    /\ pc[a] = "run" /\ Unused(t)
    /\ Zero(t, TRUE, TRUE)
    /\ completion' = [completion EXCEPT ![t] = "empty"]
    /\ late' = [late EXCEPT ![t] = IF pc[t] = "exit_delete" THEN "none" ELSE pc[t]]
    /\ notify' = [notify EXCEPT ![t] = <<>>]
    /\ received' = [received EXCEPT ![t] = Null]
    /\ priority' = [priority EXCEPT ![t] = p]
    /\ pc' = [pc EXCEPT ![t] = "run"]
    /\ botched' = botched \ {t}

\* No semaphore or no task: RT-Thread may leave completion_handle set behind.
os_thread_create_fail(a, t) ==
    /\ pc[a] = "run" /\ Unused(t)
    /\ \E left \in IF FreeRTOS THEN {FALSE} ELSE BOOLEAN : Zero(t, FALSE, left)
    /\ completion' = [completion EXCEPT ![t] = "dead"]
    /\ UNCHANGED <<late, notify, received, priority, pc, botched>>
-----------------------------------------------------------------------------
(* The end of os_task_entry and os_rt_thread_entry                         *)

os_task_entry_completed(t) ==
    /\ Step(t, "run", "exit_give")
    /\ Set(t, "completed", TRUE)
    /\ UNCHANGED <<wvars, priority, completion, late, botched>>

Given(t) == [completion EXCEPT ![t] = IF @ = "dead" THEN @ ELSE "given"]

os_task_entry_give(t) ==
    /\ Step(t, "exit_give", "exit_signal")
    /\ completion' = Given(t)
    /\ UNCHANGED <<wvars, priority, obj, late, botched>>

os_task_entry_signal(t) ==
    /\ Step(t, "exit_signal", "exit_delete")
    /\ Set(t, "completion_signaled", TRUE)
    /\ UNCHANGED <<wvars, priority, completion, late, botched>>

\* vTaskDelete(NULL), or the return from the entry.
os_task_entry_delete(t) ==
    /\ Step(t, "exit_delete", "none") /\ Gone(t)
    /\ UNCHANGED <<mem, wait_q, obj, completion, late>>

\* The same lines, for a task whose object was created anew before them.
os_task_entry_late_give(t) ==
    /\ late[t] = "exit_give" /\ late' = [late EXCEPT ![t] = "exit_signal"]
    /\ completion' = Given(t)
    /\ UNCHANGED <<wvars, priority, pc, target, obj, botched>>

os_task_entry_late_signal(t) ==
    /\ late[t] = "exit_signal" /\ late' = [late EXCEPT ![t] = "none"]
    /\ Set(t, "completion_signaled", TRUE)
    /\ UNCHANGED <<wvars, priority, pc, target, completion, botched>>
-----------------------------------------------------------------------------
(* os_thread_join and os_thread_delete                                     *)

\* fault: several joiners are let in
joins_together(t) == ~obj[t].completion_reaped /\ obj[t].completion_handle

MayJoin(t) == /\ ~obj[t].completion_reaped /\ obj[t].completion_handle
              /\ ~obj[t].join_active

os_thread_join(a, t) ==
    /\ a # t /\ MayJoin(t)
    /\ Enter(a, t, "join_take")
    /\ Set(t, "join_active", TRUE)
    /\ UNCHANGED <<wvars, priority, completion, late, botched>>

os_thread_join_take(a) ==
    /\ Step(a, "join_take", "join_reap") /\ completion[target[a]] = "given"
    /\ completion' = [completion EXCEPT ![target[a]] = "empty"]
    /\ UNCHANGED <<wvars, priority, obj, late, botched>>

os_thread_join_expire(a) ==
    /\ Step(a, "join_take", "join_expired") /\ completion[target[a]] # "given"
    /\ UNCHANGED <<wvars, priority, tvars>>

\* fault: a join that timed out leaves its mark
join_timeout_keeps_mark(a) ==
    Return(a, "join_expired") /\ UNCHANGED <<wvars, priority, tvars>>

os_thread_join_timeout(a) ==
    /\ Return(a, "join_expired")
    /\ Set(target[a], "join_active", FALSE)
    /\ UNCHANGED <<wvars, priority, completion, late, botched>>

\* fault: the completion event is not waited for
deletes_completed(t) ==
    MayJoin(t) /\ obj[t].completed

MayDelete(t) == MayJoin(t) /\ obj[t].completed /\ obj[t].completion_signaled

os_thread_delete(a, t) ==
    /\ MayDelete(t)
    /\ Enter(a, t, "delete_reap")
    /\ Set(t, "join_active", TRUE)
    /\ UNCHANGED <<wvars, priority, completion, late, botched>>

Reaped(t) == obj' = [obj EXCEPT ![t].completion_handle = FALSE, ![t].handle = FALSE,
                                ![t].completion_reaped = TRUE, ![t].join_active = FALSE]
Freed(t)  == completion' = [completion EXCEPT ![t] = "dead"]

\* os_thread_reap and os_rt_thread_reap: FreeRTOS marks the object first and
\* deletes the semaphore after that, RT-Thread the other way round.
os_thread_reap(a, from, to) ==
    /\ Step(a, from, to)
    /\ IF FreeRTOS THEN Reaped(target[a]) /\ UNCHANGED completion
                   ELSE Freed(target[a]) /\ UNCHANGED obj
    /\ UNCHANGED <<wvars, priority, late, botched>>

os_thread_reap_end(a, from) ==
    /\ Return(a, from)
    /\ IF FreeRTOS THEN Freed(target[a]) /\ UNCHANGED obj
                   ELSE Reaped(target[a]) /\ UNCHANGED completion
    /\ UNCHANGED <<wvars, priority, late, botched>>
-----------------------------------------------------------------------------
(* os_thread_cancel and os_thread_abort                                    *)

os_thread_cancel(a, t) ==
    /\ pc[a] = "run" /\ obj[t].handle /\ ~obj[t].completed
    /\ Set(t, "cancel_requested", TRUE)
    /\ UNCHANGED <<wvars, priority, pc, target, completion, late, botched>>

\* fault: an aborted thread stays on the queue it waited in
abort_leaves_queue(t) == UNCHANGED <<mem, wait_q>>

Dequeue(t) == /\ mem' = IF wait_q[t] = Null THEN mem ELSE sys_dlist_remove(mem, t)
              /\ wait_q' = [wait_q EXCEPT ![t] = Null]

\* The critical section.  FreeRTOS lets a thread abort itself.
os_thread_abort(a, t) ==
    /\ obj[t].handle /\ obj[t].completion_handle /\ ~obj[t].completed
    /\ IF a = t THEN FreeRTOS /\ Step(a, "run", "exit_give")
                ELSE Enter(a, t, "abort_delete")
    /\ Dequeue(t)
    /\ obj' = [obj EXCEPT ![t].cancel_requested = TRUE, ![t].completed = TRUE]
    /\ UNCHANGED <<wait_result, notify, received, priority, completion, late, botched>>

\* fault: the task is not deleted
abort_without_delete(a) ==
    /\ Step(a, "abort_delete", "abort_give")
    /\ UNCHANGED <<wvars, priority, tvars>>

\* vTaskDelete, rt_thread_detach or rt_thread_delete; the task may have gone already.
os_thread_abort_delete(a) ==
    /\ pc[a] = "abort_delete"
    /\ pc' = [pc EXCEPT ![target[a]] = "none", ![a] = "abort_give"]
    /\ target' = [target EXCEPT ![target[a]] = Null]
    /\ Gone(target[a])
    /\ UNCHANGED <<mem, wait_q, obj, completion, late>>

os_thread_abort_refused(a) ==
    /\ ~FreeRTOS /\ Step(a, "abort_delete", "abort_fail")
    /\ botched' = botched \cup {target[a]}
    /\ UNCHANGED <<wvars, priority, obj, completion, late>>

os_thread_abort_fail(a) ==
    /\ Return(a, "abort_fail")
    /\ Set(target[a], "completed", FALSE)
    /\ UNCHANGED <<wvars, priority, completion, late, botched>>

\* fault: the joiner is not told of the abort
abort_without_give(a) ==
    /\ Step(a, "abort_give", "abort_signal")
    /\ UNCHANGED <<wvars, priority, tvars>>

os_thread_abort_give(a) ==
    /\ Step(a, "abort_give", "abort_signal")
    /\ completion' = Given(target[a])
    /\ UNCHANGED <<wvars, priority, obj, late, botched>>

os_thread_abort_signal(a) ==
    /\ Return(a, "abort_signal")
    /\ Set(target[a], "completion_signaled", TRUE)
    /\ UNCHANGED <<wvars, priority, completion, late, botched>>
-----------------------------------------------------------------------------
Init == /\ WaitInit
        /\ obj = [t \in Threads |-> Zeroed]
        /\ completion = [t \in Threads |-> "dead"]
        /\ late = [t \in Threads |-> "none"]
        /\ botched = {} /\ disturbed = {} /\ overwritten = FALSE

\* Steps of a call in progress and of a task that has returned.
Continue(a) ==
    \/ a \in Threads /\ (\/ os_task_entry_give(a) \/ os_task_entry_signal(a)
                         \/ os_task_entry_delete(a)
                         \/ os_task_entry_late_give(a) \/ os_task_entry_late_signal(a))
    \/ os_thread_join_take(a) \/ os_thread_join_timeout(a)
    \/ os_thread_reap(a, "join_reap", "join_free") \/ os_thread_reap_end(a, "join_free")
    \/ os_thread_reap(a, "delete_reap", "delete_free")
    \/ os_thread_reap_end(a, "delete_free")
    \/ os_thread_abort_delete(a) \/ os_thread_abort_fail(a)
    \/ os_thread_abort_give(a) \/ os_thread_abort_signal(a)

Create(a, t) == \/ \E p \in Priorities : os_thread_create(a, t, p)
                \/ os_thread_create_fail(a, t)

Call(a) ==
    \E t \in Threads : \/ os_thread_join(a, t) \/ os_thread_delete(a, t)
                       \/ os_thread_cancel(a, t) \/ os_thread_abort(a, t)

\* The steps of module WaitQueue.  A native task exists for as long as its
\* priority is changed.
WaitQueueNext ==
    /\ UNCHANGED tvars
    /\ \/ WaitNext
       \/ \E a \in Actors, t \in Threads, p \in Priorities :
             /\ pc[t] # "none" /\ obj[t].handle
             /\ os_thread_set_priority(a, t, p)
             /\ UNCHANGED port

\* Targets of an abort that run on before they are deleted (nothing keeps the
\* scheduler from them), and threads on which a deleted thread had a call open.
RanOn  == {t \in Threads : /\ pc'[t] \notin {pc[t], "none"}
                           /\ \E a \in CallOn(t) : pc[a] \in {"abort_delete", "abort_fail"}}
CutOff == {t \in Threads : \E a \in CallOn(t) : pc'[a] = "none"}

Upset == UNCHANGED overwritten /\ disturbed' = disturbed \cup RanOn \cup CutOff

\* Nothing is defined any more once a linked node was zeroed: the model stops.
Next == /\ ~overwritten
        /\ \/ WaitQueueNext /\ Upset
           \/ \E a \in Actors :
                 /\ \/ \E t \in Threads : Create(a, t)
                    \/ /\ \/ Call(a) \/ Continue(a)
                          \/ os_thread_join_expire(a) \/ os_thread_abort_refused(a)
                          \/ a \in Threads /\ os_task_entry_completed(a)
                       /\ Upset
                 /\ UNCHANGED port

\* A runnable task is eventually scheduled; nothing is assumed of new calls, of
\* timeouts and of when a thread returns.
Fairness == \A a \in Actors : WF_vars(~overwritten /\ Continue(a) /\ Upset /\ UNCHANGED port)

Spec == Init /\ [][Next]_vars /\ Fairness
-----------------------------------------------------------------------------
Pcs == {"none", "run", "wait", "back", "reorder"} \cup ExitSteps \cup AbortSteps
          \cup JoinSteps

\* Types; at most one notification is pending, and a call on a thread is in
\* progress exactly while its target is set.
TypeOK == /\ port \in Ports
          /\ mem \in [Queues \cup Threads -> [next : Queues \cup Threads \cup {Null},
                                              prev : Queues \cup Threads \cup {Null}]]
          /\ wait_q \in [Threads -> Queues \cup {Null}]
          /\ wait_result \in [Threads -> Reasons \cup {Null}]
          /\ \A t \in Threads : notify[t] \in Seq(Reasons \cup {"token"}) /\ Len(notify[t]) <= 1
          /\ received \in [Threads -> Reasons \cup {"token", Null}]
          /\ priority \in [Threads -> Priorities]
          /\ pc \in [Actors -> Pcs]
          /\ target \in [Actors -> Threads \cup {Null}]
          /\ \A a \in Actors : target[a] # Null <=>
                pc[a] \in {"reorder"} \cup AbortSteps \cup JoinSteps
          /\ DOMAIN obj = Threads
          /\ \A t \in Threads : obj[t] \in [DOMAIN Zeroed -> BOOLEAN]
          /\ completion \in [Threads -> {"dead", "empty", "given"}]
          /\ late \in [Threads -> {"none", "exit_give", "exit_signal"}]
          /\ botched \subseteq Threads /\ disturbed \subseteq Threads
          /\ overwritten \in BOOLEAN

(***************************************************************************)
(* The pointers of the wait queues are sound for as long as no linked node *)
(* is zeroed, and a thread that is not disturbed is linked only while it   *)
(* waits: no exit, abort or deletion leaves it behind on a queue, where    *)
(* its re-creation would zero the node.                                    *)
(***************************************************************************)
RingsAreSound ==
    /\ ~overwritten => WaitQueuesAreSound
    /\ \A t \in Threads \ disturbed : wait_q[t] # Null => pc[t] \in {"wait", "back"}

(***************************************************************************)
(* On FreeRTOS the wait queues are ordered by priority while priorities    *)
(* change and waiters are woken, expire, are aborted and created anew.     *)
(***************************************************************************)
RingsAreOrdered == ~overwritten => WaitQueuesAreOrdered

(***************************************************************************)
(* A thread that was taken off its wait queue while it sleeps has a        *)
(* notification coming, or is being deleted: no order of wakes, timeouts,  *)
(* priority changes and aborts leaves a thread asleep that nobody can wake *)
(* any more.  (A thread of which an abort failed is left so, and a thread  *)
(* that is disturbed may be: section 4 of the README.)                     *)
(***************************************************************************)
NobodySleepsThrough ==
    \A t \in Threads \ disturbed : pc[t] = "wait" /\ wait_q[t] = Null =>
        notify[t] # <<>> \/ obj[t].completed \/ t \in botched

(***************************************************************************)
(* Whoever is about to take or to give the completion semaphore of a       *)
(* thread that is not disturbed finds it in existence: joins, deletes,     *)
(* exits and aborts by several callers do not destroy it under one         *)
(* another, unless the target of an abort runs on before it is deleted, a  *)
(* call on the thread is cut off by an abort of its caller, or the object  *)
(* is created anew before everybody has left the earlier life.             *)
(***************************************************************************)
SemaphoreIsAlive ==
    \A t \in Threads \ disturbed :
        \/ pc[t] = "exit_give"
        \/ \E a \in CallOn(t) : pc[a] \in {"join_take", "abort_give"}
        => completion[t] # "dead"

\* Somebody will still write to the object of t on behalf of its end.
Unsignaled(t) == \/ pc[t] \in {"exit_give", "exit_signal"} \/ late[t] # "none"
                 \/ \E a \in CallOn(t) : pc[a] \in AbortSteps

(***************************************************************************)
(* A thread that was joined or deleted has left application code for good: *)
(* os_thread_join and os_thread_delete return 0 only then, if the thread   *)
(* is not disturbed.                                                       *)
(***************************************************************************)
ReapedIsTerminated ==
    \A t \in Threads \ disturbed :
        \/ obj[t].completion_reaped
        \/ \E a \in CallOn(t) : pc[a] \in {"join_reap", "join_free", "delete_reap"}
        => pc[t] \in {"none", "exit_signal", "exit_delete"}

(***************************************************************************)
(* A thread that os_thread_delete reaps is not written to any more by its  *)
(* task or its aborter, which is what completion_signaled is for, as long  *)
(* as the thread is not disturbed: a target of an abort that runs on, and  *)
(* a task whose object is created anew before its last lines, do write.    *)
(***************************************************************************)
DeletedIsUntouched ==
    \A t \in Threads \ disturbed :
        \/ obj[t].completion_signaled
        \/ \E a \in CallOn(t) : pc[a] \in {"delete_reap", "delete_free"}
        => ~Unsignaled(t)

(***************************************************************************)
(* A thread that has ended stays reapable until it is reaped: its token is *)
(* in the semaphore and nobody claims the thread, or somebody is inside    *)
(* the join or delete that claims it.  No timeout of a join, no refused    *)
(* delete and no abort of the thread loses the token or the claim.  It is  *)
(* not so for a disturbed thread: a joiner that is aborted inside its join *)
(* leaves the claim behind.                                                *)
(***************************************************************************)
EndedIsReapable ==
    \A t \in Threads \ disturbed :
        obj[t].completion_signaled /\ ~obj[t].completion_reaped =>
            IF obj[t].join_active THEN \E a \in CallOn(t) : pc[a] \in JoinSteps
            ELSE completion[t] = "given"

(***************************************************************************)
(* A join of a thread that has returned or was aborted comes back, also    *)
(* when its timeout is OS_WAIT_FOREVER, unless the thread is disturbed: an *)
(* aborter that is itself aborted before it gives leaves the joiner there. *)
(***************************************************************************)
JoinReturns ==
    \A t \in Threads :
        (obj[t].completed /\ \E a \in CallOn(t) : pc[a] = "join_take")
            ~> (\/ ~obj[t].completed \/ \A a \in CallOn(t) : pc[a] # "join_take"
                \/ t \in disturbed \/ overwritten)
-----------------------------------------------------------------------------
(* What the code departs from: section 4 of the README.                    *)

(***************************************************************************)
(* A blocked thread that os_waitq_wake_one or wake_all took off the queue  *)
(* returns their reason from os_waitq_block.                               *)
(***************************************************************************)
WakeIsReported ==
    [][\A t \in Threads : pc[t] = "back" /\ pc'[t] = "run" /\ wait_q[t] = Null
                             => BlockResult(t) = wait_result[t]]_vars

(***************************************************************************)
(* A notification that ends a sleep in os_waitq_block was sent to this     *)
(* call, not to an earlier one that timed out.                             *)
(***************************************************************************)
NoStaleNotification ==
    \A t \in Threads : pc[t] = "back" /\ received[t] # Null => wait_q[t] = Null

(***************************************************************************)
(* A thread that was joined is not written to any more by its task or its  *)
(* aborter, so that its object can be created anew.                        *)
(***************************************************************************)
ReapedIsUntouched ==
    \A t \in Threads : obj[t].completion_reaped => ~Unsignaled(t)

(***************************************************************************)
(* An object is not created anew while its wait_node is linked.            *)
(***************************************************************************)
NoNodeIsZeroed == ~overwritten
=============================================================================
