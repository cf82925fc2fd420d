----------------------------- MODULE WorkQueue ------------------------------
(***************************************************************************)
(* os_work_queue (src/common/work_queue.c): work items submitted from any  *)
(* thread, interrupt or handler, executed by one worker thread per queue;  *)
(* delayable items wait on a second list until their tick deadline.        *)
(*                                                                         *)
(* A critical section of the C code is one step here and so is every       *)
(* semaphore operation outside one.  What a thread still has to do before  *)
(* its current API call returns is the sequence todo[t]; other threads run *)
(* between any two of these steps.  A queue's worker thread is named by    *)
(* its queue, so os_get_current_thread() == &queue->thread reads t = q.    *)
(* The unlocked test of queue->started that opens most calls is joined     *)
(* with the critical section that follows it, except in stop, where it     *)
(* matters.                                                                *)
(***************************************************************************)
EXTENDS Integers, Sequences, FiniteSets

CONSTANTS Queues, Clients, Works,
          Ops,         \* API calls that clients make
          HandlerOps,  \* API calls that work handlers make
          MaxRequests, \* bound on submit and schedule calls
          Limit,       \* UINT16_MAX: FIFO length and semaphore limit
          TickMod,     \* 2^32: ticks wrap
          Delays,      \* delays passed to schedule, at most INT32_MAX
          MaxLag,      \* bound on how many ticks the worker may lag
          None, StopNode

Threads == Clients \cup Queues
Forever == TickMod            \* OS_WAIT_FOREVER
INT32_MAX == (TickMod \div 2) - 1

ASSUME DelaysAssumption == Delays \subseteq 0 .. INT32_MAX
\* NULL is no queue and no item, and the stop node belongs to no item.
ASSUME NodesAssumption == None \notin Queues \cup Works /\ StopNode \notin Works
ASSUME TickModAssumption == TickMod \in Nat \ {0, 1}
ASSUME BoundsAssumption == Limit \in Nat \ {0} /\ MaxRequests \in Nat /\ MaxLag \in Nat
\* Threads that give tokens can be counted.
ASSUME ThreadsAssumption == IsFiniteSet(Threads)

VARIABLES queue,  \* struct os_work_queue of each queue
          work,   \* struct os_work_delayable of each work item
          pc,     \* where each worker is in os_work_queue_entry
          tick,   \* the tick value a worker read before its critical section
          left,   \* ticks left of the timeout of a worker's os_sem_take
          todo,   \* remaining steps of each thread's API call
          now,    \* os_tick_get()
          requests

vars == <<queue, work, pc, tick, left, todo, now, requests>>

\* Steps that complete a call: what to do, on which queue or work item, and
\* the submission number a flush waits for.
Todo(do, q, w, n) == [do |-> do, q |-> q, w |-> w, n |-> n]
Give(q)           == Todo("give", q, None, 0)
Submit(q, w)      == Todo("submit", q, w, 0)
Notify(w)         == Todo("notify", None, w, 0)

At(t, do) == todo[t] # <<>> /\ Head(todo[t]).do = do

\* t goes on with `steps' and then with the rest of its call.
Continue(t, steps, rest) == todo' = [todo EXCEPT ![t] = steps \o rest]

Flags(w) == work[w].flags

\* sys_dlist_remove
RemoveNode(s, x) ==
    LET i == CHOOSE i \in DOMAIN s : s[i] = x
    IN  [j \in 1 .. Len(s) - 1 |-> IF j < i THEN s[j] ELSE s[j + 1]]

\* A thread may start a call when it is not inside one.
MayCall(t, op) == /\ todo[t] = <<>>
                  /\ IF t \in Clients THEN op \in Ops
                     ELSE pc[t] = "handler" /\ op \in HandlerOps

Request == requests < MaxRequests /\ requests' = requests + 1
-----------------------------------------------------------------------------
(* Steps shared by several calls                                           *)

\* The tokens after os_sem_give(&queue->fifo.items), which saturates and has no
\* effect on a deinitialized semaphore.
binary_semaphore(q)  == 1                  \* fault: the limit is 1
unbounded_tokens(q)  == queue[q].items + 1 \* fault: there is no limit
GivenItems(q) == IF queue[q].initialized /\ queue[q].items < Limit
                 THEN queue[q].items + 1 ELSE queue[q].items

os_sem_give_items(t) ==
    /\ At(t, "give")
    /\ LET q == Head(todo[t]).q
       IN  queue' = [queue EXCEPT ![q].items = GivenItems(q)]
    /\ Continue(t, <<>>, Tail(todo[t]))
    /\ UNCHANGED <<work, pc, tick, left, now, requests>>

\* os_sem_trytake(&queue->fifo.items)
os_sem_trytake_items(t) ==
    /\ At(t, "trytake")
    /\ queue' = [queue EXCEPT ![Head(todo[t]).q].items =
           IF @ > 0 THEN @ - 1 ELSE @]
    /\ Continue(t, <<>>, Tail(todo[t]))
    /\ UNCHANGED <<work, pc, tick, left, now, requests>>

\* The sync semaphore of a work item has limit 1.
os_work_notify(t) ==
    /\ At(t, "notify")
    /\ work' = [work EXCEPT ![Head(todo[t]).w].sync = 1]
    /\ Continue(t, <<>>, Tail(todo[t]))
    /\ UNCHANGED <<queue, pc, tick, left, now, requests>>

\* os_sem_take(&work->sync, OS_WAIT_FOREVER)
os_sem_take_sync(t) ==
    /\ At(t, "take_sync")
    /\ LET w == Head(todo[t]).w
       IN  work[w].sync = 1 /\ work' = [work EXCEPT ![w].sync = 0]
    /\ Continue(t, <<>>, Tail(todo[t]))
    /\ UNCHANGED <<queue, pc, tick, left, now, requests>>

\* fault: a stopping queue still accepts work
accepts_while_stopping(t, q, w) ==
    /\ queue[q].started
    /\ t = q \/ ~(queue[q].draining \/ queue[q].plugged)
    /\ "CANCELING" \notin Flags(w)

\* The queue state and the item let t submit or schedule w on q.
Accepts(t, q, w) ==
    /\ queue[q].started /\ ~queue[q].stopping
    /\ t = q \/ ~(queue[q].draining \/ queue[q].plugged)
    /\ "CANCELING" \notin Flags(w)

\* fault: an item already queued is queued again
enqueues_twice(t, q, w) ==
    /\ Accepts(t, q, w)
    /\ "RUNNING" \in Flags(w) => work[w].queue = q
    /\ queue[q].count < Limit

\* fault: an item running on one queue is accepted by another
runs_anywhere(t, q, w) ==
    /\ Accepts(t, q, w)
    /\ "QUEUED" \notin Flags(w)
    /\ queue[q].count < Limit

CanEnqueue(t, q, w) ==
    /\ Accepts(t, q, w)
    /\ "QUEUED" \notin Flags(w)
    /\ "RUNNING" \in Flags(w) => work[w].queue = q
    /\ queue[q].count < Limit

\* The critical section of os_work_submit_to_queue; the item's token follows.
Enqueue(t, q, w, rest) ==
    /\ IF CanEnqueue(t, q, w)
       THEN /\ queue' = [queue EXCEPT ![q].list = Append(@, w), ![q].count = @ + 1]
            /\ work' = [work EXCEPT ![w].submission_id = @ + 1,
                                    ![w].queue = q,
                                    ![w].flags = @ \cup {"QUEUED"}]
            /\ Continue(t, <<Give(q)>>, rest)
       ELSE Continue(t, <<>>, rest) /\ UNCHANGED <<queue, work>>
    /\ UNCHANGED <<pc, tick, left, now>>

\* The critical section of os_work_cancel; a token is taken back if the item
\* was queued, and waiters are notified.
Cancel(t, w, rest) ==
    LET q       == work[w].queue
        queued  == "QUEUED" \in Flags(w)
        running == "RUNNING" \in Flags(w)
    IN  /\ queue' = IF queued
                    THEN [queue EXCEPT ![q].list = RemoveNode(@, w),
                                       ![q].count = @ - 1]
                    ELSE queue
        /\ work' = [work EXCEPT
               ![w].flags = IF running THEN (@ \ {"QUEUED"}) \cup {"CANCELING"}
                                       ELSE @ \ {"QUEUED", "CANCELING"},
               ![w].completion_id = IF running THEN @ ELSE work[w].submission_id]
        /\ Continue(t, (IF queued THEN <<Todo("trytake", q, None, 0)>> ELSE <<>>)
                           \o <<Notify(w)>>, rest)
        /\ UNCHANGED <<pc, tick, left, now>>

\* Takes a delayed item off its queue's delayed list.
Undelay(w) == IF "DELAYED" \in Flags(w)
              THEN [queue EXCEPT ![work[w].dqueue].delayed = RemoveNode(@, w)]
              ELSE queue

CheckIdle(w)    == Todo("check_idle", None, w, 0)
CheckDone(w, n) == Todo("check_done", None, w, n)
TakeSync(w)     == Todo("take_sync", None, w, 0)
-----------------------------------------------------------------------------
(* Immediate work                                                          *)

os_work_submit_to_queue(t, q, w) ==
    /\ MayCall(t, "submit") /\ CanEnqueue(t, q, w) /\ Request
    /\ Enqueue(t, q, w, <<>>)

\* A submission that is part of another call: a due item, a zero delay, a flush.
os_work_submit_nested(t) ==
    /\ At(t, "submit")
    /\ Enqueue(t, Head(todo[t]).q, Head(todo[t]).w, Tail(todo[t]))
    /\ UNCHANGED requests

os_work_cancel(t, w) ==
    /\ MayCall(t, "cancel")
    /\ Cancel(t, w, <<>>)
    /\ UNCHANGED requests

os_work_cancel_nested(t) ==
    /\ At(t, "cancel")
    /\ Cancel(t, Head(todo[t]).w, Tail(todo[t]))
    /\ UNCHANGED requests

os_work_cancel_sync(t, w) ==
    /\ MayCall(t, "cancel_sync")
    /\ Cancel(t, w, <<CheckIdle(w)>>)
    /\ UNCHANGED requests

\* while (os_work_busy_get(work) != 0) os_sem_take(&work->sync)
os_work_check_idle(t) ==
    /\ At(t, "check_idle")
    /\ LET w == Head(todo[t]).w
       IN  Continue(t, IF Flags(w) = {} THEN <<>> ELSE <<TakeSync(w), CheckIdle(w)>>,
                    Tail(todo[t]))
    /\ UNCHANGED <<queue, work, pc, tick, left, now, requests>>

\* The first critical section of os_work_flush: the submission to wait for.
Flush(t, w, rest) == Continue(t, <<CheckDone(w, work[w].submission_id)>>, rest)

os_work_flush(t, w) ==
    /\ MayCall(t, "flush")
    /\ Flush(t, w, <<>>)
    /\ UNCHANGED <<queue, work, pc, tick, left, now, requests>>

os_work_flush_nested(t) ==
    /\ At(t, "flush")
    /\ Flush(t, Head(todo[t]).w, Tail(todo[t]))
    /\ UNCHANGED <<queue, work, pc, tick, left, now, requests>>

os_work_check_done(t) ==
    /\ At(t, "check_done")
    /\ LET w == Head(todo[t]).w  n == Head(todo[t]).n
       IN  Continue(t, IF work[w].completion_id = n
                       THEN <<>> ELSE <<TakeSync(w), CheckDone(w, n)>>,
                    Tail(todo[t]))
    /\ UNCHANGED <<queue, work, pc, tick, left, now, requests>>
-----------------------------------------------------------------------------
(* Delayable work                                                          *)

\* os_work_deadline_remaining: (int32_t)(deadline - at), or 0 if not positive.
early_by_one(deadline, at) == \* fault: one tick left counts as due
    LET d == (deadline - at) % TickMod IN IF d \in 2 .. INT32_MAX THEN d ELSE 0
Remaining(deadline, at) ==
    LET d == (deadline - at) % TickMod IN IF d <= INT32_MAX THEN d ELSE 0

os_work_schedule_common(t, q, w, delay, reschedule) ==
    LET delayed == "DELAYED" \in Flags(w)
        old     == work[w].dqueue
        wake    == IF delayed /\ (delay = 0 \/ old # q) THEN <<Give(old)>> ELSE <<>>
    IN  /\ MayCall(t, IF reschedule THEN "reschedule" ELSE "schedule") /\ Request
        /\ Accepts(t, q, w)
        /\ reschedule \/ Flags(w) \cap {"DELAYED", "QUEUED"} = {}
        /\ IF delay = 0
           THEN /\ queue' = Undelay(w)
                /\ work' = [work EXCEPT ![w].flags = @ \ {"DELAYED"}, ![w].ttl = 0]
                /\ Continue(t, wake, <<Submit(q, w)>>)
           ELSE /\ queue' = [Undelay(w) EXCEPT ![q].delayed = Append(@, w)]
                /\ work' = [work EXCEPT ![w].flags = @ \cup {"DELAYED"},
                                        ![w].dqueue = q,
                                        ![w].deadline = (now + delay) % TickMod,
                                        ![w].ttl = delay]
                /\ Continue(t, wake, <<Give(q)>>)
        /\ UNCHANGED <<pc, tick, left, now>>

os_work_cancel_delayable(t, w, sync) ==
    /\ MayCall(t, IF sync THEN "cancel_delayable_sync" ELSE "cancel_delayable")
    /\ queue' = Undelay(w)
    /\ work' = [work EXCEPT ![w].flags = @ \ {"DELAYED"}, ![w].ttl = 0]
    /\ Continue(t, IF "DELAYED" \in Flags(w) THEN <<Give(work[w].dqueue)>> ELSE <<>>,
                <<Todo("cancel", None, w, 0)>>
                    \o (IF sync THEN <<CheckIdle(w)>> ELSE <<>>))
    /\ UNCHANGED <<pc, tick, left, now, requests>>

os_work_flush_delayable(t, w) ==
    LET q == work[w].dqueue
    IN  /\ MayCall(t, "flush_delayable")
        /\ queue' = Undelay(w)
        /\ work' = [work EXCEPT ![w].flags = @ \ {"DELAYED"}, ![w].ttl = 0]
        /\ Continue(t, IF "DELAYED" \in Flags(w) THEN <<Give(q), Submit(q, w)>> ELSE <<>>,
                    <<Todo("flush", None, w, 0)>>)
        /\ UNCHANGED <<pc, tick, left, now, requests>>
-----------------------------------------------------------------------------
(* The worker thread: os_work_queue_entry and os_work_promote_delayed      *)

Worker(q, at) == pc[q] = at /\ todo[q] = <<>>

\* now = os_tick_get(), before the critical section
os_work_promote_tick(q) ==
    /\ Worker(q, "tick")
    /\ tick' = [tick EXCEPT ![q] = now]
    /\ pc' = [pc EXCEPT ![q] = "promote"]
    /\ UNCHANGED <<queue, work, left, todo, now, requests>>

RemainingOf(q, i) == Remaining(work[queue[q].delayed[i]].deadline, tick[q])
\* fault: the unsigned remainder is expected to become negative
never_due(q) == {i \in DOMAIN queue[q].delayed : RemainingOf(q, i) < 0}
Due(q) == {i \in DOMAIN queue[q].delayed : RemainingOf(q, i) = 0}
First(S) == CHOOSE x \in S : \A y \in S : x <= y

\* The first due item leaves the delayed list; it is submitted, or dropped if
\* the queue is plugged or stopping, after the critical section.
os_work_promote_due(q) ==
    /\ Worker(q, "promote") /\ Due(q) # {}
    /\ LET w == queue[q].delayed[First(Due(q))]
       IN  /\ queue' = Undelay(w)
           /\ work' = [work EXCEPT ![w].flags = @ \ {"DELAYED"}, ![w].ttl = 0]
           /\ Continue(q, <<IF queue[q].plugged \/ queue[q].stopping
                            THEN Notify(w) ELSE Submit(q, w)>>, <<>>)
    /\ pc' = [pc EXCEPT ![q] = "tick"]
    /\ tick' = [tick EXCEPT ![q] = 0]
    /\ UNCHANGED <<left, now, requests>>

\* The timeout of the worker's wait: the nearest deadline, if there is one.
never_timed(q) == Forever \* fault: deadlines are ignored
Nearest(q) ==
    First({RemainingOf(q, i) : i \in DOMAIN queue[q].delayed} \cup {Forever})

\* Nothing is due: wait for a token no longer than until the nearest deadline.
os_work_promote_none(q) ==
    /\ Worker(q, "promote") /\ Due(q) = {}
    /\ left' = [left EXCEPT ![q] = Nearest(q)]
    /\ pc' = [pc EXCEPT ![q] = "take"]
    /\ tick' = [tick EXCEPT ![q] = 0]
    /\ UNCHANGED <<queue, work, todo, now, requests>>

os_work_queue_take(q) ==
    /\ Worker(q, "take")
    /\ queue[q].items > 0
    /\ queue' = [queue EXCEPT ![q].items = @ - 1]
    /\ pc' = [pc EXCEPT ![q] = "pop"]
    /\ left' = [left EXCEPT ![q] = 0]
    /\ UNCHANGED <<work, tick, todo, now, requests>>

os_work_queue_timeout(q) ==
    /\ Worker(q, "take")
    /\ queue[q].items = 0 /\ left[q] = 0
    /\ pc' = [pc EXCEPT ![q] = "tick"]
    /\ UNCHANGED <<queue, work, tick, left, todo, now, requests>>

\* The token's item was cancelled, or the token was only a wake-up.
os_work_queue_pop_nothing(q) ==
    /\ Worker(q, "pop") /\ queue[q].list = <<>>
    /\ pc' = [pc EXCEPT ![q] = "tick"]
    /\ UNCHANGED <<queue, work, tick, left, todo, now, requests>>

\* sys_dlist_get
Popped(q) == [queue[q] EXCEPT !.list = Tail(@), !.count = @ - 1]

os_work_queue_pop_stop(q) ==
    /\ Worker(q, "pop") /\ queue[q].list # <<>>
    /\ Head(queue[q].list) = StopNode
    /\ queue' = [queue EXCEPT ![q] = [Popped(q) EXCEPT !.worker = "exited"]]
    /\ pc' = [pc EXCEPT ![q] = "none"]
    /\ UNCHANGED <<work, tick, left, todo, now, requests>>

os_work_queue_pop_work(q) ==
    /\ Worker(q, "pop") /\ queue[q].list # <<>>
    /\ LET w == Head(queue[q].list)
       IN  /\ w # StopNode
           /\ queue' = [queue EXCEPT ![q] = [Popped(q) EXCEPT !.current = w]]
           /\ work' = [work EXCEPT ![w].flags = (@ \ {"QUEUED"}) \cup {"RUNNING"},
                                   ![w].running_id = work[w].submission_id]
    /\ pc' = [pc EXCEPT ![q] = "handler"]
    /\ UNCHANGED <<tick, left, todo, now, requests>>

keeps_canceling(w) == Flags(w) \ {"RUNNING"} \* fault: CANCELING is not cleared
FinishedFlags(w) == Flags(w) \ {"RUNNING", "CANCELING"}

\* The handler returns.
os_work_queue_finish(q) ==
    /\ Worker(q, "handler")
    /\ LET w == queue[q].current
       IN  /\ queue' = [queue EXCEPT ![q].current = None]
           /\ work' = [work EXCEPT ![w].completion_id = work[w].running_id,
                                   ![w].flags = FinishedFlags(w)]
           /\ Continue(q, <<Notify(w)>>, <<>>)
    /\ pc' = [pc EXCEPT ![q] = "tick"]
    /\ UNCHANGED <<tick, left, now, requests>>
-----------------------------------------------------------------------------
(* Queue management                                                        *)

NewQueue == [list |-> <<>>, count |-> 0, items |-> 0, initialized |-> TRUE,
             delayed |-> <<>>, current |-> None, started |-> TRUE,
             stopping |-> FALSE, draining |-> FALSE, plugged |-> FALSE,
             worker |-> "alive", joining |-> FALSE]

\* t is inside a stop of q that has linked its stop node.
Stopping == {"join", "joining", "purge", "deinit", "zero", "stopped"}
Stops(t, q) == \E i \in DOMAIN todo[t] : todo[t][i].do \in Stopping /\ todo[t][i].q = q

\* A queue is started by one caller, once every stop of it is over.
os_work_queue_start(t, q) ==
    /\ MayCall(t, "start") /\ ~queue[q].started
    /\ \A u \in Threads : ~Stops(u, q)
    /\ queue' = [queue EXCEPT ![q] = NewQueue]
    /\ pc' = [pc EXCEPT ![q] = "tick"]
    /\ UNCHANGED <<work, tick, left, todo, now, requests>>

os_work_queue_drain(t, q, plug) ==
    /\ MayCall(t, "drain") /\ queue[q].started
    /\ queue' = [queue EXCEPT ![q].draining = TRUE, ![q].plugged = @ \/ plug]
    /\ Continue(t, <<Todo("poll", q, None, 0)>>, <<>>)
    /\ UNCHANGED <<work, pc, tick, left, now, requests>>

\* The polling loop of drain; while it is not drained it only waits.
os_work_queue_poll(t) ==
    /\ At(t, "poll")
    /\ LET q == Head(todo[t]).q
       IN  /\ queue[q].count = 0 /\ queue[q].current = None
           /\ queue' = [queue EXCEPT ![q].draining = FALSE]
    /\ Continue(t, <<>>, Tail(todo[t]))
    /\ UNCHANGED <<work, pc, tick, left, now, requests>>

os_work_queue_unplug(t, q) ==
    /\ MayCall(t, "unplug") /\ queue[q].started /\ queue[q].plugged
    /\ queue' = [queue EXCEPT ![q].plugged = FALSE]
    /\ UNCHANGED <<work, pc, tick, left, todo, now, requests>>

\* The test of queue->started; the rest of stop may come much later.
os_work_queue_stop(t, q) ==
    /\ MayCall(t, "stop") /\ t # q
    /\ queue[q].started
    /\ Continue(t, <<Todo("stop", q, None, 0)>>, <<>>)
    /\ UNCHANGED <<queue, work, pc, tick, left, now, requests>>

\* The stop node is linked to a plugged queue without work; stop fails on
\* another one.  In C the link goes astray if the FIFO has been zeroed.
os_work_queue_stop_link(t) ==
    /\ At(t, "stop")
    /\ LET q == Head(todo[t]).q
       IN  IF queue[q].plugged /\ queue[q].count = 0 /\ queue[q].current = None
           THEN /\ queue' = [queue EXCEPT ![q].stopping = TRUE,
                                          ![q].list = Append(@, StopNode),
                                          ![q].count = @ + 1]
                /\ Continue(t, <<Give(q)>>, <<Todo("join", q, None, 0)>>)
           ELSE Continue(t, <<>>, <<>>) /\ UNCHANGED queue
    /\ UNCHANGED <<work, pc, tick, left, now, requests>>

\* os_thread_join: a reaped worker is joined at once, a second joiner fails.
os_thread_join(t) ==
    /\ At(t, "join")
    /\ LET q == Head(todo[t]).q
       IN  \/ /\ queue[q].worker = "reaped"
              /\ Continue(t, <<Todo("purge", q, None, 0)>>, <<>>)
              /\ UNCHANGED queue
           \/ /\ queue[q].worker # "reaped" /\ queue[q].joining
              /\ Continue(t, <<>>, <<>>)
              /\ UNCHANGED queue
           \/ /\ queue[q].worker # "reaped" /\ ~queue[q].joining
              /\ queue' = [queue EXCEPT ![q].joining = TRUE]
              /\ Continue(t, <<Todo("joining", q, None, 0)>>, <<>>)
    /\ UNCHANGED <<work, pc, tick, left, now, requests>>

os_thread_join_reap(t) ==
    /\ At(t, "joining")
    /\ LET q == Head(todo[t]).q
       IN  /\ queue[q].worker = "exited"
           /\ queue' = [queue EXCEPT ![q].worker = "reaped", ![q].joining = FALSE]
           /\ Continue(t, <<Todo("purge", q, None, 0)>>, <<>>)
    /\ UNCHANGED <<work, pc, tick, left, now, requests>>

\* The timeout passed to stop expires first: stop returns -ETIMEDOUT.
os_thread_join_timeout(t) ==
    /\ At(t, "joining")
    /\ LET q == Head(todo[t]).q
       IN  /\ queue[q].worker # "exited"
           /\ queue' = [queue EXCEPT ![q].joining = FALSE]
    /\ Continue(t, <<>>, <<>>)
    /\ UNCHANGED <<work, pc, tick, left, now, requests>>

\* The worker is gone: remaining delayed items are dropped one by one.
os_work_queue_stop_purge(t) ==
    /\ At(t, "purge")
    /\ LET q == Head(todo[t]).q
           w == Head(queue[q].delayed)
       IN  IF queue[q].delayed # <<>>
           THEN /\ queue' = [queue EXCEPT ![q].delayed = Tail(@)]
                /\ work' = [work EXCEPT ![w].flags = @ \ {"DELAYED"}, ![w].ttl = 0]
                /\ Continue(t, <<Notify(w)>>, todo[t])
           ELSE /\ Continue(t, <<Todo("deinit", q, None, 0)>>, <<>>)
                /\ UNCHANGED <<queue, work>>
    /\ UNCHANGED <<pc, tick, left, now, requests>>

\* The tests of os_fifo_deinit: it fails on a FIFO that is not initialized or
\* not empty, and stop with it.
os_work_queue_stop_deinit(t) ==
    /\ At(t, "deinit")
    /\ LET q == Head(todo[t]).q
       IN  Continue(t, IF queue[q].initialized /\ queue[q].list = <<>>
                       THEN <<Todo("zero", q, None, 0)>> ELSE <<>>, <<>>)
    /\ UNCHANGED <<queue, work, pc, tick, left, now, requests>>

\* The rest of os_fifo_deinit: os_sem_deinit, which only the first of two
\* callers gets past, and the zeroing.
os_work_queue_stop_zero(t) ==
    /\ At(t, "zero")
    /\ LET q == Head(todo[t]).q
       IN  IF queue[q].initialized
           THEN /\ queue' = [queue EXCEPT ![q].initialized = FALSE, ![q].items = 0,
                                          ![q].list = <<>>, ![q].count = 0]
                /\ Continue(t, <<Todo("stopped", q, None, 0)>>, <<>>)
           ELSE Continue(t, <<>>, <<>>) /\ UNCHANGED queue
    /\ UNCHANGED <<work, pc, tick, left, now, requests>>

\* queue->started = false, outside any critical section
os_work_queue_stop_done(t) ==
    /\ At(t, "stopped")
    /\ queue' = [queue EXCEPT ![Head(todo[t]).q].started = FALSE]
    /\ Continue(t, <<>>, <<>>)
    /\ UNCHANGED <<work, pc, tick, left, now, requests>>
-----------------------------------------------------------------------------
\* One tick.  The worker is late by at most MaxLag ticks in leaving its
\* promotion loop and in promoting a due item.
Tick ==
    /\ \A q \in Queues : pc[q] = "promote" => (now - tick[q]) % TickMod < MaxLag
    /\ \A w \in Works : "DELAYED" \in Flags(w) => work[w].ttl > -MaxLag
    /\ now' = (now + 1) % TickMod
    /\ work' = [w \in Works |-> IF "DELAYED" \in Flags(w)
                                THEN [work[w] EXCEPT !.ttl = @ - 1] ELSE work[w]]
    /\ left' = [q \in Queues |-> IF left[q] \in 1 .. INT32_MAX
                                 THEN left[q] - 1 ELSE left[q]]
    /\ UNCHANGED <<queue, pc, tick, todo, requests>>

\* os_work_init_delayable; the queues have been started.
Init == /\ queue = [q \in Queues |-> NewQueue]
        /\ work = [w \in Works |-> [flags |-> {}, queue |-> None, dqueue |-> None,
                                    deadline |-> 0, ttl |-> 0, sync |-> 0,
                                    submission_id |-> 0, running_id |-> 0,
                                    completion_id |-> 0]]
        /\ pc = [q \in Queues |-> "tick"]
        /\ tick = [q \in Queues |-> 0]
        /\ left = [q \in Queues |-> 0]
        /\ todo = [t \in Threads |-> <<>>]
        /\ now = 0
        /\ requests = 0

Call(t) ==
    \/ \E w \in Works : \/ \E q \in Queues : os_work_submit_to_queue(t, q, w)
                        \/ os_work_cancel(t, w) \/ os_work_cancel_sync(t, w)
                        \/ os_work_flush(t, w) \/ os_work_flush_delayable(t, w)
                        \/ \E sync \in BOOLEAN : os_work_cancel_delayable(t, w, sync)
                        \/ \E q \in Queues, d \in Delays, re \in BOOLEAN :
                               os_work_schedule_common(t, q, w, d, re)
    \/ \E q \in Queues : \/ os_work_queue_start(t, q) \/ os_work_queue_stop(t, q)
                         \/ os_work_queue_unplug(t, q)
                         \/ \E plug \in BOOLEAN : os_work_queue_drain(t, q, plug)

\* The next step of a call in progress.
Proceed(t) ==
    \/ os_sem_give_items(t) \/ os_sem_trytake_items(t)
    \/ os_work_notify(t) \/ os_sem_take_sync(t)
    \/ os_work_submit_nested(t) \/ os_work_cancel_nested(t)
    \/ os_work_flush_nested(t) \/ os_work_check_idle(t) \/ os_work_check_done(t)
    \/ os_work_queue_poll(t)
    \/ os_work_queue_stop_link(t)
    \/ os_thread_join(t) \/ os_thread_join_reap(t) \/ os_thread_join_timeout(t)
    \/ os_work_queue_stop_purge(t) \/ os_work_queue_stop_deinit(t)
    \/ os_work_queue_stop_zero(t) \/ os_work_queue_stop_done(t)

os_work_queue_entry(q) ==
    \/ os_work_promote_tick(q) \/ os_work_promote_due(q) \/ os_work_promote_none(q)
    \/ os_work_queue_take(q) \/ os_work_queue_timeout(q)
    \/ os_work_queue_pop_nothing(q) \/ os_work_queue_pop_stop(q)
    \/ os_work_queue_pop_work(q) \/ os_work_queue_finish(q)

Next == \/ \E t \in Threads : Call(t) \/ Proceed(t)
        \/ \E q \in Queues : os_work_queue_entry(q)
        \/ Tick

Spec == Init /\ [][Next]_vars

\* Every thread inside a call and every worker keeps being scheduled, handlers
\* return, and time passes.
Fairness == /\ \A t \in Threads : WF_vars(Proceed(t))
            /\ \A q \in Queues : WF_vars(os_work_queue_entry(q))
            /\ WF_vars(Tick)

FairSpec == Spec /\ Fairness
-----------------------------------------------------------------------------
TodoSteps == [do : {"give", "trytake", "notify", "take_sync", "submit", "cancel",
                    "flush", "check_idle", "check_done", "poll", "stop", "join", "joining",
                    "purge", "deinit", "zero", "stopped"},
              q : Queues \cup {None}, w : Works \cup {None}, n : 0 .. MaxRequests]

\* Types; counters stay within the FIFO limit and the request bound.
TypeOK ==
    /\ queue \in [Queues ->
          [list : Seq(Works \cup {StopNode}), count : 0 .. Limit, items : 0 .. Limit,
           initialized : BOOLEAN, delayed : Seq(Works), current : Works \cup {None},
           started : BOOLEAN, stopping : BOOLEAN, draining : BOOLEAN,
           plugged : BOOLEAN, worker : {"alive", "exited", "reaped"},
           joining : BOOLEAN]]
    /\ work \in [Works ->
          [flags : SUBSET {"RUNNING", "CANCELING", "QUEUED", "DELAYED"},
           queue : Queues \cup {None}, dqueue : Queues \cup {None},
           deadline : 0 .. TickMod - 1, ttl : -MaxLag .. INT32_MAX, sync : 0 .. 1,
           submission_id : 0 .. MaxRequests, running_id : 0 .. MaxRequests,
           completion_id : 0 .. MaxRequests]]
    /\ pc \in [Queues -> {"tick", "promote", "take", "pop", "handler", "none"}]
    /\ tick \in [Queues -> 0 .. TickMod - 1]
    /\ left \in [Queues -> 0 .. TickMod]
    /\ todo \in [Threads -> Seq(TodoSteps)]
    /\ now \in 0 .. TickMod - 1
    /\ requests \in 0 .. MaxRequests

Member(s, x) == \E i \in DOMAIN s : s[i] = x
NoDuplicates(s) == \A i, j \in DOMAIN s : s[i] = s[j] => i = j

(***************************************************************************)
(* The flags of an item and the lists of the queues never disagree: an     *)
(* item is QUEUED on exactly the list of its queue, DELAYED on exactly the *)
(* delayed list of its queue and RUNNING in exactly one worker, however    *)
(* submissions, promotions, cancellations and stops interleave.  So an     *)
(* intrusive node is never linked twice and a handler never runs on two    *)
(* workers at once.                                                        *)
(***************************************************************************)
FlagsMatchLists ==
    /\ \A q \in Queues, w \in Works :
          /\ Member(queue[q].list, w) <=> "QUEUED" \in Flags(w) /\ work[w].queue = q
          /\ Member(queue[q].delayed, w) <=> "DELAYED" \in Flags(w) /\ work[w].dqueue = q
          /\ queue[q].current = w <=> "RUNNING" \in Flags(w) /\ work[w].queue = q
    /\ \A q \in Queues : /\ NoDuplicates(queue[q].list)
                          /\ NoDuplicates(queue[q].delayed)
                          /\ queue[q].count = Len(queue[q].list)
    /\ \A w \in Works : "CANCELING" \in Flags(w) => "RUNNING" \in Flags(w)

\* Threads about to give a token to q.
Givers(q) == {t \in Threads : At(t, "give") /\ Head(todo[t]).q = q}

(***************************************************************************)
(* Every item on the list of an initialized FIFO has a token that will     *)
(* wake the worker for it: already in the semaphore, about to be given by  *)
(* the thread that queued the item, or just taken by the worker.           *)
(***************************************************************************)
EveryItemHasAToken ==
    \A q \in Queues : queue[q].initialized =>
        Len(queue[q].list) <= queue[q].items + Cardinality(Givers(q))
                                + (IF pc[q] = "pop" THEN 1 ELSE 0)

\* A call that will give a token to q, now or later, is in progress.
Waking(q) == \E t \in Threads : Member(todo[t], Give(q))

(***************************************************************************)
(* A worker that sleeps with no wake-up on its way, neither next nor later *)
(* in a call, will wake up by itself at most MaxLag ticks after the        *)
(* nearest deadline.                                                       *)
(***************************************************************************)
TimerCoversDeadlines ==
    \A q \in Queues : pc[q] = "take" /\ queue[q].items = 0 /\ ~Waking(q) =>
        \A i \in DOMAIN queue[q].delayed :
            left[q] <= work[queue[q].delayed[i]].ttl + MaxLag

(***************************************************************************)
(* Delayed work is never promoted before its delay has passed.             *)
(***************************************************************************)
NeverEarly ==
    [][\A q \in Queues, w \in Works :
          pc[q] = "promote" /\ pc'[q] = "tick" /\ "DELAYED" \in Flags(w)
            /\ "DELAYED" \notin work'[w].flags => work[w].ttl <= 0]_vars

(***************************************************************************)
(* A handler is invoked at most once per submission, and never for one     *)
(* that has been completed or cancelled.                                   *)
(***************************************************************************)
OneRunPerSubmission ==
    [][\A w \in Works : "RUNNING" \notin Flags(w) /\ "RUNNING" \in work'[w].flags =>
          /\ work'[w].running_id > work[w].running_id
          /\ work'[w].running_id > work[w].completion_id]_vars

OnlyStopNodes(s) == \A i \in DOMAIN s : s[i] = StopNode

(***************************************************************************)
(* A stopped queue holds no work, whatever stops overtake one another: no  *)
(* item is queued, delayed or running on it, and its worker is gone.  Only *)
(* the node of a stop that was overtaken by another may be left.           *)
(***************************************************************************)
StoppedQueueIsEmpty ==
    \A q \in Queues : ~queue[q].started =>
        /\ OnlyStopNodes(queue[q].list) /\ queue[q].delayed = <<>>
        /\ queue[q].current = None /\ queue[q].worker = "reaped"

(***************************************************************************)
(* os_work_queue_stop never fails once its worker has been joined.         *)
(* The code departs from it: section 4 of the README.                      *)
(***************************************************************************)
StopCompletes ==
    \A t \in Threads : At(t, "deinit") =>
        LET q == Head(todo[t]).q IN queue[q].list = <<>> /\ queue[q].initialized

(***************************************************************************)
(* Nothing is linked to the list of a FIFO that has been zeroed.           *)
(* The code departs from it: section 4 of the README.                      *)
(***************************************************************************)
ZeroedListIsUntouched == \A q \in Queues : ~queue[q].initialized => queue[q].list = <<>>

(***************************************************************************)
(* When a synchronous cancellation returns, no worker is about to submit   *)
(* the item it has cancelled.                                              *)
(* The code departs from it: section 4 of the README.                      *)
(***************************************************************************)
CancelSyncIsFinal ==
    [][\A t \in Clients : At(t, "check_idle") /\ todo'[t] = <<>> =>
          \A q \in Queues : At(q, "submit") => Head(todo[q]).w # Head(todo[t]).w]_vars

(***************************************************************************)
(* Queued work leaves the queue: its handler is invoked, or it is          *)
(* cancelled.                                                              *)
(***************************************************************************)
QueuedWorkIsServed ==
    \A w \in Works : ("QUEUED" \in Flags(w)) ~> ("QUEUED" \notin Flags(w))

(***************************************************************************)
(* Delayed work does not stay delayed for ever.                            *)
(***************************************************************************)
DelayedWorkIsPromoted ==
    \A w \in Works : ("DELAYED" \in Flags(w)) ~> ("DELAYED" \notin Flags(w))

(***************************************************************************)
(* Every API call returns.                                                 *)
(***************************************************************************)
CallsReturn == \A t \in Clients : (todo[t] # <<>>) ~> (todo[t] = <<>>)
=============================================================================
