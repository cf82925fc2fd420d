# Formal verification of hazel-osal

TLA+ models of the concurrent core of hazel-osal, TLC configurations that
model-check them and TLAPS proofs. Paths below are relative to the repository
root.

## 1. Inventory

hazel-osal is one OS abstraction API (`include/hazel_wireless/kernel.h`) over
FreeRTOS, RT-Thread and Zephyr. `src/common` builds message passing and
deferred work from four primitives (counting semaphore, critical section,
thread, tick); the ports implement the primitives. An API call is a sequence of
critical sections and semaphore operations, and other threads and interrupts
run between any two of them: that is where all the hard behaviour is.

| Component | State | Operations | What makes it correct |
| --- | --- | --- | --- |
| message queue, `common/message_queue.c` | ring, two indices, count; semaphores `items`, `spaces` | init, deinit, put, get | tokens and slots match; a bounded FIFO channel |
| FIFO, `common/fifo.c` | intrusive list, count, `items`; `queued` per node | init, deinit, put, get | a token finds a node; a node is on one list |
| memory slab, `common/mem_slab.c` | free list, free count, `available` | init, deinit, alloc, free | no NULL pop, no block lost or handed out twice |
| signal, `common/signal.c` | `raised`, `result`, binary semaphore | raise, wait, reset | a one-place mailbox |
| work queue, `common/work_queue.c` | FIFO, delayed list, current item, draining/plugged/stopping; flags and three submission numbers per item | submit, schedule, reschedule, cancel, flush (plain and delayable), drain, unplug, stop, start, worker loop | flags agree with lists; one run per submission; nothing early, lost or waiting for ever |
| FreeRTOS mutex, `osal_freertos/mutex.c` | owner, recursion count, priority-ordered wait queue; base and inherited priorities | lock, unlock, deinit; set_priority and abort of threads | inheritance, ordered queues, no deadlock cycle, no stranded waiter |
| wait queue, `osal_freertos/waitq.c`, `osal_rtthread/waitq.c`, `sys/dlist.h` | priority-ordered intrusive list, result per thread, task notification or one-token semaphore | init, block, wake one, wake all; set_priority moves a waiter | sound and ordered lists, no lost wake-up |
| thread life cycle, `osal_freertos/thread.c`, `osal_rtthread/thread.c` | completion flags and semaphore | create, join, delete, cancel, abort, the end of the entry function | reaped once, after the end, joinable until then |
| event, `*/event.c` of three ports | native bits and sleepers | init, deinit, set, clear, wait any/all with clear and timeout | a set of bits from which waits take exactly what they report |
| time, `*/time.c`, `osal_rtthread/internal.h` | epoch and previous tick | uptime from tasks and interrupts, conversions | exact uptime across the wrap, rounding and saturating conversions |
| semaphore | native object | init, deinit, take, give | inside the modules that use it |
| memory, kernel, context, name, RT-Thread mutex, rest of the Zephyr port | native objects | thin wrappers | not modelled |
| atomics, single lists, header utilities, generated macro tables | none | builtins and macros | not modelled |

Interactions: the work queue embeds a FIFO (but links and unlinks its nodes
itself), two kinds of semaphore and a thread that it joins in `stop`; message
queue, FIFO, slab and signal use only semaphores and critical sections; the
mutex shares task notifications and `wait_node` with the wait queue, and
`os_thread_set_priority` and `os_thread_abort` reach into it. The hazards, line
by line, are in `PROJECT.json`.

## 2. Modules

| Module | Models | Steps |
| --- | --- | --- |
| `MessageChannel` | what a message queue promises: a bounded FIFO channel | Send, Receive, Discard |
| `MessageQueue` | `message_queue.c` | each of put and get in four steps: call, take (or timeout), copy, give |
| `SignalMailbox` | what a signal promises | Raise, Wait, Reset |
| `Signal` | `signal.c` | wait in three steps, raise and reset atomic as in the code |
| `MemSlab`, `Fifo` | `mem_slab.c`, `fifo.c` | steps as for the message queue |
| `WorkQueue` | `work_queue.c`, with `os_thread_join` and the semaphore from the FreeRTOS port | one action per critical section or semaphore operation |
| `Mutex` | `osal_freertos/mutex.c`, with insertion from `waitq.c` and set_priority and abort from `thread.c` | one action per critical section; the wait for a notification is a step of its own |
| `Dlist` | the functions of `sys/dlist.h` the ports use | pointers: a function from nodes to next and prev |
| `WaitQueue` | `waitq.c` and set_priority of both ports, on `Dlist` | block in three steps: enqueue, notified or timed out, return |
| `Thread` | `thread.c` of both ports, on `WaitQueue` | one action per critical section, semaphore operation or unlocked write |
| `EventGroup` | what an event group promises | Wait, Serve, Return, Clear |
| `Event` | `event.c` of three ports over the native event groups | a wait in up to four steps: call, native wait, timeout, return |
| `Uptime` | `time.c` of both ports and `os_to_rt_timeout` | reading the tick and the critical section are two steps |
| `MC*` | instances for TLC | symmetry sets |
| `MessageQueueProofs`, `MemSlabProofs`, `FifoProofs`, `EventProofs`, `ThreadProofs`, `WorkQueueProofs`, `MutexProofs`, `SignalAndUptimeProofs` | proofs about the module or modules they are named after (section 5) | |

Conventions. An action has the name of the C function it models, with a suffix
when the function takes several steps. Calls that are refused and change
nothing have no action. Lower-case operators marked `fault:` are not part of a
specification: each is a plausible defect of the definition that follows it, and
is substituted for it to show that a property can fail (`mutants` in
`PROJECT.json`).

### Work queue

`queue[q]`, `work[w]` are the C structures (the fields of the embedded
`os_work` and of the delayable item together; `ttl` is a ghost, the ticks that
remain of the delay). `todo[t]` holds what is left of thread t's current call,
so a C function reads as a first critical section and a sequence of further
steps. A worker is named by its queue; a handler runs while `pc[q] = "handler"`
and may make calls of `HandlerOps`. Abstractions:

* the unlocked `started` test is joined with the critical section after it, except in
  stop. In submit and schedule a stop that completes in between is seen all the same,
  since `stopping` stays set; drain and unplug change only flags that the next start
  clears;
* in stop the test (line 575), the link (581-592), the tests of `os_fifo_deinit`, its
  zeroing and `started = false` (618) are five steps, so that stops overtake one
  another. A link to a list that has been zeroed is a write through NULL in C; the
  model goes on as if the list were initialised (section 4);
* a start is one step, although lines 144-161 have no critical section: starting a
  queue twice at once, or while a stop of it is past its link, is left to the caller.
  The worker may run before line 161 sets `started`, but its queue is empty then and
  refuses work, so it can do no more than reach its wait;
* handlers make only calls that do not wait;
* a timed wait is a countdown `left[q]`; a tick passes at any moment as long as
  the worker lags at most `MaxLag` ticks behind;
* the priority of threads plays no part: any thread may run at any time.

### Memory slab

A block may be freed by anybody, as in C: `os_mem_slab_free(t, u, b)` is a free of
any block by thread t on behalf of user u.
The ghost `held[u]` is the set of blocks u was given and has not freed, and `misused`
collects the blocks of which a free was accepted for a user who did not hold them.

### Mutex

A thread acts only while no thread of higher priority is ready inside a call
(`Runs`): preemptive scheduling on one core, the configuration of the FreeRTOS
port. The pc distinguishes a waiter that is queued, one that has returned from
`xTaskNotifyWait`, and one that goes round the loop again. `os_thread_abort` is
two steps, its critical section and `vTaskDelete`. The memset that ends
`os_mutex_deinit` (mutex.c:35) is joined with its critical section, and the unlocked
test of `initialized` in `os_mutex_lock` (125) with the critical section at 142: a
lock that is overtaken by a deinit between the two is not seen. `MaxChain` stands for
`OS_PI_MAX_CHAIN_DEPTH`.

### Wait queue and threads

`port` is a variable that `Init` chooses; the modules contain both ports, whose
control is the same up to the order of a few steps. `mem` is the memory of the
list nodes, so that a node unlinked twice or left linked corrupts a queue as it
would in C. `pc[a]` names the next step of a thread's call, `target[a]` the
thread it is made on. Clients are native tasks, which are neither aborted nor
joined. `notify[t]` is the pending task notification (FreeRTOS, a value) or the
token of `wait_storage` (RT-Thread). Abstractions:

* what the kernel keeps for a task (notification, priority, result) is reset when
  the task is deleted (`Gone`); the fields `state` and `aborted` are written and
  never read, and are left out;
* the scheduler and the callers are not assumed to keep out of the way. The target of an
  abort may run on between the aborter's critical section and the deletion
  (osal_freertos/thread.c:257 and 268), anybody may be aborted inside a call on
  another thread, and an object may be created anew while its old task or a call on it
  is still finishing (`late[t]` is what a task still has to do to an object that was
  created anew under it), or be used after a failed creation. These upset the
  life-cycle protocol of one thread, which the ghost `disturbed` remembers: `RanOn`
  and `CutOff` name the threads concerned, and `Zero` those created anew too early or
  left half-created. A re-creation when everybody has left ends it. The properties of
  the life cycle except disturbed threads; section 4 shows what becomes of them
  without the exception;
* zeroing a linked node (`overwritten`) leaves dangling pointers; the model stops there;
* one task at a time is left over per object (`late`), an object is not created anew
  while its task is still in application code, and the memset of `os_thread_create` is
  one step with the creation;
* mutexes of threads that are aborted or change priority are in `Mutex`.

### Event

The native event groups are external: their waits, sets and timeouts are modelled
from how the three ports call them and what the kernels document. On all three a
set releases every sleeper it satisfies, which then share the bits. The ports
differ in the moment a wait with clear takes the bits (Zephyr: all of them, before
waiting), in whether a thread that timed out looks again (FreeRTOS), and in how
success is found out (RT-Thread: by status, the others: by testing the bits).
`Clearing` is the set of ports on which applications pass clear.

### Uptime

`time` is the true time, `tick(time)` what the kernel counter shows. A step of an
interrupt is atomic, since the tick does not advance in it. Somebody asks for the
uptime at least once per wrap of the tick, as the 64-bit extension requires.
`Overlap` is the set of ports on which two tasks may be inside `os_uptime_get` at
once. `TickMod`, `Width`, `Forever` and `Thousand` stand for 2^32, 2^64,
`OS_WAIT_FOREVER` and 1000, scaled so that the limits are reached and
(`Width` - 1) is not a multiple of `Thousand`, as 2^64 - 1 is not one of 1000.

### Deinitialization

For message queue, FIFO, slab, signal and event the documentation makes it the caller's
duty that nobody is inside a call ("Deinitialization requires that no thread is
waiting", README.md), and the models assume it. `os_mutex_deinit` promises
`-EBUSY` instead, and the model does not assume it.

## 3. Runs

Passing runs:

| Run | Shows | Distinct states |
| --- | --- | --- |
| `MCMessageQueue` | slots accounted for, copies safe, implements `MessageChannel` | 44,497 |
| `MCFifo` | tokens match nodes, a node is on one list | 85,872 |
| `MCMemSlab` | tokens match free blocks, every block is free or with one user, none outlives the slab, blocks freed by somebody who does not hold them excepted | 89,218 |
| `SignalAll` | a raised signal is deliverable; a one-place mailbox until a reset falls between the two steps of a wait (ghost `torn`) | 9,902 |
| `WorkQueueServe` | every item has a token and is served; the timer covers the deadlines across the tick wrap, nothing is promoted early or never | 160,776 |
| `WorkQueueAll` | with every call of the API: flags match lists; a stopped queue holds no work, also when stops overtake one another | 1,476,732 |
| `WorkQueueTwo` | an item moved between two queues: flags match lists, one run per submission | 848,720 |
| `MutexAll` | with timeouts, priority changes, aborts, deinit: ordered queues, no lasting boost, no cycle, no stranded waiter | 583,314 |
| `ThreadAll` | both ports, abort targets that run on and early re-creations included: wait queues sound and ordered until a linked node is zeroed; and of threads that are not disturbed nobody sleeps through a wake, threads are reaped once, after their end, joinable until then, and joins return | 342,427 |
| `EventAll` | three ports: nobody sleeps while its bits are set; implements `EventGroup` (Zephyr: without clear) | 143,417 |
| `UptimeAll` | every uptime is the time of its call; delays are rounded up and saturate, ticks are rounded down without overflow (the last incomplete second before the limit excepted) | 8,620 |

Each module has a type invariant `TypeOK`. It is listed in the configurations of
the queues, the slab and the FIFO; for the others, where it is not what may go
wrong, it is there to be added to a configuration and for proofs.

One run ends in a counterexample, a disagreement between the code and its
documentation (quoted under `findings`): `WorkQueueLostWakeup`. The worker has
taken A's token; A is cancelled; B is submitted; the cancel takes B's token; B is
never run. Section 4 lists the others that TLC finds.

### Bounds

Two or three threads suffice for the races above: the one suspended, the one
that interferes, and a third that suffers. Capacity 2 with three threads makes the ring
wrap and be full and empty with calls in flight; `Limit` 2 lets the FIFO be
full. `TickMod` 4, 6 or 8 stands for 2^32 with `INT32_MAX` scaled along, and
time runs on, so that the tick wraps. `MaxRequests` bounds submissions, since
the submission numbers grow. `MaxLag` 1 lets one tick fall between the reading
of the tick and its use, and between a deadline and the promotion. Three threads
and two mutexes make a chain; two priorities (`MutexAll`) let one link be
boosted and fall back. Two threads and a client on one wait queue let one wait or
end while a second interferes and a third is in a call on it, with two wakes per
wait. Two tasks and a tick of 5 that wraps twice let one task be overtaken by a
wrap. Two waiters and two bits give every combination of any/all, clear and
timeout that share bits; setting and clearing need no thread of their own.
`MaxChain` 4 exceeds the longest chain, as 16 does.

`MCNext` of `MCThread` bounds the disturbances of `ThreadAll`: at most one thread is
disturbed at a time, and meanwhile (`Calm`) no other call begins than those of one step
and joins, deletions and creations of that thread. This bounds what surrounds a
disturbance, not the disturbance: each kind occurs, and calls that were in progress
when it happened go on. `JoinReturns` is not affected by steps that the bounds
refuse: fairness is that of `Spec`, so a behaviour that ends there is not fair. On RT-Thread, where no property is about the order of the
queues, priorities stay as they were at the creation. `MCView` leaves out
`cancel_requested`, which no property or guard reads. The theorems of section 5 are
about `Spec`, without these bounds.

Symmetry is used in runs of safety properties only. Deadlock checking is off
in `WorkQueueAll` (both clients may hang in a flush, see
section 4, while the bound on the lag holds time back), in `MutexAll` (every
thread may have aborted itself) and in `ThreadAll` (the model stops when a linked
node has been zeroed, and where a second thread would become disturbed).

### Fairness

Temporal properties of the work queue assume weak fairness of the next step of
a call in progress, of the worker loop (which includes that handlers return)
and of the tick: a runnable thread is eventually scheduled, as an application
that does not starve priorities guarantees, and the timer interrupt keeps
coming. No fairness is assumed of new calls. A waiting step (`os_sem_take_sync`)
is weakly fair only: it must go ahead if its token stays available.

`JoinReturns`, which is about threads that are not disturbed, assumes weak fairness of
each thread's next step inside a call or inside the end of its task. Timeouts, new
calls and the return of an entry function are not fair: a thread may run for ever,
and the property speaks of those that have ended.

## 4. Further departures

Besides the run above, TLC finds the counterexamples below when the configuration
of the module is changed as the last column says (`WorkQueueAll`, `MutexAll`,
`MCMemSlab` and `ThreadAll` for those modules, `ThreadAll` with `SPECIFICATION Spec`,
`Priorities` {1} and no `VIEW`) and the property is checked alone.

| Property | What happens | Configuration |
| --- | --- | --- |
| `WorkQueue!CallsReturn` | a running item is resubmitted and cancelled; a flush of the idle item waits for a number that is never reached (work_queue.c:313, kernel.h:984) | `FairSpec`, no symmetry, one client, `Ops` submit, cancel_sync and flush, `MaxRequests` 3, `Delays` {} |
| `WorkQueue!CancelSyncIsFinal` | a synchronous cancel returns between the promotion of an item and its submission, and the item runs afterwards (kernel.h:1090) | one client, `Ops` schedule and cancel_delayable_sync, `TickMod` 6 |
| `WorkQueue!StopCompletes` | a stop times out and is tried again; its second stop node is left on the list and the FIFO is not deinitialized (kernel.h:1127) | one client, `Ops` drain and stop |
| `WorkQueue!ZeroedListIsUntouched` | a stop that has tested `started` (work_queue.c:575) is overtaken by another that completes, and links its node to the zeroed list (589) | `Ops` drain and stop |
| `WorkQueue!NeverEarly` | a delay of `INT32_MAX` set one tick after the worker read the tick is due at once | one client, `Ops` schedule, `TickMod` 8, `Delays` {3} |
| `WorkQueue!CallsReturn` | two threads wait for one item on a semaphore of limit 1; one of them waits for ever (kernel.h:975) | `FairSpec`, no symmetry, `Ops` submit and cancel_sync |
| `MemSlab!OnlyHoldersFree` | a block is freed, allocated again by another user and freed a second time by the first; the free is accepted and the block goes to a third user (mem_slab.c:97-111) | as it is |
| `Mutex!OwnerIsAlive` | the target of an abort locks a mutex between the test and `vTaskDelete` (kernel.h:503) | `Ops` abort |
| `Mutex!FreeMutexIsClaimed` without its condition | the thread a mutex was handed to is aborted; the other waiters stay asleep | `Ops` abort |
| `Mutex!DeinitializedIsUnused` | deinit succeeds while a waiter is on its way back (kernel.h:558) | two threads, one mutex, `Ops` deinit |
| `Mutex!NoStaleNotification` | a notification that crosses a timeout ends a later lock with `-EAGAIN` | one mutex, `Ops` timeout |
| `Mutex!PrioritiesAreInherited` | an inheritance chain that ends at a mutex being handed over is not continued when it is acquired (mutex.c:144) | `Priorities` {1, 2, 3}, `Ops` {} |
| `Signal!ImplementsMailbox` | a reset falls between the two steps of a wait, which returns a discarded or a later result (signal.c:68, README.md:159) | as it is |
| `Event!ImplementsEventGroup` | a wait with clear on Zephyr passes it as `reset`: all bits are discarded before the wait and the matching ones stay set after it (zephyr/event.c:72, kernel.h:850) | `Ports` and `Clearing` {"zephyr"} |
| `Thread!WakeIsReported` | a wake that crosses a timeout is reported as `-ETIMEDOUT` (osal_freertos/waitq.c:82); holds on RT-Thread | `Ports` {"freertos"} |
| `Thread!NoStaleNotification` | the notification of a wake that crossed a timeout ends the next block at once | as it is, either port |
| `Thread!ReapedIsUntouched` | the ending task writes `completion_signaled` after its joiner has reaped the object (thread.c:18) | `Ports` {"freertos"} |
| `Thread!SemaphoreIsAlive` for disturbed threads too | an object is created anew by a second joiner before the first has deleted the semaphore (thread.c:108), which is then that of the new thread; or the target of an abort completes by itself before it is deleted, and the semaphore is given after it was reaped | `Ports` {"freertos"} |
| the same | a failed creation leaves `completion_handle`, and a join waits on a detached semaphore (osal_rtthread/thread.c:77) | `Ports` {"rtthread"} |
| `Thread!DeletedIsUntouched` for disturbed threads too | the target of an abort completes by itself, and its aborter writes afterwards; or a task writes into an object created anew (thread.c:18) | `Ports` {"freertos"} |
| `Thread!ReapedIsTerminated` for disturbed threads too | a call on the earlier life of an object created anew marks the new one reaped while it runs | `Ports` {"freertos"} |
| `Thread!EndedIsReapable` for disturbed threads too | a joiner aborted in its call leaves `join_active` set; nobody can join the thread any more (thread.c:138) | `Ports` {"freertos"} |
| `Thread!JoinReturns` for disturbed threads too | an aborter aborted in its call never gives the semaphore (kernel.h: "Immediately terminate a thread and make it joinable") | `MCSpec`, `Ports` {"freertos"} |
| `Thread!NobodySleepsThrough` for disturbed threads too | the abort of an object's earlier life fails after it was created anew and takes back `completed` of the new thread, which another abort has dequeued | `Ports` {"rtthread"}; 15 states, out of reach of a search that does not confine the calls to one thread |
| `Thread!NoNodeIsZeroed` | the target of an abort blocks again between thread.c:257 and 268, is deleted while linked, reaped and created anew: its neighbours point into the new object's zeroed node | `Ports` {"freertos"}; 11 states |
| `Thread!NobodySleepsThrough` without the exception `botched` | an abort that fails at `rt_thread_detach` leaves its target asleep and in no queue (osal_rtthread/thread.c:284) | `Ports` {"rtthread"} |
| `Thread!RingsAreOrdered` without its restriction to FreeRTOS | set_priority changes the priority before it moves the thread; a thread inserted in between leaves the queue unsorted (osal_rtthread/thread.c:326) | three threads, `Priorities` {1, 2, 3}, `Ports` {"rtthread"} |
| `Uptime!UptimeIsExact` | two overlapping calls take an older tick for a wrap and add 2^32 ticks (osal_rtthread/time.c:46, kernel.h:1188) | `Ports` and `Overlap` {"rtthread"} |
| `Uptime!ConversionSaturates` | `os_ticks_to_ms` wraps in the last incomplete second before the limit when the rate is below 1000 (time.c:33, kernel.h:1208) | as it is |
| `Uptime!FiniteTimeoutsExpire` | timeouts from 2^31 ticks on become negative, for RT-Thread a wait for ever (osal_rtthread/internal.h:26) | as it is |

What holds nevertheless: without reset the signal implements `SignalMailbox`
(911 states); one client's submit and synchronous cancel, and submit and
drain, return; on one mutex, with four threads and timeouts, the exact
`PrioritiesAreInherited` holds (96,600 states).

## 5. Proofs

Every theorem is about the whole specification of a module and holds for every
value of its constants that satisfies the named assumptions below: any set of
threads (finite where threads are counted), any capacities, any tick range.

| Module | Theorems | Property |
| --- | --- | --- |
| `MessageQueueProofs` | `TypeCorrect`, `SlotsAccounted`, `SafeCopies`, `Refinement` | `TypeOK`, `TokensAccountForSlots`, `CopiesAreSafe`, `ImplementsChannel` |
| `SignalAndUptimeProofs` | `SignalTypeCorrect`, `NeverStranded`, `IsMailbox` | `SignalTypeOK`, `RaisedIsDeliverable`, `ActsAsMailbox` |
| | `UptimeCorrect`, `DelaysCorrect`, `ConversionCorrect` | `UptimeIsExact`, `DelaysAreLongEnough`, `TicksAreConverted` |
| `MemSlabProofs` | `TypeCorrect`, `TokenMeansBlock`, `BlocksHaveOneOwner`, `DeinitIsSafe` | `TypeOK`, `TokensMatchFreeBlocks`, `BlocksArePartitioned`, `NoBlockOutlivesSlab` |
| `FifoProofs` | `TypeCorrect`, `TokensAreNodes`, `NodesAreLinkedOnce` | `TypeOK`, `TokenMeansNode`, `NodeOnOneList` |
| `EventProofs` | `TypeCorrect`, `NoLostWakeup`, `IsEventGroup` | `TypeOK`, `NobodySleepsOnSetBits`, `ImplementsEventGroup` |
| `ThreadProofs` | `NoLostWakeup`, `SemaphoreOutlivesUse`, `JoinedHasTerminated`, `DeleteIsQuiet`, `EndedStaysReapable` | `NobodySleepsThrough`, `SemaphoreIsAlive`, `ReapedIsTerminated`, `DeletedIsUntouched`, `EndedIsReapable` |
| | `QueuesAreRings`, `QueuesAreSorted` | `RingsAreSound`, `RingsAreOrdered` |
| `WorkQueueProofs` | `FlagsAndListsAgree`, `StoppedIsEmpty`, `RunsOncePerSubmission` | `FlagsMatchLists`, `StoppedQueueIsEmpty`, `OneRunPerSubmission` |
| | `ItemsHaveTokens`, `NothingIsPromotedEarly`, `SleepersWakeUp` | `EveryItemHasAToken`, `NeverEarly`, `TimerCoversDeadlines` |
| `MutexProofs` | `TypeCorrect`, `QueuesOrdered`, `NobodyDeadlocks` | `TypeOK`, `WaitQueuesAreOrdered`, `NoDeadlockCycle` |
| | `BoostsEnd`, `FreeIsClaimed` | `NoBoostOutlivesItsReason`, `FreeMutexIsClaimed` |

All follow one pattern. An inductive invariant `IInv` is proved to hold initially
(`InitInv`) and to be preserved by every action (`NextInv`, one step per action);
`Invariance` combines the two, and the theorems follow from `IInv`. TLC has checked
each `IInv` on the instance of the module's run (the lists of `QInv` with as many
places as the instance has threads).

### Message queue

`IInv` is the type invariant, the accounting and `CallsAreTracked` (nobody is inside
a call of a queue that is not initialized, and a putter passes a message). The
accounting is needed for the types: without it nothing keeps `count` within the
capacity or `os_sem_give` below its limit. It equates token counts with head counts
of threads, so each step moves one thread between two heads; the lemma `MoveOne`
says once what that does to the cardinalities. `SafeCopies` follows because a thread
about to copy makes its head count positive. For the refinement `RingIsContiguous`
is added (the write index is `count` slots after the read index), which gives the
two lemmas that a put appends to the queued sequence and a get removes its head.

### Signal

`RaisedIsDeliverable` alone is not inductive: a wait that ends consumes the result,
and nothing says that the token is gone too. `OneHandle` says it: until a reset
tears a wait, the token and the thread that has taken it stand for the same pending
result, and there is at most one of the two. The same conjunct carries the
refinement.

### Memory slab and FIFO

The accounting of tokens is proved as for the message queue. For the slab the
partition of the blocks, with `held` naming the user of each block that nobody else
has freed, supports it: the lemma `FullListHoldsAll` (a list of
`num_blocks` different blocks contains every block) is why `os_mem_slab_deinit`,
which only compares counters, knows that no such block is with a user. For the FIFO the
strengthening is `FlagsArePlaces`: `queued` of a node is set exactly when the node
is at one place of one list, which is why two queues that compete for a node cannot
both link it.

### Event

The strengthening relates the outcome that the native wait left in a thread to what
the port will return (`OutcomesAgree`). The refinement has a hypothesis, `"zephyr"
\notin Clearing`: with clear on Zephyr it is false (section 4). A set that releases
several sleepers is one step of `EventGroup` that serves a set of waits, so the
mapping needs no auxiliary variable.

### Uptime

`StoredIsRecent` and `ReadIsRecent` say that the stored epoch and tick, and the tick
that a task has read but not yet stored, are those of a moment less than one wrap
ago. Extending a tick from a stored pair is then exact (`Recovers`), also when the
pair was written by a task that was overtaken. The hypothesis `"rtthread" \notin
Overlap` excludes what section 4 refutes. The conversions rest on lemmas about
quotients, `TicksToMs` and `MsToTicks`, for every width and every rate.

### Threads

`Sound` relates, for one thread, its fields, the state of its completion semaphore,
its own pc and the steps of the calls on it. Until the semaphore is given it is
empty and no join or delete is past waiting; from then on it holds its token until
the one claimant takes it or frees the semaphore. The end of a thread is in one
hand, its own or its aborter's, and `completion_signaled` is set when that hand lets
go. `OneCall` says that a thread that is not disturbed is claimed by one call and
aborted by one call at a time, and `NoneIsLate` that no earlier task of it is left. The
lemmas `CallStep`, `NewCall`, `OwnStep` and `WaitFrame` say once what a step inside a
call, the beginning of a call, a step of the thread itself and a step of the wait
queues leave alone; each action then only has to show `Sound` for the one thread it is
about. The pointers of the wait queues play no part in it.

`Sound` is claimed of threads that are not disturbed (`Sane`), and the theorems have no
hypothesis. So each step has to be shown to disturb the threads for which it breaks
`Sound`: `MovesFreely` says that a thread that moves while it is being aborted becomes
disturbed, `Calmed` that a thread ceases to be so only when nobody is left inside a
call on it, and `LateInv` shows that what an earlier task still writes concerns
disturbed threads only. The exception is needed: section 4 has a counterexample for each theorem
without it.

### Wait queues

`QueuesAreRings` is about the pointers themselves. `Ring` says that following
`next` and `prev` from the head of a queue meets the nodes `c[1]` to `c[n]`, all
different, and comes back; `Walked` shows that `ForEachNode` returns exactly these.
`RemoveFromRing` and `InsertIntoRing` say what unlinking place `i` and linking a node
in front of it do to a ring, and that nothing outside of it is written; `OtherLists`
concludes that no other queue notices. On top of them stand the operations: a thread
leaves (`Leaves`), joins at the place of its priority (`Joins`), is moved when its
priority changes (`Requeues`), and the loop of `os_waitq_wake_all` empties the queue
(`Drains`).

The rings alone are not inductive. Nothing in them keeps `os_thread_create` from
overwriting the pointers of a queued thread, or the end of a thread from leaving a
dangling node. `InBlock` does: whoever is on a queue is inside `os_waitq_block`, or was
deleted there, and if it is not disturbed neither deleted nor completed. It rests on
the invariant of the life cycle, because a thread that blocks must not have been marked
completed before. `QInv` is the types, `InBlock`, and, until a linked node is zeroed,
one ring per queue, on FreeRTOS sorted by priority (`Linked`); `NextQ` has a lemma for
each group of actions, and `RingsImplied` draws the two properties from it. That an
abort target which runs on may be deleted in the ring is part of it: the ring stays
sound, and only the re-creation of that object breaks it.

### Work queue

The first three theorems have no hypothesis: clients and handlers may make every call,
at any moment and on any queue. `IInv` has three parts.

* `Types` says that a step of a call in progress has the queue or the item it needs.
  For the wake-up of a rescheduled item this rests on `ItemSound`: an item that is
  delayed names a queue.
* `Items` is `FlagsMatchLists`, item by item and queue by queue (`Matches`,
  `ListsSound`), and the order of the submission numbers: while an item is queued its
  last submission is above the last run and the last completion, which is
  `OneRunPerSubmission` once `RunsOnlyWhenPopped` has shown that `RUNNING` is set
  nowhere else.
* `LifeCycle` relates the worker's place in its loop to `current`, `worker` and
  `stopping` (`WorkerAgrees`) and says what a stop has achieved at each of its steps
  (`StopProceeds`). Nothing in the code refuses a second stop, and nothing in the proof
  excludes one: what a stop achieves (no work, the worker gone, no delayed item) is kept
  by every step of every other stop. From the first link on the queue takes no more work
  (`StoppingIsIdle`: only stop nodes are on its list and no item runs), and a queue that
  is not started is what a completed stop has left (`DownIsQuiet`), whoever tested
  `started` before.

The intrusive lists are sequences without repetitions; `AppendNode`, `GetNode` and
`RemoveProperties` say what linking and unlinking do to them. `ItemStep` reduces a
step to the one item it is about, `LifeFrame` to the one queue.

The other three theorems rest on `IInv` and on what a step may do to one aspect of
the state, proved once for all actions (`FifoEffects`, `CallEffects`, `TimeEffects`,
`PlaceEffects`).

* `ItemsHaveTokens` adds `Unrevoked` (no step of a call in progress takes a token
  back) to `EveryItemHasAToken` itself. Each action moves at most one token, from a
  giver to the semaphore or from there to the worker, and `Limit` bounds the list as
  it bounds the semaphore, so that a give that saturates loses nothing. The
  hypothesis `NeverCancels` is needed: `os_work_cancel` unlinks the item and takes the
  token back in two steps, and in between the token it takes may be another item's,
  which is what `WorkQueueLostWakeup` shows.
* `NothingIsPromotedEarly` adds `Clock` (ticks, deadlines and remaining delays are in
  range) and `Timely`: a delayed item's deadline is `now + ttl` modulo the tick range,
  and the tick a worker has read is at most `MaxLag` old. `RemainingIs` computes the
  wrapped difference from that, with lemmas about the remainder (`ModAdd`,
  `ModUnique`). The hypothesis `DelaysFit` says that a delay and the lag together do
  not exceed `INT32_MAX`; beyond it the theorem is false (section 4).
* `SleepersWakeUp` adds `Orderly`: in what is left of a call a give comes first, or
  second after another give. So a thread that has just delayed an item wakes the
  worker before it does anything else, and a wake-up on its way is lost only by being
  given (`WakeUpIsGiven`). `Covered` is `TimerCoversDeadlines` for one queue; it is
  established when the worker computes its timeout (`NearestIs`, `RemainingOfItem`)
  and kept because an item delayed later leaves a wake-up behind. Both hypotheses are
  needed: the token that a cancel takes back may be that wake-up.

### Mutex

`IInv` is the type invariant, `FreeMutexIsClaimed` and three more parts.

* `QueuesAre`: each wait queue is a sequence without repetitions of exactly the
  threads that wait for its mutex, sorted by priority. It is stated of any queues,
  waiting relation and priorities, so that it can be followed through the loop of
  `os_mutex_update_pi_chain_locked`, where one thread's priority is changed and the
  thread requeued per turn (`Requeued`, `PiStepQueues`); between two turns every queue
  is sorted, which is why the queues are sorted also when the loop stops at its depth
  limit.
* `Acyclic`: no non-empty set of threads waits only for mutexes of its own members.
  This form needs no paths. A new wait can close a cycle only through the thread that
  begins to wait, and following the owners from the mutex it asks for, as
  `os_mutex_would_deadlock_locked` does, stays inside the set until the thread itself
  is met or the depth limit is reached; both are refused (`NewEdge`). `NoCycle` turns
  the chain of owners of `NoDeadlockCycle` into such a set.
* `Consistent`: a thread's place in its call agrees with `waiting_mutex`, `want` and
  `notified`. It carries `FreeMutexIsClaimed`: the thread an unlock notifies is asleep
  in `os_mutex_lock` for that mutex or has just returned from its sleep, and comes
  back whatever ended it (`FreedIsClaimed`, `ClaimIsKept`).

For `BoostsEnd`, `AllJustified` is added: each thread's priority is at most its own
base priority or that of some thread waiting for it. A chain that starts where the
reason has gone leaves at each turn one thread whose priority may be unjustified, the
next (`Climbs`, `PiStepClimbs`); as there is no cycle, the chain meets no thread twice
and ends after at most as many turns as there are threads. Hence the hypothesis
`ChainIsLongEnough`, no more threads than `OS_PI_MAX_CHAIN_DEPTH` (16). The theorem
excludes boosts without a reason and not missing ones: the converse does not hold
(section 4).

The two loops are recursive functions. What they compute is established without an
induction rule: `LeastNumber` (from `WFMin`) and `InductionTo` do induction over a
set of numbers, `Iteration` shows that the function exists, `ChainResult` and
`Pursuit` say what its values satisfy.

### Assumptions

Those of the modules, evaluated by TLC in every run: sets of threads, nodes, queues
and null values are disjoint (`NoneAssumption` of the event, `FifoAssumption`,
`WaitQueueAssumption`, `NodesAssumption` of the work queue, `MutexAssumption`);
threads that hold tokens or mutexes, and the threads and queues of module
`WaitQueue`, can be counted; priorities are a set of numbers that is not empty, and
finite for the mutex; capacities are positive and the tick range has at least two
ticks; the constants of `Uptime` are in the order of those of the code (2^32 ticks of
milliseconds fit 64 bits, and so does the uptime in milliseconds for as long as the
model runs).

### Only model-checked

* All liveness (`JoinReturns`, `QueuedWorkIsServed`, `DelayedWorkIsPromoted`), which
  is outside the prover's reach.
* `TypeOK` of the work queue as it stands: its types are proved (`Types` and `Clock`
  in `WorkQueueProofs`), not that the bounds of the instances, such as `MaxRequests`
  on the submission numbers, are kept.

## 6. Not modelled

* Memory, kernel, context, name, the RT-Thread mutex and semaphore, and the
  semaphore, time and kernel of the Zephyr port: wrappers around one native call
  each. What they forward (a take with its timeout, a give that saturates) is part
  of the modules that use it. The deinitializations of RT-Thread test for users
  and detach in two steps; that no call begins in between is the caller's duty.
* Atomics: one compiler builtin each. `slist.h`, `list_gen.h`: no source file uses
  them. `byteorder.h`, `util.h`: helpers without state.
* Of the 57,238 lines of the implementation, 46,637 are generated preprocessor
  tables (`util_internal_is_eq.h`, `util_listify.h`, `util_loops.h` and the
  inc/dec/x2 tables): the compiler evaluates them, and there is nothing to model.
  Most of the other headers are declarations, comments and macros; `kernel.h` is
  the documentation the properties are taken from. The models cover the code of
  `src/common` and of the ports that changes state, about 3,400 lines.
* Argument validation (`-EINVAL`, `-EWOULDBLOCK` in interrupts), and failures of
  `os_sem_init` on static storage: no state changes.
