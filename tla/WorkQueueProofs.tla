-------------------------- MODULE WorkQueueProofs ---------------------------
(***************************************************************************)
(* Proofs about os_work_queue for any number of queues, clients and items, *)
(* any tick range and any choice of calls, in handlers too.                *)
(***************************************************************************)
EXTENDS WorkQueue, SequenceTheorems, FiniteSetTheorems, WellFoundedInduction, TLAPS

AllFlags == {"RUNNING", "CANCELING", "QUEUED", "DELAYED"}
OnItem   == {"notify", "take_sync", "submit", "cancel", "flush", "check_idle", "check_done"}
OnQueue  == {"give", "trytake", "submit", "poll", "stop"} \cup Stopping
Joined   == {"purge", "deinit", "zero", "stopped"}
Purged   == {"deinit", "zero", "stopped"}

\* A step of a call with the queue or the item it needs.
WellFormed(s) == /\ s.do \in OnItem \cup OnQueue
                 /\ s.do \in OnItem => s.w \in Works
                 /\ s.do \in OnQueue => s.q \in Queues

Steps == {s \in [do : OnItem \cup OnQueue, q : Queues \cup {None}, w : Works \cup {None},
                 n : Nat] : WellFormed(s)}

Places == {"tick", "promote", "take", "pop", "handler", "none"}

QueueType == [list : Seq(Works \cup {StopNode}), count : Nat, items : Nat,
              initialized : BOOLEAN, delayed : Seq(Works), current : Works \cup {None},
              started : BOOLEAN, stopping : BOOLEAN, draining : BOOLEAN,
              plugged : BOOLEAN, worker : {"alive", "exited", "reaped"}, joining : BOOLEAN]

WorkType == [flags : SUBSET AllFlags, queue : Queues \cup {None}, dqueue : Queues \cup {None},
             deadline : Int, ttl : Int, sync : {0, 1},
             submission_id : Nat, running_id : Nat, completion_id : Nat]

\* Types, without the bounds of the model-checked instances.
Types == /\ queue \in [Queues -> QueueType]
         /\ work \in [Works -> WorkType]
         /\ pc \in [Queues -> Places]
         /\ todo \in [Threads -> Seq(Steps)]
         /\ now \in Int

\* FlagsMatchLists for one item and one queue.
Matches(q, w) ==
    /\ w \in Range(queue[q].list) <=> "QUEUED" \in Flags(w) /\ work[w].queue = q
    /\ w \in Range(queue[q].delayed) <=> "DELAYED" \in Flags(w) /\ work[w].dqueue = q
    /\ queue[q].current = w <=> "RUNNING" \in Flags(w) /\ work[w].queue = q

ListsSound(q) == /\ NoDuplicates(queue[q].list) /\ NoDuplicates(queue[q].delayed)
                 /\ queue[q].count = Len(queue[q].list)

(***************************************************************************)
(* An item that is on a list, or runs, names the queue it is with.  A      *)
(* submission is numbered above the last run and the last completion for   *)
(* as long as it is queued.                                                *)
(***************************************************************************)
ItemSound(w) ==
    /\ "CANCELING" \in Flags(w) => "RUNNING" \in Flags(w)
    /\ "QUEUED" \in Flags(w) \/ "RUNNING" \in Flags(w) => work[w].queue \in Queues
    /\ "DELAYED" \in Flags(w) => work[w].dqueue \in Queues
    /\ work[w].running_id <= work[w].submission_id
    /\ work[w].completion_id <= work[w].submission_id
    /\ "QUEUED" \in Flags(w) => /\ work[w].running_id < work[w].submission_id
                                /\ work[w].completion_id < work[w].submission_id

Items == /\ \A q \in Queues, w \in Works : Matches(q, w)
         /\ \A q \in Queues : ListsSound(q)
         /\ \A w \in Works : ItemSound(w)

\* Stops(t, q) of module WorkQueue: t is inside a stop of q, past its link.
InStop(t, q) == \E s \in Range(todo[t]) : s.do \in Stopping /\ s.q = q

\* The worker's place in its loop agrees with what others see of it.
WorkerAgrees(q) ==
    /\ queue[q].current # None <=> pc[q] = "handler"
    /\ queue[q].worker = "alive" <=> pc[q] # "none"
    /\ queue[q].worker # "alive" \/ StopNode \in Range(queue[q].list) => queue[q].stopping

\* The first stop node goes to a queue without work, and a stopping queue takes
\* no more of it: only stop nodes come and go.
StoppingIsIdle(q) ==
    queue[q].stopping => Range(queue[q].list) \subseteq {StopNode} /\ queue[q].current = None

\* What the steps of a stop have achieved, whatever other stops there are.
StopProceeds(q) ==
    \A t \in Threads, s \in Steps : s \in Range(todo[t]) /\ s.q = q =>
        /\ s.do \in Stopping => queue[q].stopping
        /\ s.do \in Joined => queue[q].worker = "reaped"
        /\ s.do \in Purged => queue[q].delayed = <<>>

\* A queue that is not started is what a completed stop has left.
DownIsQuiet(q) ==
    ~queue[q].started => /\ queue[q].stopping /\ queue[q].delayed = <<>>
                         /\ queue[q].worker = "reaped"

LifeCycle == \A q \in Queues : /\ WorkerAgrees(q) /\ StoppingIsIdle(q) /\ StopProceeds(q)
                               /\ DownIsQuiet(q)

\* The inductive invariant.
IInv == Types /\ Items /\ LifeCycle
-----------------------------------------------------------------------------
(* Sequences without repetitions, as the intrusive lists are.              *)

\* The definition of membership in module WorkQueue.
LEMMA MemberIsRange ==
    ASSUME NEW s, NEW x
    PROVE  Member(s, x) <=> x \in Range(s)
BY DEF Member, Range

\* sys_dlist_append of a node that is not linked.
LEMMA AppendNode ==
    ASSUME NEW S, NEW s \in Seq(S), NEW x \in S, NoDuplicates(s), x \notin Range(s)
    PROVE  /\ Append(s, x) \in Seq(S) /\ Len(Append(s, x)) = Len(s) + 1
           /\ Range(Append(s, x)) = Range(s) \cup {x}
           /\ NoDuplicates(Append(s, x))
<1> PICK a : a = Append(s, x)
  OBVIOUS
<1>1. /\ a \in Seq(S) /\ Len(a) = Len(s) + 1 /\ DOMAIN a = 1 .. Len(s) + 1
      /\ DOMAIN s = 1 .. Len(s) /\ Len(s) \in Nat
      /\ \A i \in 1 .. Len(s) : a[i] = s[i]
      /\ a[Len(s) + 1] = x
  BY AppendProperties, LenProperties
<1>2. Range(a) = Range(s) \cup {x}
  BY <1>1 DEF Range
<1>3. NoDuplicates(a)
  BY <1>1 DEF NoDuplicates, Range
<1> QED BY <1>1, <1>2, <1>3

\* sys_dlist_get from a list that is not empty.
LEMMA GetNode ==
    ASSUME NEW S, NEW s \in Seq(S), s # <<>>
    PROVE  /\ Tail(s) \in Seq(S) /\ Len(Tail(s)) = Len(s) - 1 /\ Len(s) \in Nat \ {0}
           /\ Head(s) \in S /\ Range(s) = {Head(s)} \cup Range(Tail(s))
           /\ NoDuplicates(s) => Head(s) \notin Range(Tail(s)) /\ NoDuplicates(Tail(s))
<1> PICK a : a = Tail(s)
  OBVIOUS
<1>1. /\ a \in Seq(S) /\ Len(a) = Len(s) - 1 /\ DOMAIN a = 1 .. Len(s) - 1
      /\ DOMAIN s = 1 .. Len(s) /\ Len(s) \in Nat \ {0}
      /\ \A i \in 1 .. Len(s) - 1 : a[i] = s[i + 1]
      /\ Head(s) = s[1] /\ s[1] \in S
  BY HeadTailProperties, LenProperties, EmptySeq
<1>2. Range(s) = {s[1]} \cup Range(a)
  <2>1. \A i \in DOMAIN s : i = 1 \/ (i - 1 \in DOMAIN a /\ a[i - 1] = s[i])
    BY <1>1
  <2>2. \A i \in DOMAIN a : i + 1 \in DOMAIN s /\ a[i] = s[i + 1]
    BY <1>1
  <2> QED BY <1>1, <2>1, <2>2 DEF Range
<1>3. NoDuplicates(s) => s[1] \notin Range(a) /\ NoDuplicates(a)
  BY <1>1 DEF NoDuplicates, Range
<1> QED BY <1>1, <1>2, <1>3

\* sys_dlist_remove of a node that is linked.
LEMMA RemoveProperties ==
    ASSUME NEW S, NEW s \in Seq(S), NEW x \in Range(s), NoDuplicates(s)
    PROVE  /\ RemoveNode(s, x) \in Seq(S) /\ Len(RemoveNode(s, x)) = Len(s) - 1
           /\ Len(s) \in Nat \ {0}
           /\ Range(RemoveNode(s, x)) = Range(s) \ {x}
           /\ NoDuplicates(RemoveNode(s, x))
<1>1. Len(s) \in Nat /\ DOMAIN s = 1 .. Len(s) /\ \A j \in 1 .. Len(s) : s[j] \in S
  BY LenProperties, ElementOfSeq
<1> PICK i : i = CHOOSE k \in DOMAIN s : s[k] = x
  OBVIOUS
<1>2. i \in DOMAIN s /\ s[i] = x
  BY DEF Range
<1> PICK r : r = [j \in 1 .. Len(s) - 1 |-> IF j < i THEN s[j] ELSE s[j + 1]]
  OBVIOUS
<1>3. RemoveNode(s, x) = r
  BY DEF RemoveNode
<1>4. /\ Len(s) - 1 \in Nat /\ Len(s) \in Nat \ {0}
      /\ r \in [1 .. Len(s) - 1 -> S]
  BY <1>1, <1>2
<1>5. r \in Seq(S) /\ Len(r) = Len(s) - 1 /\ DOMAIN r = 1 .. Len(s) - 1
  BY <1>4
<1>6. \A j \in DOMAIN r : r[j] = IF j < i THEN s[j] ELSE s[j + 1]
  BY <1>5
<1>7. \A k \in DOMAIN s : s[k] = x <=> k = i
  BY <1>2 DEF NoDuplicates
<1>8. Range(r) \subseteq Range(s) \ {x}
  <2> SUFFICES ASSUME NEW m \in DOMAIN r PROVE r[m] \in Range(s) \ {x}
    BY DEF Range
  <2>1. m \in DOMAIN s /\ m + 1 \in DOMAIN s
    BY <1>1, <1>5
  <2>2. m \in Int /\ i \in Int
    BY <1>1, <1>2, <1>5
  <2>3. r[m] = IF m < i THEN s[m] ELSE s[m + 1]
    BY <1>6
  <2>4. CASE m < i
    <3>1. r[m] = s[m] /\ m # i
      BY ONLY <2>2, <2>3, <2>4
    <3> QED BY <3>1, <1>7, <2>1 DEF Range
  <2>5. CASE ~(m < i)
    <3>1. r[m] = s[m + 1] /\ m + 1 # i
      BY ONLY <2>2, <2>3, <2>5
    <3> QED BY <3>1, <1>7, <2>1 DEF Range
  <2> QED BY <2>4, <2>5
<1>9. Range(s) \ {x} \subseteq Range(r)
  <2> SUFFICES ASSUME NEW k \in DOMAIN s, k # i PROVE s[k] \in Range(r)
    BY <1>2 DEF Range
  <2>1. CASE k < i
    <3>1. k \in DOMAIN r /\ r[k] = s[k]
      BY <1>1, <1>2, <1>5, <1>6, <2>1
    <3> QED BY <3>1 DEF Range
  <2>2. CASE k > i
    <3>1. k - 1 \in DOMAIN r /\ r[k - 1] = s[k]
      BY <1>1, <1>2, <1>5, <1>6, <2>2
    <3> QED BY <3>1 DEF Range
  <2>3. k < i \/ k > i
    BY <1>1, <1>2
  <2> QED BY <2>1, <2>2, <2>3
<1>10. NoDuplicates(r)
  <2> SUFFICES ASSUME NEW j \in DOMAIN r, NEW k \in DOMAIN r, r[j] = r[k] PROVE j = k
    BY DEF NoDuplicates
  <2>1. \A m \in DOMAIN r : m \in DOMAIN s /\ m + 1 \in DOMAIN s /\ m \in Nat
    BY <1>1, <1>5
  <2>2. i \in Nat
    BY <1>1, <1>2
  <2> QED BY <1>6, <2>1, <2>2 DEF NoDuplicates
<1> QED BY <1>3, <1>4, <1>5, <1>8, <1>9, <1>10
-----------------------------------------------------------------------------
(* Frames                                                                  *)

\* Items contains the property that is checked.
LEMMA StopsInStop == \A t, q : Stops(t, q) <=> InStop(t, q)
BY DEF Stops, InStop, Range

LEMMA ItemsMatch == ASSUME Items PROVE FlagsMatchLists
BY MemberIsRange DEF Items, Matches, ListsSound, ItemSound, FlagsMatchLists

SameLists(q) == /\ queue'[q].list = queue[q].list /\ queue'[q].count = queue[q].count
                /\ queue'[q].delayed = queue[q].delayed
                /\ queue'[q].current = queue[q].current

SameItem(w) == /\ work'[w].flags = work[w].flags /\ work'[w].queue = work[w].queue
               /\ work'[w].dqueue = work[w].dqueue
               /\ work'[w].submission_id = work[w].submission_id
               /\ work'[w].running_id = work[w].running_id
               /\ work'[w].completion_id = work[w].completion_id

\* Steps that neither link, unlink nor run an item.
LEMMA ItemsFrame ==
    ASSUME Items, \A q \in Queues : SameLists(q), \A w \in Works : SameItem(w)
    PROVE  Items'
<1>1. ASSUME NEW q \in Queues, NEW w \in Works PROVE Matches(q, w)'
  BY <1>1 DEF Items, Matches, SameLists, SameItem, Flags
<1>2. ASSUME NEW q \in Queues PROVE ListsSound(q)'
  BY <1>2 DEF Items, ListsSound, SameLists
<1>3. ASSUME NEW w \in Works PROVE ItemSound(w)'
  BY <1>3 DEF Items, ItemSound, SameItem, Flags
<1> QED BY <1>1, <1>2, <1>3 DEF Items

\* What a step leaves of the life of q's worker.
LifeKeeps(q) ==
    /\ queue'[q].started = queue[q].started /\ queue'[q].stopping = queue[q].stopping
    /\ StopNode \in Range(queue'[q].list) <=> StopNode \in Range(queue[q].list)
    /\ \/ queue'[q].worker = queue[q].worker
       \/ queue[q].worker = "exited" /\ queue'[q].worker = "reaped"
    /\ pc'[q] = "none" <=> pc[q] = "none"
    /\ queue'[q].current # None <=> pc'[q] = "handler"
    /\ queue[q].stopping =>
          /\ queue[q].delayed = <<>> => queue'[q].delayed = <<>>
          /\ Range(queue'[q].list) \subseteq Range(queue[q].list)
          /\ queue[q].current = None => queue'[q].current = None

\* The conditions under which a stop of q may be at its step s.
StopMayBeAt(q, s) == /\ s.do \in Stopping => queue[q].stopping
                     /\ s.do \in Joined => queue[q].worker = "reaped"
                     /\ s.do \in Purged => queue[q].delayed = <<>>

\* What a step of t leaves of the stops of q in progress.
StopsKeep(t, q) ==
    /\ \A u \in Threads \ {t} : todo'[u] = todo[u]
    /\ \A s \in Range(todo'[t]) : s.q = q => StopMayBeAt(q, s)'

LifeAt(q) == WorkerAgrees(q) /\ StoppingIsIdle(q) /\ StopProceeds(q) /\ DownIsQuiet(q)

\* A stop stays possible at the step where it is.
LEMMA StopStays ==
    ASSUME LifeCycle, NEW q \in Queues, LifeKeeps(q), NEW s, StopMayBeAt(q, s)
    PROVE  StopMayBeAt(q, s)'
<1>1. WorkerAgrees(q)
  BY DEF LifeCycle
<1>2. queue[q].worker = "reaped" => queue'[q].worker = "reaped" /\ queue[q].stopping
  BY <1>1 DEF LifeKeeps, WorkerAgrees
<1>3. queue'[q].stopping = queue[q].stopping
  BY DEF LifeKeeps
<1>4. queue[q].stopping /\ queue[q].delayed = <<>> => queue'[q].delayed = <<>>
  BY DEF LifeKeeps
<1>5. Purged \subseteq Stopping
  BY DEF Purged, Stopping
<1> QED BY <1>2, <1>3, <1>4, <1>5 DEF StopMayBeAt

\* Steps that neither begin nor complete a stop of q.
LEMMA LifeFrame ==
    ASSUME LifeCycle, NEW t \in Threads, NEW q \in Queues, StopsKeep(t, q), LifeKeeps(q)
    PROVE  LifeAt(q)'
<1>1. WorkerAgrees(q) /\ StoppingIsIdle(q) /\ StopProceeds(q) /\ DownIsQuiet(q)
  BY DEF LifeCycle
<1>2. LifeKeeps(q)
  OBVIOUS
<1>3. WorkerAgrees(q)'
  BY <1>1, <1>2 DEF WorkerAgrees, LifeKeeps
<1>4. StoppingIsIdle(q)'
  BY <1>1, <1>2 DEF StoppingIsIdle, LifeKeeps
<1>5. StopProceeds(q)'
  <2> SUFFICES ASSUME NEW u \in Threads, NEW s \in Steps, s \in Range(todo'[u]), s.q = q
               PROVE  StopMayBeAt(q, s)'
    BY DEF StopProceeds, StopMayBeAt
  <2>1. CASE u = t
    BY <2>1 DEF StopsKeep
  <2>2. CASE u # t
    <3>1. s \in Range(todo[u])
      BY <2>2 DEF StopsKeep
    <3>2. StopMayBeAt(q, s)
      BY <1>1, <3>1 DEF StopProceeds, StopMayBeAt
    <3> QED BY <3>2, StopStays
  <2> QED BY <2>1, <2>2
<1>6. DownIsQuiet(q)'
  BY <1>1, <1>2 DEF DownIsQuiet, LifeKeeps
<1> QED BY <1>3, <1>4, <1>5, <1>6 DEF LifeAt

LEMMA LifeParts == ASSUME \A q \in Queues : LifeAt(q)' PROVE LifeCycle'
BY DEF LifeCycle, LifeAt
-----------------------------------------------------------------------------
(* The rest of a call                                                      *)

\* Steps that belong to no stop.
Quiet == {s \in Steps : s.do \notin Stopping}

LEMMA QuietSteps ==
    /\ \A q \in Queues : /\ Give(q) \in Quiet /\ Todo("trytake", q, None, 0) \in Quiet
                         /\ Todo("poll", q, None, 0) \in Quiet
                         /\ Todo("stop", q, None, 0) \in Quiet
    /\ \A w \in Works : /\ Notify(w) \in Quiet /\ TakeSync(w) \in Quiet
                        /\ CheckIdle(w) \in Quiet /\ Todo("cancel", None, w, 0) \in Quiet
                        /\ Todo("flush", None, w, 0) \in Quiet
                        /\ \A n \in Nat : CheckDone(w, n) \in Quiet
                        /\ \A q \in Queues : Submit(q, w) \in Quiet
<1>1. ASSUME NEW q \in Queues
      PROVE  /\ Give(q) \in Quiet /\ Todo("trytake", q, None, 0) \in Quiet
             /\ Todo("poll", q, None, 0) \in Quiet
             /\ Todo("stop", q, None, 0) \in Quiet
  BY <1>1 DEF Quiet, Steps, WellFormed, OnItem, OnQueue, Stopping, Give, Todo
<1>2. ASSUME NEW w \in Works
      PROVE  /\ Notify(w) \in Quiet /\ TakeSync(w) \in Quiet
             /\ CheckIdle(w) \in Quiet /\ Todo("cancel", None, w, 0) \in Quiet
             /\ Todo("flush", None, w, 0) \in Quiet
             /\ \A n \in Nat : CheckDone(w, n) \in Quiet
             /\ \A q \in Queues : Submit(q, w) \in Quiet
  BY <1>2 DEF Quiet, Steps, WellFormed, OnItem, OnQueue, Stopping, Notify, TakeSync,
              CheckIdle, CheckDone, Submit, Todo
<1> QED BY <1>1, <1>2

\* The steps of stop.
LEMMA StopSteps ==
    \A q \in Queues, do \in Stopping :
        /\ Todo(do, q, None, 0) \in Steps
        /\ Todo(do, q, None, 0).do = do /\ Todo(do, q, None, 0).q = q
BY DEF Steps, WellFormed, OnItem, OnQueue, Stopping, Todo

\* The fields that the steps of a call use.
LEMMA StepFields ==
    ASSUME NEW s \in Steps
    PROVE  /\ s.do \in OnItem => s.w \in Works
           /\ s.do \in OnQueue => s.q \in Queues
           /\ s.n \in Nat
BY DEF Steps, WellFormed

LEMMA SmallRanges ==
    /\ Range(<<>>) = {}
    /\ \A a : Range(<<a>>) = {a}
    /\ \A a, b : Range(<<a, b>>) = {a, b}
<1>1. Range(<<>>) = {}
  BY DEF Range
<1>2. ASSUME NEW a PROVE Range(<<a>>) = {a}
  <2>1. DOMAIN <<a>> = {1} /\ <<a>>[1] = a
    OBVIOUS
  <2> QED BY <2>1 DEF Range
<1>3. ASSUME NEW a, NEW b PROVE Range(<<a, b>>) = {a, b}
  <2>1. DOMAIN <<a, b>> = {1, 2} /\ <<a, b>>[1] = a /\ <<a, b>>[2] = b
    OBVIOUS
  <2> QED BY <2>1 DEF Range
<1> QED BY <1>1, <1>2, <1>3

LEMMA ConcatRange ==
    ASSUME NEW S, NEW a \in Seq(S), NEW b \in Seq(S)
    PROVE  a \o b \in Seq(S) /\ Range(a \o b) = Range(a) \cup Range(b)
BY ConcatProperties, RangeConcatenation

\* A step of t that adds nothing to a stop.
TodoKeeps(t) == /\ todo' \in [Threads -> Seq(Steps)]
                /\ \A u \in Threads \ {t} : todo'[u] = todo[u]
                /\ \A s \in Range(todo'[t]) : s.do \in Stopping => s \in Range(todo[t])

LEMMA ContinueStep ==
    ASSUME Types, NEW t \in Threads, NEW steps \in Seq(Steps), NEW rest \in Seq(Steps),
           Continue(t, steps, rest)
    PROVE  /\ todo' \in [Threads -> Seq(Steps)]
           /\ \A u \in Threads \ {t} : todo'[u] = todo[u]
           /\ Range(todo'[t]) = Range(steps) \cup Range(rest)
<1>1. steps \o rest \in Seq(Steps) /\ Range(steps \o rest) = Range(steps) \cup Range(rest)
  BY ConcatRange
<1>2. todo' = [todo EXCEPT ![t] = steps \o rest] /\ todo \in [Threads -> Seq(Steps)]
  BY DEF Continue, Types
<1> QED BY <1>1, <1>2

LEMMA ContinueQuietly ==
    ASSUME Types, NEW t \in Threads, NEW steps \in Seq(Quiet), NEW rest \in Seq(Steps),
           Range(rest) \subseteq Range(todo[t]) \cup Quiet, Continue(t, steps, rest)
    PROVE  TodoKeeps(t)
<1>1. steps \in Seq(Steps) /\ Range(steps) \subseteq Quiet
  BY DEF Quiet, Range
<1>2. /\ todo' \in [Threads -> Seq(Steps)]
      /\ \A u \in Threads \ {t} : todo'[u] = todo[u]
      /\ Range(todo'[t]) = Range(steps) \cup Range(rest)
  BY <1>1, ContinueStep
<1> QED BY <1>1, <1>2 DEF TodoKeeps, Quiet

\* The first step of a call, and what remains after it.
LEMMA HeadStep ==
    ASSUME Types, NEW t \in Threads, todo[t] # <<>>
    PROVE  /\ Head(todo[t]) \in Steps /\ Tail(todo[t]) \in Seq(Steps)
           /\ Head(todo[t]) \in Range(todo[t])
           /\ Range(Tail(todo[t])) \subseteq Range(todo[t])
<1>1. todo[t] \in Seq(Steps)
  BY DEF Types
<1> QED BY <1>1, GetNode

LEMMA TodoStops ==
    ASSUME Types, LifeCycle, NEW t \in Threads, TodoKeeps(t), NEW q \in Queues, LifeKeeps(q)
    PROVE  StopsKeep(t, q)
<1> SUFFICES ASSUME NEW s \in Range(todo'[t]), s.q = q
             PROVE  StopMayBeAt(q, s)'
  BY DEF StopsKeep, TodoKeeps
<1>1. CASE s.do \in Stopping
  <2>1. s \in Range(todo[t])
    BY <1>1 DEF TodoKeeps
  <2>2. s \in Steps
    BY <2>1 DEF Types, Range
  <2>3. StopMayBeAt(q, s)
    BY <2>1, <2>2 DEF LifeCycle, StopProceeds, StopMayBeAt
  <2> QED BY <2>3, StopStays
<1>2. CASE s.do \notin Stopping
  BY <1>2 DEF StopMayBeAt, Stopping, Joined, Purged
<1> QED BY <1>1, <1>2

\* Steps that begin no stop, for each queue.
LEMMA LifeQuietly ==
    ASSUME Types, LifeCycle, NEW t \in Threads, TodoKeeps(t),
           \A q \in Queues : LifeKeeps(q)
    PROVE  LifeCycle'
<1>1. ASSUME NEW q \in Queues PROVE LifeAt(q)'
  BY TodoStops, LifeFrame
<1> QED BY <1>1, LifeParts

SameLife(q) == /\ SameLists(q) /\ queue'[q].started = queue[q].started
               /\ queue'[q].stopping = queue[q].stopping
               /\ queue'[q].worker = queue[q].worker
               /\ pc'[q] = "none" <=> pc[q] = "none"
               /\ pc'[q] = "handler" <=> pc[q] = "handler"

LEMMA SameLifeKeeps ==
    ASSUME LifeCycle, NEW q \in Queues, SameLife(q)
    PROVE  LifeKeeps(q)
BY DEF LifeCycle, SameLife, SameLists, LifeKeeps, WorkerAgrees, DownIsQuiet

\* Steps that only move tokens, signals, ticks, or what is left of a call.
LEMMA QuietStep ==
    ASSUME IInv, Types', NEW t \in Threads, TodoKeeps(t),
           \A q \in Queues : SameLife(q), \A w \in Works : SameItem(w)
    PROVE  IInv'
<1>1. LifeCycle'
  BY SameLifeKeeps, LifeQuietly DEF IInv
<1>2. Items'
  BY ItemsFrame DEF IInv, SameLife
<1> QED BY <1>1, <1>2 DEF IInv

\* A step that does not touch the calls in progress.
LEMMA UnchangedTodo ==
    ASSUME Types, NEW t \in Threads, UNCHANGED todo
    PROVE  TodoKeeps(t)
BY DEF Types, TodoKeeps

\* The update of one queue, or of one item.
LEMMA QueueUpdate ==
    ASSUME Types, NEW q \in Queues, NEW o \in QueueType, queue' = [queue EXCEPT ![q] = o]
    PROVE  /\ queue' \in [Queues -> QueueType] /\ queue'[q] = o
           /\ \A p \in Queues \ {q} : queue'[p] = queue[p]
BY DEF Types

LEMMA WorkUpdate ==
    ASSUME Types, NEW w \in Works, NEW o \in WorkType, work' = [work EXCEPT ![w] = o]
    PROVE  /\ work' \in [Works -> WorkType] /\ work'[w] = o
           /\ \A v \in Works \ {w} : work'[v] = work[v]
BY DEF Types
-----------------------------------------------------------------------------
(* Steps that only move tokens, signals, ticks, or what is left of a call  *)

\* o differs from r only in the fields that carry no item and no life.
SameButTokens(o, r) == /\ o.list = r.list /\ o.count = r.count
                       /\ o.delayed = r.delayed /\ o.current = r.current
                       /\ o.started = r.started /\ o.stopping = r.stopping
                       /\ o.worker = r.worker

PcKeeps == /\ pc' \in [Queues -> Places]
           /\ \A q \in Queues : /\ pc'[q] = "none" <=> pc[q] = "none"
                                /\ pc'[q] = "handler" <=> pc[q] = "handler"

LEMMA TokenUpdate ==
    ASSUME IInv, NEW t \in Threads, TodoKeeps(t), NEW q \in Queues, NEW o \in QueueType,
           SameButTokens(o, queue[q]), queue' = [queue EXCEPT ![q] = o],
           UNCHANGED <<work, now>>, PcKeeps
    PROVE  IInv'
<1>1. Types
  BY DEF IInv
<1>2. /\ queue' \in [Queues -> QueueType] /\ queue'[q] = o
      /\ \A p \in Queues \ {q} : queue'[p] = queue[p]
  BY <1>1, QueueUpdate
<1>3. Types'
  BY <1>1, <1>2 DEF Types, TodoKeeps, PcKeeps
<1>4. \A p \in Queues : SameLife(p)
  BY <1>2 DEF SameLife, SameLists, SameButTokens, PcKeeps
<1>5. \A w \in Works : SameItem(w)
  BY DEF SameItem
<1> QED BY <1>3, <1>4, <1>5, QuietStep

\* Steps that change neither a queue nor an item.
LEMMA PlainUpdate ==
    ASSUME IInv, NEW t \in Threads, TodoKeeps(t), UNCHANGED <<queue, work, now>>, PcKeeps
    PROVE  IInv'
<1>1. Types'
  BY DEF IInv, Types, TodoKeeps, PcKeeps
<1>2. \A q \in Queues : SameLife(q)
  BY DEF SameLife, SameLists, PcKeeps
<1>3. \A w \in Works : SameItem(w)
  BY DEF SameItem
<1> QED BY <1>1, <1>2, <1>3, QuietStep

LEMMA UnchangedPc == ASSUME Types, UNCHANGED pc PROVE PcKeeps
BY DEF Types, PcKeeps

\* The worker of q goes on from one place of its loop to the next.
LEMMA PcStep ==
    ASSUME Types, NEW q \in Queues, NEW at \in Places \ {"none", "handler"},
           pc[q] \notin {"none", "handler"}, pc' = [pc EXCEPT ![q] = at]
    PROVE  PcKeeps
BY DEF Types, PcKeeps

\* A step of a call that takes the place of the one at its head.
LEMMA NextStep ==
    ASSUME Types, NEW t \in Threads, todo[t] # <<>>, NEW steps \in Seq(Quiet),
           Continue(t, steps, Tail(todo[t]))
    PROVE  TodoKeeps(t)
BY HeadStep, ContinueQuietly

\* A call begins.
LEMMA FirstStep ==
    ASSUME Types, NEW t \in Threads, NEW steps \in Seq(Quiet), NEW rest \in Seq(Quiet),
           Continue(t, steps, rest)
    PROVE  TodoKeeps(t)
<1>1. rest \in Seq(Steps) /\ Range(rest) \subseteq Quiet
  BY DEF Quiet, Range
<1> QED BY <1>1, ContinueQuietly

LEMMA TokenSteps ==
    ASSUME IInv, NEW t \in Threads, os_sem_give_items(t) \/ os_sem_trytake_items(t)
    PROVE  IInv'
<1> DEFINE q == Head(todo[t]).q
<1>1. Types /\ todo[t] # <<>> /\ Head(todo[t]).do \in OnQueue
  BY DEF IInv, os_sem_give_items, os_sem_trytake_items, At, OnQueue
<1>2. q \in Queues
  BY <1>1, HeadStep, StepFields
<1>3. queue[q] \in QueueType
  BY <1>1, <1>2 DEF Types
<1>4. PICK n \in Nat : queue' = [queue EXCEPT ![q].items = n]
  <2>1. CASE os_sem_give_items(t)
    <3>1. GivenItems(q) \in Nat
      BY <1>3 DEF GivenItems, QueueType
    <3> QED BY <2>1, <3>1 DEF os_sem_give_items
  <2>2. CASE os_sem_trytake_items(t)
    <3>1. (IF queue[q].items > 0 THEN queue[q].items - 1 ELSE queue[q].items) \in Nat
      BY <1>3 DEF QueueType
    <3>2. queue' = [queue EXCEPT ![q].items =
                       IF queue[q].items > 0 THEN queue[q].items - 1 ELSE queue[q].items]
      BY <2>2 DEF os_sem_trytake_items
    <3> QED BY <3>1, <3>2
  <2> QED BY <2>1, <2>2
<1>5. TodoKeeps(t)
  <2>1. Continue(t, <<>>, Tail(todo[t])) /\ <<>> \in Seq(Quiet)
    BY DEF os_sem_give_items, os_sem_trytake_items
  <2> QED BY <1>1, <2>1, NextStep
<1> PICK o : o = [queue[q] EXCEPT !.items = n]
  OBVIOUS
<1>6. o \in QueueType /\ SameButTokens(o, queue[q])
  BY <1>3, <1>4 DEF QueueType, SameButTokens
<1>7. queue' = [queue EXCEPT ![q] = o]
  BY <1>4
<1>8. UNCHANGED <<work, now>> /\ PcKeeps
  BY <1>1, UnchangedPc DEF os_sem_give_items, os_sem_trytake_items
<1> QED BY <1>2, <1>5, <1>6, <1>7, <1>8, TokenUpdate

\* The worker takes a token.
LEMMA TakeStep ==
    ASSUME IInv, NEW q \in Queues, os_work_queue_take(q)
    PROVE  IInv'
<1>1. Types /\ queue[q] \in QueueType /\ q \in Threads
  BY DEF IInv, Types, Threads
<1> PICK o : o = [queue[q] EXCEPT !.items = queue[q].items - 1]
  OBVIOUS
<1>2. queue' = [queue EXCEPT ![q] = o] /\ queue[q].items > 0
  BY DEF os_work_queue_take
<1> queue[q].items - 1 \in Nat
  BY <1>1, <1>2 DEF QueueType
<1>3. o \in QueueType /\ SameButTokens(o, queue[q])
  BY <1>1 DEF QueueType, SameButTokens
<1>4. PcKeeps
  BY <1>1, PcStep DEF os_work_queue_take, Worker, Places
<1>5. TodoKeeps(q) /\ UNCHANGED <<work, now>>
  BY <1>1, UnchangedTodo DEF os_work_queue_take
<1> QED BY <1>1, <1>2, <1>3, <1>4, <1>5, TokenUpdate

\* The steps of the worker that change neither a queue nor an item.
LEMMA PlainWorkerSteps ==
    ASSUME IInv, NEW q \in Queues,
           \/ os_work_promote_tick(q) \/ os_work_promote_none(q)
           \/ os_work_queue_timeout(q) \/ os_work_queue_pop_nothing(q)
    PROVE  IInv'
<1>1. Types /\ q \in Threads
  BY DEF IInv, Threads
<1>2. PcKeeps
  BY <1>1, PcStep DEF os_work_promote_tick, os_work_promote_none, os_work_queue_timeout,
                      os_work_queue_pop_nothing, Worker, Places
<1>3. TodoKeeps(q) /\ UNCHANGED <<queue, work, now>>
  BY <1>1, UnchangedTodo DEF os_work_promote_tick, os_work_promote_none,
                             os_work_queue_timeout, os_work_queue_pop_nothing
<1> QED BY <1>1, <1>2, <1>3, PlainUpdate

\* Flush and the waits of flush and of the synchronous cancellations.
LEMMA WaitSteps ==
    ASSUME IInv, NEW t \in Threads,
           \/ \E w \in Works : os_work_flush(t, w)
           \/ os_work_flush_nested(t) \/ os_work_check_idle(t) \/ os_work_check_done(t)
    PROVE  IInv'
<1>1. Types
  BY DEF IInv
<1>2. TodoKeeps(t)
  <2>1. ASSUME NEW w \in Works, os_work_flush(t, w) PROVE TodoKeeps(t)
    <3>1. work[w].submission_id \in Nat
      BY <1>1 DEF Types, WorkType
    <3>2. <<CheckDone(w, work[w].submission_id)>> \in Seq(Quiet) /\ <<>> \in Seq(Quiet)
      BY <3>1, QuietSteps
    <3> QED BY <1>1, <2>1, <3>2, FirstStep DEF os_work_flush, Flush
  <2>2. CASE os_work_flush_nested(t)
    <3> DEFINE w == Head(todo[t]).w
    <3>1. todo[t] # <<>> /\ Head(todo[t]).do \in OnItem
      BY <2>2 DEF os_work_flush_nested, At, OnItem
    <3>2. w \in Works
      BY <1>1, <3>1, HeadStep, StepFields
    <3>3. work[w].submission_id \in Nat
      BY <1>1, <3>2 DEF Types, WorkType
    <3>4. <<CheckDone(w, work[w].submission_id)>> \in Seq(Quiet)
      BY <3>2, <3>3, QuietSteps
    <3> QED BY <1>1, <2>2, <3>1, <3>4, NextStep DEF os_work_flush_nested, Flush
  <2>3. CASE os_work_check_idle(t)
    <3> DEFINE w == Head(todo[t]).w
    <3>1. todo[t] # <<>> /\ Head(todo[t]).do \in OnItem
      BY <2>3 DEF os_work_check_idle, At, OnItem
    <3>2. w \in Works
      BY <1>1, <3>1, HeadStep, StepFields
    <3>3. (IF Flags(w) = {} THEN <<>> ELSE <<TakeSync(w), CheckIdle(w)>>) \in Seq(Quiet)
      BY <3>2, QuietSteps
    <3> QED BY <1>1, <2>3, <3>1, <3>3, NextStep DEF os_work_check_idle
  <2>4. CASE os_work_check_done(t)
    <3> DEFINE w == Head(todo[t]).w  n == Head(todo[t]).n
    <3>1. todo[t] # <<>> /\ Head(todo[t]).do \in OnItem
      BY <2>4 DEF os_work_check_done, At, OnItem
    <3>2. w \in Works /\ n \in Nat
      BY <1>1, <3>1, HeadStep, StepFields
    <3>3. (IF work[w].completion_id = n THEN <<>> ELSE <<TakeSync(w), CheckDone(w, n)>>)
              \in Seq(Quiet)
      BY <3>2, QuietSteps
    <3> QED BY <1>1, <2>4, <3>1, <3>3, NextStep DEF os_work_check_done
  <2> QED BY <2>1, <2>2, <2>3, <2>4
<1>3. UNCHANGED <<queue, work, now>> /\ PcKeeps
  BY <1>1, UnchangedPc DEF os_work_flush, os_work_flush_nested, os_work_check_idle,
                           os_work_check_done
<1> QED BY <1>2, <1>3, PlainUpdate

\* Notifications of those who wait for an item.
LEMMA SignalSteps ==
    ASSUME IInv, NEW t \in Threads, os_work_notify(t) \/ os_sem_take_sync(t)
    PROVE  IInv'
<1> DEFINE w == Head(todo[t]).w
<1>1. Types /\ todo[t] # <<>> /\ Head(todo[t]).do \in OnItem
  BY DEF IInv, os_work_notify, os_sem_take_sync, At, OnItem
<1>2. w \in Works
  BY <1>1, HeadStep, StepFields
<1>3. work[w] \in WorkType
  BY <1>1, <1>2 DEF Types
<1>4. PICK n \in {0, 1} : work' = [work EXCEPT ![w].sync = n]
  BY DEF os_work_notify, os_sem_take_sync
<1>5. TodoKeeps(t)
  <2>1. Continue(t, <<>>, Tail(todo[t])) /\ <<>> \in Seq(Quiet)
    BY DEF os_work_notify, os_sem_take_sync
  <2> QED BY <1>1, <2>1, NextStep
<1> PICK o : o = [work[w] EXCEPT !.sync = n]
  OBVIOUS
<1>6. /\ o \in WorkType /\ o.flags = work[w].flags /\ o.queue = work[w].queue
      /\ o.dqueue = work[w].dqueue /\ o.submission_id = work[w].submission_id
      /\ o.running_id = work[w].running_id /\ o.completion_id = work[w].completion_id
  BY <1>3, <1>4 DEF WorkType
<1>7. work' = [work EXCEPT ![w] = o]
  BY <1>4
<1>8. /\ work' \in [Works -> WorkType] /\ work'[w] = o
      /\ \A v \in Works \ {w} : work'[v] = work[v]
  BY <1>1, <1>2, <1>6, <1>7, WorkUpdate
<1>9. UNCHANGED <<queue, pc, now>>
  BY DEF os_work_notify, os_sem_take_sync
<1>10. Types'
  BY <1>1, <1>5, <1>8, <1>9 DEF Types, TodoKeeps
<1>11. \A q \in Queues : SameLife(q)
  BY <1>9 DEF SameLife, SameLists
<1>12. \A v \in Works : SameItem(v)
  BY <1>6, <1>8 DEF SameItem
<1> QED BY <1>5, <1>10, <1>11, <1>12, QuietStep

LEMMA DrainSteps ==
    ASSUME IInv, NEW t \in Threads,
           \/ \E q \in Queues, plug \in BOOLEAN : os_work_queue_drain(t, q, plug)
           \/ os_work_queue_poll(t)
           \/ \E q \in Queues : os_work_queue_unplug(t, q)
    PROVE  IInv'
<1>1. Types
  BY DEF IInv
<1>2. ASSUME NEW q \in Queues, NEW plug \in BOOLEAN, os_work_queue_drain(t, q, plug)
      PROVE  IInv'
  <2>1. queue[q] \in QueueType
    BY <1>1 DEF Types
  <2> PICK o : o = [queue[q] EXCEPT !.draining = TRUE, !.plugged = queue[q].plugged \/ plug]
    OBVIOUS
  <2>2. queue' = [queue EXCEPT ![q] = o]
    BY <1>2 DEF os_work_queue_drain
  <2>3. o \in QueueType /\ SameButTokens(o, queue[q])
    BY <2>1 DEF QueueType, SameButTokens
  <2>4. <<Todo("poll", q, None, 0)>> \in Seq(Quiet) /\ <<>> \in Seq(Quiet)
    BY QuietSteps
  <2>5. TodoKeeps(t)
    BY <1>1, <1>2, <2>4, FirstStep DEF os_work_queue_drain
  <2>6. UNCHANGED <<work, now>> /\ PcKeeps
    BY <1>1, <1>2, UnchangedPc DEF os_work_queue_drain
  <2> QED BY <2>2, <2>3, <2>5, <2>6, TokenUpdate
<1>3. ASSUME os_work_queue_poll(t) PROVE IInv'
  <2> DEFINE q == Head(todo[t]).q
  <2>1. todo[t] # <<>> /\ Head(todo[t]).do \in OnQueue
    BY <1>3 DEF os_work_queue_poll, At, OnQueue
  <2>2. q \in Queues
    BY <1>1, <2>1, HeadStep, StepFields
  <2>3. queue[q] \in QueueType
    BY <1>1, <2>2 DEF Types
  <2> PICK o : o = [queue[q] EXCEPT !.draining = FALSE]
    OBVIOUS
  <2>4. queue' = [queue EXCEPT ![q] = o]
    BY <1>3 DEF os_work_queue_poll
  <2>5. o \in QueueType /\ SameButTokens(o, queue[q])
    BY <2>3 DEF QueueType, SameButTokens
  <2>6. TodoKeeps(t)
    <3>1. Continue(t, <<>>, Tail(todo[t])) /\ <<>> \in Seq(Quiet)
      BY <1>3 DEF os_work_queue_poll
    <3> QED BY <1>1, <2>1, <3>1, NextStep
  <2>7. UNCHANGED <<work, now>> /\ PcKeeps
    BY <1>1, <1>3, UnchangedPc DEF os_work_queue_poll
  <2> QED BY <2>2, <2>4, <2>5, <2>6, <2>7, TokenUpdate
<1>4. ASSUME NEW q \in Queues, os_work_queue_unplug(t, q) PROVE IInv'
  <2>1. queue[q] \in QueueType
    BY <1>1 DEF Types
  <2> PICK o : o = [queue[q] EXCEPT !.plugged = FALSE]
    OBVIOUS
  <2>2. queue' = [queue EXCEPT ![q] = o]
    BY <1>4 DEF os_work_queue_unplug
  <2>3. o \in QueueType /\ SameButTokens(o, queue[q])
    BY <2>1 DEF QueueType, SameButTokens
  <2>4. TodoKeeps(t) /\ UNCHANGED <<work, now>> /\ PcKeeps
    BY <1>1, <1>4, UnchangedPc, UnchangedTodo DEF os_work_queue_unplug
  <2> QED BY <2>2, <2>3, <2>4, TokenUpdate
<1> QED BY <1>2, <1>3, <1>4

\* Time passes.
LEMMA TickStep ==
    ASSUME IInv, Tick
    PROVE  IInv'
<1>1. Types /\ UNCHANGED <<queue, pc, todo>>
  BY DEF IInv, Tick
<1>2. ASSUME NEW w \in Works PROVE work'[w] \in WorkType /\ SameItem(w)
  <2>1. work[w] \in WorkType
    BY <1>1 DEF Types
  <2>2. work'[w] = work[w] \/ work'[w] = [work[w] EXCEPT !.ttl = work[w].ttl - 1]
    BY DEF Tick
  <2>3. work[w].ttl - 1 \in Int
    BY <2>1 DEF WorkType
  <2> QED BY <2>1, <2>2, <2>3 DEF WorkType, SameItem
<1>3. now' \in Int
  <2>1. now \in Int
    BY <1>1 DEF Types
  <2> QED BY <2>1, TickModAssumption DEF Tick
<1>4. Types'
  <2>1. work' \in [Works -> WorkType]
    BY <1>2 DEF Tick
  <2> QED BY <1>1, <1>3, <2>1 DEF Types
<1>5. Items'
  <2>1. \A q \in Queues : SameLists(q)
    BY <1>1 DEF SameLists
  <2> QED BY <1>2, <2>1, ItemsFrame DEF IInv
<1>6. LifeCycle'
  BY <1>1 DEF IInv, LifeCycle, WorkerAgrees, StoppingIsIdle, StopProceeds, DownIsQuiet,
              InStop
<1> QED BY <1>4, <1>5, <1>6 DEF IInv
-----------------------------------------------------------------------------
(* Steps that link or unlink an item                                       *)

\* For every item but w the lists stay what they are.
OthersStay(w) ==
    \A x \in Works \ {w} :
        /\ SameItem(x)
        /\ \A p \in Queues :
              /\ x \in Range(queue'[p].list) <=> x \in Range(queue[p].list)
              /\ x \in Range(queue'[p].delayed) <=> x \in Range(queue[p].delayed)
              /\ queue'[p].current = x <=> queue[p].current = x

LEMMA ItemStep ==
    ASSUME Items, NEW w \in Works, OthersStay(w), ItemSound(w)',
           \A p \in Queues : ListsSound(p)' /\ Matches(p, w)'
    PROVE  Items'
<1>1. ASSUME NEW p \in Queues, NEW x \in Works PROVE Matches(p, x)'
  <2>1. CASE x = w
    BY <2>1
  <2>2. CASE x # w
    BY <2>2 DEF Items, Matches, OthersStay, SameItem, Flags
  <2> QED BY <2>1, <2>2
<1>2. ASSUME NEW x \in Works PROVE ItemSound(x)'
  <2>1. CASE x = w
    BY <2>1
  <2>2. CASE x # w
    BY <2>2 DEF Items, ItemSound, OthersStay, SameItem, Flags
  <2> QED BY <2>1, <2>2
<1> QED BY <1>1, <1>2 DEF Items

\* Nothing is linked to a stopping queue.
OnlyUnlinks(q) ==
    queue[q].stopping => Range(queue'[q].list) \subseteq Range(queue[q].list)

\* A step that links or unlinks an item of q.
LEMMA LifeOfList ==
    ASSUME LifeCycle, NEW q \in Queues, pc'[q] = pc[q],
           queue'[q].delayed = queue[q].delayed, queue'[q].current = queue[q].current,
           queue'[q].started = queue[q].started, queue'[q].stopping = queue[q].stopping,
           queue'[q].worker = queue[q].worker,
           StopNode \in Range(queue'[q].list) <=> StopNode \in Range(queue[q].list),
           OnlyUnlinks(q)
    PROVE  LifeKeeps(q)
<1>1. queue'[q].current # None <=> pc'[q] = "handler"
  BY DEF LifeCycle, WorkerAgrees
<1> QED BY <1>1 DEF LifeKeeps, OnlyUnlinks

\* The critical section of os_work_submit_to_queue.
LEMMA EnqueueStep ==
    ASSUME IInv, NEW t \in Threads, NEW q \in Queues, NEW w \in Works,
           NEW rest \in Seq(Steps), Range(rest) \subseteq Range(todo[t]) \cup Quiet,
           Enqueue(t, q, w, rest)
    PROVE  IInv'
<1>1. Types /\ Items /\ LifeCycle /\ PcKeeps /\ UNCHANGED <<pc, now>>
  BY UnchangedPc DEF IInv, Enqueue
<1>2. CASE ~CanEnqueue(t, q, w)
  <2>1. Continue(t, <<>>, rest) /\ <<>> \in Seq(Quiet) /\ UNCHANGED <<queue, work>>
    BY <1>2 DEF Enqueue
  <2>2. TodoKeeps(t)
    BY <1>1, <2>1, ContinueQuietly
  <2> QED BY <1>1, <2>1, <2>2, PlainUpdate
<1>3. CASE CanEnqueue(t, q, w)
  <2>1. TodoKeeps(t)
    <3>1. Continue(t, <<Give(q)>>, rest) /\ <<Give(q)>> \in Seq(Quiet)
      BY <1>3, QuietSteps DEF Enqueue
    <3> QED BY <1>1, <3>1, ContinueQuietly
  <2> PICK l : l = Append(queue[q].list, w)
    OBVIOUS
  <2> PICK n : n = queue[q].count + 1
    OBVIOUS
  <2> PICK o : o = [queue[q] EXCEPT !.list = l, !.count = n]
    OBVIOUS
  <2> PICK id : id = work[w].submission_id + 1
    OBVIOUS
  <2> PICK f : f = work[w].flags \cup {"QUEUED"}
    OBVIOUS
  <2> PICK v : v = [work[w] EXCEPT !.submission_id = id, !.queue = q, !.flags = f]
    OBVIOUS
  <2>2. queue' = [queue EXCEPT ![q] = o] /\ work' = [work EXCEPT ![w] = v]
    BY <1>3 DEF Enqueue
  <2>3. queue[q] \in QueueType /\ work[w] \in WorkType
    BY <1>1 DEF Types
  <2>4. /\ "QUEUED" \notin Flags(w) /\ ~queue[q].stopping
        /\ "RUNNING" \in Flags(w) => work[w].queue = q
    BY <1>3 DEF CanEnqueue, Accepts
  <2>5. Matches(q, w) /\ ListsSound(q) /\ ItemSound(w)
    BY <1>1 DEF Items
  <2>6. /\ l \in Seq(Works \cup {StopNode}) /\ Len(l) = Len(queue[q].list) + 1
        /\ Range(l) = Range(queue[q].list) \cup {w} /\ NoDuplicates(l)
    <3>1. /\ queue[q].list \in Seq(Works \cup {StopNode}) /\ NoDuplicates(queue[q].list)
          /\ w \notin Range(queue[q].list)
      BY <2>3, <2>4, <2>5 DEF QueueType, Matches, ListsSound
    <3> QED BY <3>1, AppendNode
  <2> n \in Nat
    BY <2>3 DEF QueueType
  <2> id \in Nat
    BY <2>3 DEF WorkType
  <2> f \in SUBSET AllFlags
    BY <2>3 DEF WorkType, AllFlags
  <2>7. /\ o \in QueueType /\ o.list = l /\ o.count = n
        /\ o.delayed = queue[q].delayed /\ o.current = queue[q].current
        /\ o.started = queue[q].started /\ o.stopping = queue[q].stopping
        /\ o.worker = queue[q].worker
    BY <2>3, <2>6 DEF QueueType
  <2>8. /\ v \in WorkType /\ v.flags = f /\ v.queue = q
        /\ v.dqueue = work[w].dqueue /\ v.submission_id = id
        /\ v.running_id = work[w].running_id /\ v.completion_id = work[w].completion_id
    BY <2>3 DEF WorkType
  <2>9. /\ queue' \in [Queues -> QueueType] /\ queue'[q] = o
        /\ \A p \in Queues \ {q} : queue'[p] = queue[p]
    BY <1>1, <2>2, <2>7, QueueUpdate
  <2>10. /\ work' \in [Works -> WorkType] /\ work'[w] = v
         /\ \A x \in Works \ {w} : work'[x] = work[x]
    BY <1>1, <2>2, <2>8, WorkUpdate
  <2>11. Types'
    BY <1>1, <2>1, <2>9, <2>10 DEF Types, TodoKeeps
  <2>12. ASSUME NEW p \in Queues PROVE LifeKeeps(p)
    <3>1. CASE p = q
      <4>1. StopNode \in Range(queue'[q].list) <=> StopNode \in Range(queue[q].list)
        BY <2>6, <2>7, <2>9, NodesAssumption
      <4>2. OnlyUnlinks(q)
        BY <2>4 DEF OnlyUnlinks
      <4> QED BY <1>1, <2>7, <2>9, <3>1, <4>1, <4>2, LifeOfList
    <3>2. CASE p # q
      <4>1. SameLife(p)
        BY <1>1, <2>9, <3>2 DEF SameLife, SameLists
      <4> QED BY <1>1, <4>1, SameLifeKeeps
    <3> QED BY <3>1, <3>2
  <2>13. LifeCycle'
    BY <1>1, <2>1, <2>11, <2>12, LifeQuietly
  <2>14. OthersStay(w)
    <3>1. ASSUME NEW x \in Works \ {w} PROVE SameItem(x)
      BY <2>10 DEF SameItem
    <3>2. ASSUME NEW x \in Works \ {w}, NEW p \in Queues
          PROVE  /\ x \in Range(queue'[p].list) <=> x \in Range(queue[p].list)
                 /\ x \in Range(queue'[p].delayed) <=> x \in Range(queue[p].delayed)
                 /\ queue'[p].current = x <=> queue[p].current = x
      <4>1. CASE p = q
        BY <2>6, <2>7, <2>9, <4>1
      <4>2. CASE p # q
        BY <2>9, <4>2
      <4> QED BY <4>1, <4>2
    <3> QED BY <3>1, <3>2 DEF OthersStay
  <2>15. ItemSound(w)'
    <3>1. /\ work[w].submission_id \in Nat /\ work[w].running_id \in Nat
          /\ work[w].completion_id \in Nat
      BY <2>3 DEF WorkType
    <3> QED BY <2>5, <2>8, <2>10, <3>1 DEF ItemSound, Flags
  <2>16. ASSUME NEW p \in Queues PROVE ListsSound(p)' /\ Matches(p, w)'
    <3>1. Matches(p, w) /\ ListsSound(p)
      BY <1>1 DEF Items
    <3>2. CASE p = q
      <4>1. ListsSound(q)'
        BY <2>5, <2>6, <2>7, <2>9 DEF ListsSound
      <4>2. Matches(q, w)'
        BY <2>4, <2>5, <2>6, <2>7, <2>8, <2>9, <2>10 DEF Matches, Flags
      <4> QED BY <3>2, <4>1, <4>2
    <3>3. CASE p # q
      <4>1. ListsSound(p)'
        BY <2>9, <3>1, <3>3 DEF ListsSound
      <4>2. Matches(p, w)'
        BY <2>4, <2>8, <2>9, <2>10, <3>1, <3>3 DEF Matches, Flags
      <4> QED BY <4>1, <4>2
    <3> QED BY <3>2, <3>3
  <2>17. Items'
    BY <1>1, <2>14, <2>15, <2>16, ItemStep
  <2> QED BY <2>11, <2>13, <2>17 DEF IInv
<1> QED BY <1>2, <1>3

\* The critical section of os_work_cancel.
LEMMA CancelStep ==
    ASSUME IInv, NEW t \in Threads, NEW w \in Works,
           NEW rest \in Seq(Steps), Range(rest) \subseteq Range(todo[t]) \cup Quiet,
           Cancel(t, w, rest)
    PROVE  IInv'
<1> PICK q : q = work[w].queue
  OBVIOUS
<1> DEFINE queued == "QUEUED" \in Flags(w)
           running == "RUNNING" \in Flags(w)
<1>1. Types /\ Items /\ LifeCycle /\ PcKeeps /\ UNCHANGED <<pc, now>>
  BY UnchangedPc DEF IInv, Cancel
<1>2. work[w] \in WorkType /\ ItemSound(w)
  BY <1>1 DEF Types, Items
<1>3. queued => q \in Queues
  BY <1>2 DEF ItemSound
<1>4. TodoKeeps(t)
  <2> PICK steps : steps = (IF queued THEN <<Todo("trytake", q, None, 0)>> ELSE <<>>)
                               \o <<Notify(w)>>
    OBVIOUS
  <2>1. /\ (IF queued THEN <<Todo("trytake", q, None, 0)>> ELSE <<>>) \in Seq(Quiet)
        /\ <<Notify(w)>> \in Seq(Quiet)
    BY <1>3, QuietSteps
  <2>2. steps \in Seq(Quiet)
    BY <2>1, ConcatRange
  <2>3. Continue(t, steps, rest)
    BY DEF Cancel
  <2> QED BY <1>1, <2>2, <2>3, ContinueQuietly
<1> PICK f : f = IF running THEN (work[w].flags \ {"QUEUED"}) \cup {"CANCELING"}
                            ELSE work[w].flags \ {"QUEUED", "CANCELING"}
  OBVIOUS
<1> PICK n : n = IF running THEN work[w].completion_id ELSE work[w].submission_id
  OBVIOUS
<1> PICK v : v = [work[w] EXCEPT !.flags = f, !.completion_id = n]
  OBVIOUS
<1>5. work' = [work EXCEPT ![w] = v]
  BY DEF Cancel
<1> f \in SUBSET AllFlags
  BY <1>2 DEF WorkType, AllFlags
<1> n \in Nat
  BY <1>2 DEF WorkType
<1>6. /\ v \in WorkType /\ v.flags = f /\ v.queue = work[w].queue
      /\ v.dqueue = work[w].dqueue /\ v.submission_id = work[w].submission_id
      /\ v.running_id = work[w].running_id /\ v.completion_id = n
  BY <1>2 DEF WorkType
<1>7. /\ work' \in [Works -> WorkType] /\ work'[w] = v
      /\ \A x \in Works \ {w} : work'[x] = work[x]
  BY <1>1, <1>5, <1>6, WorkUpdate
<1>8. /\ "QUEUED" \notin f /\ ("DELAYED" \in f <=> "DELAYED" \in Flags(w))
      /\ ("RUNNING" \in f <=> "RUNNING" \in Flags(w))
      /\ "CANCELING" \in f => "RUNNING" \in f
  BY DEF Flags
<1>9. ItemSound(w)'
  <2>1. /\ work[w].submission_id \in Nat /\ work[w].running_id \in Nat
        /\ work[w].completion_id \in Nat
    BY <1>2 DEF WorkType
  <2> QED BY <1>2, <1>6, <1>7, <1>8, <2>1 DEF ItemSound, Flags
<1>10. CASE ~queued
  <2>1. queue' = queue
    BY <1>10 DEF Cancel
  <2>2. Types'
    BY <1>1, <1>4, <1>7, <2>1 DEF Types, TodoKeeps
  <2>3. ASSUME NEW p \in Queues PROVE LifeKeeps(p)
    <3>1. SameLife(p)
      BY <1>1, <2>1 DEF SameLife, SameLists
    <3> QED BY <1>1, <3>1, SameLifeKeeps
  <2>4. LifeCycle'
    BY <1>1, <1>4, <2>2, <2>3, LifeQuietly
  <2>5. OthersStay(w)
    BY <1>7, <2>1 DEF OthersStay, SameItem
  <2>6. ASSUME NEW p \in Queues PROVE ListsSound(p)' /\ Matches(p, w)'
    <3>1. Matches(p, w) /\ ListsSound(p)
      BY <1>1 DEF Items
    <3>2. ListsSound(p)'
      BY <2>1, <3>1 DEF ListsSound
    <3>3. Matches(p, w)'
      BY <1>6, <1>7, <1>8, <1>10, <2>1, <3>1 DEF Matches, Flags
    <3> QED BY <3>2, <3>3
  <2>7. Items'
    BY <1>1, <1>9, <2>5, <2>6, ItemStep
  <2> QED BY <2>2, <2>4, <2>7 DEF IInv
<1>11. CASE queued
  <2>1. q \in Queues /\ Matches(q, w) /\ ListsSound(q) /\ queue[q] \in QueueType
    BY <1>1, <1>3, <1>11 DEF Items, Types
  <2> PICK l : l = RemoveNode(queue[q].list, w)
    OBVIOUS
  <2> PICK m : m = queue[q].count - 1
    OBVIOUS
  <2> PICK o : o = [queue[q] EXCEPT !.list = l, !.count = m]
    OBVIOUS
  <2>2. queue' = [queue EXCEPT ![q] = o]
    BY <1>11 DEF Cancel
  <2>3. w \in Range(queue[q].list)
    BY <1>11, <2>1 DEF Matches
  <2>4. /\ l \in Seq(Works \cup {StopNode}) /\ Len(l) = Len(queue[q].list) - 1
        /\ Len(queue[q].list) \in Nat \ {0}
        /\ Range(l) = Range(queue[q].list) \ {w} /\ NoDuplicates(l)
    <3>1. queue[q].list \in Seq(Works \cup {StopNode}) /\ NoDuplicates(queue[q].list)
      BY <2>1 DEF QueueType, ListsSound
    <3> QED BY <2>3, <3>1, RemoveProperties
  <2> m \in Nat
    BY <2>1, <2>4 DEF ListsSound
  <2>5. /\ o \in QueueType /\ o.list = l /\ o.count = m
        /\ o.delayed = queue[q].delayed /\ o.current = queue[q].current
        /\ o.started = queue[q].started /\ o.stopping = queue[q].stopping
        /\ o.worker = queue[q].worker
    BY <2>1, <2>4 DEF QueueType
  <2>6. /\ queue' \in [Queues -> QueueType] /\ queue'[q] = o
        /\ \A p \in Queues \ {q} : queue'[p] = queue[p]
    BY <1>1, <2>1, <2>2, <2>5, QueueUpdate
  <2>7. Types'
    BY <1>1, <1>4, <1>7, <2>6 DEF Types, TodoKeeps
  <2>8. ASSUME NEW p \in Queues PROVE LifeKeeps(p)
    <3>1. CASE p = q
      <4>1. StopNode \in Range(queue'[q].list) <=> StopNode \in Range(queue[q].list)
        BY <2>4, <2>5, <2>6, NodesAssumption
      <4>2. OnlyUnlinks(q)
        BY <2>4, <2>5, <2>6 DEF OnlyUnlinks
      <4>3. /\ LifeCycle /\ q \in Queues /\ pc'[q] = pc[q]
            /\ queue'[q].delayed = queue[q].delayed /\ queue'[q].current = queue[q].current
            /\ queue'[q].started = queue[q].started /\ queue'[q].stopping = queue[q].stopping
            /\ queue'[q].worker = queue[q].worker
        BY <1>1, <2>1, <2>5, <2>6
      <4>4. LifeKeeps(q)
        BY ONLY <4>1, <4>2, <4>3, LifeOfList
      <4> QED BY <3>1, <4>4
    <3>2. CASE p # q
      <4>1. SameLife(p)
        BY <1>1, <2>6, <3>2 DEF SameLife, SameLists
      <4> QED BY <1>1, <4>1, SameLifeKeeps
    <3> QED BY <3>1, <3>2
  <2>9. LifeCycle'
    BY <1>1, <1>4, <2>7, <2>8, LifeQuietly
  <2>10. OthersStay(w)
    <3>1. ASSUME NEW x \in Works \ {w} PROVE SameItem(x)
      BY <1>7 DEF SameItem
    <3>2. ASSUME NEW x \in Works \ {w}, NEW p \in Queues
          PROVE  /\ x \in Range(queue'[p].list) <=> x \in Range(queue[p].list)
                 /\ x \in Range(queue'[p].delayed) <=> x \in Range(queue[p].delayed)
                 /\ queue'[p].current = x <=> queue[p].current = x
      <4>1. CASE p = q
        BY <2>4, <2>5, <2>6, <4>1
      <4>2. CASE p # q
        BY <2>6, <4>2
      <4> QED BY <4>1, <4>2
    <3> QED BY <3>1, <3>2 DEF OthersStay
  <2>11. ASSUME NEW p \in Queues PROVE ListsSound(p)' /\ Matches(p, w)'
    <3>1. Matches(p, w) /\ ListsSound(p)
      BY <1>1 DEF Items
    <3>2. CASE p = q
      <4>1. ListsSound(q)'
        BY <2>1, <2>4, <2>5, <2>6 DEF ListsSound
      <4>2. Matches(q, w)'
        BY <1>6, <1>7, <1>8, <2>1, <2>4, <2>5, <2>6 DEF Matches, Flags
      <4> QED BY <3>2, <4>1, <4>2
    <3>3. CASE p # q
      <4>1. ListsSound(p)'
        BY <2>6, <3>1, <3>3 DEF ListsSound
      <4>2. Matches(p, w)'
        BY <1>6, <1>7, <1>8, <2>6, <3>1, <3>3 DEF Matches, Flags
      <4> QED BY <4>1, <4>2
    <3> QED BY <3>2, <3>3
  <2>12. Items'
    BY <1>1, <1>9, <2>10, <2>11, ItemStep
  <2> QED BY <2>7, <2>9, <2>12 DEF IInv
<1> QED BY <1>10, <1>11

\* o differs from r only in its delayed list.
SameButDelayed(o, r) == /\ o.list = r.list /\ o.count = r.count /\ o.current = r.current
                        /\ o.started = r.started /\ o.stopping = r.stopping
                        /\ o.worker = r.worker /\ o.items = r.items
                        /\ o.initialized = r.initialized

\* sys_dlist_remove from whichever delayed list w is on.
LEMMA Undelayed ==
    ASSUME Types, Items, NEW w \in Works
    PROVE  /\ Undelay(w) \in [Queues -> QueueType]
           /\ \A p \in Queues : /\ SameButDelayed(Undelay(w)[p], queue[p])
                                /\ Range(Undelay(w)[p].delayed) = Range(queue[p].delayed) \ {w}
                                /\ NoDuplicates(Undelay(w)[p].delayed)
<1>1. \A p \in Queues : Matches(p, w) /\ ListsSound(p) /\ queue[p] \in QueueType
  BY DEF Items, Types
<1>2. queue \in [Queues -> QueueType] /\ ItemSound(w)
  BY DEF Types, Items
<1>3. CASE "DELAYED" \notin Flags(w)
  <2>1. Undelay(w) = queue
    BY <1>3 DEF Undelay
  <2>2. \A p \in Queues : w \notin Range(queue[p].delayed) /\ NoDuplicates(queue[p].delayed)
    BY <1>1, <1>3 DEF Matches, ListsSound
  <2> QED BY <1>2, <2>1, <2>2 DEF SameButDelayed
<1>4. CASE "DELAYED" \in Flags(w)
  <2> PICK q : q = work[w].dqueue
    OBVIOUS
  <2>1. q \in Queues
    BY <1>2, <1>4 DEF ItemSound
  <2>2. /\ queue[q] \in QueueType /\ queue[q].delayed \in Seq(Works)
        /\ w \in Range(queue[q].delayed) /\ NoDuplicates(queue[q].delayed)
    BY <1>1, <1>4, <2>1 DEF Matches, ListsSound, QueueType
  <2> PICK d : d = RemoveNode(queue[q].delayed, w)
    OBVIOUS
  <2> PICK o : o = [queue[q] EXCEPT !.delayed = d]
    OBVIOUS
  <2> PICK u : u = [queue EXCEPT ![q] = o]
    OBVIOUS
  <2>3. Undelay(w) = u
    BY <1>4 DEF Undelay
  <2>4. d \in Seq(Works) /\ Range(d) = Range(queue[q].delayed) \ {w} /\ NoDuplicates(d)
    BY <2>2, RemoveProperties
  <2>5. o \in QueueType /\ SameButDelayed(o, queue[q]) /\ o.delayed = d
    BY <2>2, <2>4 DEF QueueType, SameButDelayed
  <2>6. /\ u \in [Queues -> QueueType] /\ u[q] = o
        /\ \A p \in Queues \ {q} : u[p] = queue[p]
    BY <1>2, <2>1, <2>5
  <2>7. ASSUME NEW p \in Queues
        PROVE  /\ SameButDelayed(u[p], queue[p])
               /\ Range(u[p].delayed) = Range(queue[p].delayed) \ {w}
               /\ NoDuplicates(u[p].delayed)
    <3>1. CASE p = q
      BY <2>4, <2>5, <2>6, <3>1
    <3>2. CASE p # q
      <4>1. w \notin Range(queue[p].delayed) /\ NoDuplicates(queue[p].delayed)
        BY <1>1, <3>2 DEF Matches, ListsSound
      <4> QED BY <2>6, <3>2, <4>1 DEF SameButDelayed
    <3> QED BY <3>1, <3>2
  <2> QED BY <2>3, <2>6, <2>7
<1> QED BY <1>3, <1>4

\* The delayed lists lose w, if one has it.
LeavesDelayed(w) ==
    /\ queue' \in [Queues -> QueueType]
    /\ \A p \in Queues : /\ SameButDelayed(queue'[p], queue[p])
                         /\ Range(queue'[p].delayed) = Range(queue[p].delayed) \ {w}
                         /\ NoDuplicates(queue'[p].delayed)

LEMMA LifeOfDelayed ==
    ASSUME LifeCycle, NEW q \in Queues, PcKeeps, SameButDelayed(queue'[q], queue[q]),
           queue[q].delayed = <<>> /\ queue[q].stopping => queue'[q].delayed = <<>>
    PROVE  LifeKeeps(q)
<1>1. WorkerAgrees(q)
  BY DEF LifeCycle
<1>2. queue'[q].current # None <=> pc'[q] = "handler"
  BY <1>1 DEF WorkerAgrees, PcKeeps, SameButDelayed
<1> QED BY <1>2 DEF LifeKeeps, PcKeeps, SameButDelayed

LEMMA EmptyRange ==
    ASSUME NEW S, NEW s \in Seq(S)
    PROVE  Range(s) = {} <=> s = <<>>
<1>1. Len(s) \in Nat /\ DOMAIN s = 1 .. Len(s) /\ (Len(s) = 0 <=> s = <<>>)
  BY LenProperties, EmptySeq
<1>2. s = <<>> => Range(s) = {}
  BY SmallRanges
<1>3. s # <<>> => s[1] \in Range(s)
  BY <1>1 DEF Range
<1> QED BY <1>2, <1>3

LEMMA LeaveStep ==
    ASSUME IInv, NEW t \in Threads, TodoKeeps(t), NEW w \in Works, LeavesDelayed(w),
           work' = [work EXCEPT ![w].flags = @ \ {"DELAYED"}, ![w].ttl = 0],
           PcKeeps, now' = now
    PROVE  IInv'
<1>1. Types /\ Items /\ LifeCycle
  BY DEF IInv
<1>2. work[w] \in WorkType /\ ItemSound(w)
  BY <1>1 DEF Types, Items
<1> PICK f : f = work[w].flags \ {"DELAYED"}
  OBVIOUS
<1> PICK z \in Int : z = 0
  OBVIOUS
<1> PICK v : v = [work[w] EXCEPT !.flags = f, !.ttl = z]
  OBVIOUS
<1>3. work' = [work EXCEPT ![w] = v]
  OBVIOUS
<1> f \in SUBSET AllFlags
  BY <1>2 DEF WorkType, AllFlags
<1>4. /\ v \in WorkType /\ v.flags = f /\ v.queue = work[w].queue
      /\ v.dqueue = work[w].dqueue /\ v.submission_id = work[w].submission_id
      /\ v.running_id = work[w].running_id /\ v.completion_id = work[w].completion_id
  <2>1. v \in WorkType /\ v.flags = f
    BY <1>2 DEF WorkType
  <2>2. /\ v.queue = work[w].queue /\ v.dqueue = work[w].dqueue
        /\ v.submission_id = work[w].submission_id
        /\ v.running_id = work[w].running_id /\ v.completion_id = work[w].completion_id
    BY <1>2 DEF WorkType
  <2> QED BY <2>1, <2>2
<1>5. /\ work' \in [Works -> WorkType] /\ work'[w] = v
      /\ \A x \in Works \ {w} : work'[x] = work[x]
  BY <1>1, <1>3, <1>4, WorkUpdate
<1>6. /\ "DELAYED" \notin f /\ ("QUEUED" \in f <=> "QUEUED" \in Flags(w))
      /\ ("RUNNING" \in f <=> "RUNNING" \in Flags(w))
      /\ ("CANCELING" \in f <=> "CANCELING" \in Flags(w))
  BY DEF Flags
<1>7. Types'
  BY <1>1, <1>5 DEF Types, TodoKeeps, PcKeeps, LeavesDelayed
<1>8. ASSUME NEW p \in Queues PROVE LifeKeeps(p)
  <2>1. /\ SameButDelayed(queue'[p], queue[p]) /\ queue'[p].delayed \in Seq(Works)
        /\ Range(queue'[p].delayed) \subseteq Range(queue[p].delayed)
    BY <1>7 DEF LeavesDelayed, Types, QueueType
  <2>2. queue[p].delayed = <<>> => queue'[p].delayed = <<>>
    BY <2>1, SmallRanges, EmptyRange
  <2> QED BY <1>1, <2>1, <2>2, LifeOfDelayed
<1>9. LifeCycle'
  BY <1>1, <1>7, <1>8, LifeQuietly
<1>10. ItemSound(w)'
  BY <1>2, <1>4, <1>5, <1>6 DEF ItemSound, Flags
<1>11. OthersStay(w)
  <2>1. ASSUME NEW x \in Works \ {w} PROVE SameItem(x)
    BY <1>5 DEF SameItem
  <2>2. ASSUME NEW x \in Works \ {w}, NEW p \in Queues
        PROVE  /\ x \in Range(queue'[p].list) <=> x \in Range(queue[p].list)
               /\ x \in Range(queue'[p].delayed) <=> x \in Range(queue[p].delayed)
               /\ queue'[p].current = x <=> queue[p].current = x
    BY DEF LeavesDelayed, SameButDelayed
  <2> QED BY <2>1, <2>2 DEF OthersStay
<1>12. ASSUME NEW p \in Queues PROVE ListsSound(p)' /\ Matches(p, w)'
  <2>1. Matches(p, w) /\ ListsSound(p)
    BY <1>1 DEF Items
  <2>2. ListsSound(p)'
    BY <2>1 DEF ListsSound, LeavesDelayed, SameButDelayed
  <2>3. Matches(p, w)'
    <3>1. /\ queue'[p].list = queue[p].list /\ queue'[p].current = queue[p].current
          /\ w \notin Range(queue'[p].delayed)
      BY DEF LeavesDelayed, SameButDelayed
    <3>2. work'[w].flags = f /\ work'[w].queue = work[w].queue
      BY <1>4, <1>5
    <3> QED BY ONLY <1>6, <2>1, <3>1, <3>2 DEF Matches, Flags
  <2> QED BY <2>2, <2>3
<1>13. Items'
  BY <1>1, <1>10, <1>11, <1>12, ItemStep
<1> QED BY <1>7, <1>9, <1>13 DEF IInv

\* The first of some positions.
LEMMA FirstIsMember ==
    ASSUME NEW T, T \subseteq Nat, T # {}
    PROVE  First(T) \in T /\ \A y \in T : First(T) <= y
<1> PICK R : R = {ss \in Nat \X Nat : ss[1] < ss[2]}
  OBVIOUS
<1>1. IsWellFoundedOn(R, Nat)
  BY NatLessThanWellFounded DEF OpToRel
<1>2. PICK x \in T : \A y \in T : <<y, x>> \notin R
  BY <1>1, WFMin
<1>3. \A y \in T : ~(y < x)
  BY <1>2
<1>4. \A y \in T : x <= y
  BY <1>3
<1> QED BY <1>4 DEF First

LEMMA UndelayLeaves ==
    ASSUME Types, Items, NEW w \in Works, queue' = Undelay(w)
    PROVE  LeavesDelayed(w)
BY Undelayed DEF LeavesDelayed

\* A due item leaves the delayed list.
LEMMA PromoteStep ==
    ASSUME IInv, NEW q \in Queues, os_work_promote_due(q)
    PROVE  IInv'
<1> PICK w : w = queue[q].delayed[First(Due(q))]
  OBVIOUS
<1>1. Types /\ Items /\ q \in Threads
  BY DEF IInv, Threads
<1>2. w \in Works
  <2>1. queue[q].delayed \in Seq(Works)
    BY <1>1 DEF Types, QueueType
  <2>2. /\ DOMAIN queue[q].delayed \subseteq Nat
        /\ \A i \in DOMAIN queue[q].delayed : queue[q].delayed[i] \in Works
    BY <2>1
  <2>3. Due(q) \subseteq DOMAIN queue[q].delayed /\ Due(q) # {}
    BY DEF Due, os_work_promote_due
  <2>4. First(Due(q)) \in Due(q)
    BY <2>2, <2>3, FirstIsMember
  <2> QED BY <2>2, <2>3, <2>4
<1>3. /\ queue' = Undelay(w) /\ now' = now
      /\ work' = [work EXCEPT ![w].flags = @ \ {"DELAYED"}, ![w].ttl = 0]
  BY DEF os_work_promote_due
<1>4. TodoKeeps(q)
  <2> PICK s : s = IF queue[q].plugged \/ queue[q].stopping THEN Notify(w) ELSE Submit(q, w)
    OBVIOUS
  <2>1. Continue(q, <<s>>, <<>>)
    BY DEF os_work_promote_due
  <2>2. s \in Quiet
    BY <1>2, QuietSteps
  <2>3. <<s>> \in Seq(Quiet) /\ <<>> \in Seq(Quiet)
    BY <2>2
  <2> QED BY <1>1, <2>1, <2>3, FirstStep
<1>5. PcKeeps
  BY <1>1, PcStep DEF os_work_promote_due, Worker, Places
<1>6. LeavesDelayed(w)
  BY <1>1, <1>2, <1>3, UndelayLeaves
<1> QED BY <1>1, <1>2, <1>3, <1>4, <1>5, <1>6, LeaveStep

LEMMA CancelDelayableStep ==
    ASSUME IInv, NEW t \in Threads, NEW w \in Works, NEW sync \in BOOLEAN,
           os_work_cancel_delayable(t, w, sync)
    PROVE  IInv'
<1>1. Types /\ Items /\ ItemSound(w)
  BY DEF IInv, Items
<1>2. /\ queue' = Undelay(w) /\ now' = now
      /\ work' = [work EXCEPT ![w].flags = @ \ {"DELAYED"}, ![w].ttl = 0]
  BY DEF os_work_cancel_delayable
<1>3. TodoKeeps(t)
  <2> PICK first : first = IF "DELAYED" \in Flags(w) THEN <<Give(work[w].dqueue)>> ELSE <<>>
    OBVIOUS
  <2> PICK last : last = IF sync THEN <<CheckIdle(w)>> ELSE <<>>
    OBVIOUS
  <2>1. "DELAYED" \in Flags(w) => work[w].dqueue \in Queues
    BY <1>1 DEF ItemSound
  <2>2. first \in Seq(Quiet)
    BY <2>1, QuietSteps
  <2>3. last \in Seq(Quiet) /\ <<Todo("cancel", None, w, 0)>> \in Seq(Quiet)
    BY QuietSteps
  <2>4. <<Todo("cancel", None, w, 0)>> \o last \in Seq(Quiet)
    BY <2>3, ConcatRange
  <2>5. Continue(t, first, <<Todo("cancel", None, w, 0)>> \o last)
    BY DEF os_work_cancel_delayable
  <2> QED BY <1>1, <2>2, <2>4, <2>5, FirstStep
<1>4. PcKeeps
  BY <1>1, UnchangedPc DEF os_work_cancel_delayable
<1>5. LeavesDelayed(w)
  BY <1>1, <1>2, UndelayLeaves
<1> QED BY <1>2, <1>3, <1>4, <1>5, LeaveStep

LEMMA FlushDelayableStep ==
    ASSUME IInv, NEW t \in Threads, NEW w \in Works, os_work_flush_delayable(t, w)
    PROVE  IInv'
<1>1. Types /\ Items /\ ItemSound(w)
  BY DEF IInv, Items
<1>2. /\ queue' = Undelay(w) /\ now' = now
      /\ work' = [work EXCEPT ![w].flags = @ \ {"DELAYED"}, ![w].ttl = 0]
  BY DEF os_work_flush_delayable
<1>3. TodoKeeps(t)
  <2> PICK q : q = work[w].dqueue
    OBVIOUS
  <2> PICK first : first = IF "DELAYED" \in Flags(w) THEN <<Give(q), Submit(q, w)>> ELSE <<>>
    OBVIOUS
  <2>1. "DELAYED" \in Flags(w) => q \in Queues
    BY <1>1 DEF ItemSound
  <2>2. first \in Seq(Quiet)
    BY <2>1, QuietSteps
  <2>3. <<Todo("flush", None, w, 0)>> \in Seq(Quiet)
    BY QuietSteps
  <2>4. Continue(t, first, <<Todo("flush", None, w, 0)>>)
    BY DEF os_work_flush_delayable
  <2> QED BY <1>1, <2>2, <2>3, <2>4, FirstStep
<1>4. PcKeeps
  BY <1>1, UnchangedPc DEF os_work_flush_delayable
<1>5. LeavesDelayed(w)
  BY <1>1, <1>2, UndelayLeaves
<1> QED BY <1>2, <1>3, <1>4, <1>5, LeaveStep

LEMMA ScheduleNowStep ==
    ASSUME IInv, NEW t \in Threads, NEW q \in Queues, NEW w \in Works,
           NEW reschedule \in BOOLEAN, os_work_schedule_common(t, q, w, 0, reschedule)
    PROVE  IInv'
<1>1. Types /\ Items /\ ItemSound(w)
  BY DEF IInv, Items
<1>2. /\ queue' = Undelay(w) /\ now' = now
      /\ work' = [work EXCEPT ![w].flags = @ \ {"DELAYED"}, ![w].ttl = 0]
  BY DEF os_work_schedule_common
<1>3. TodoKeeps(t)
  <2> PICK old : old = work[w].dqueue
    OBVIOUS
  <2> PICK wake : wake = IF "DELAYED" \in Flags(w) THEN <<Give(old)>> ELSE <<>>
    OBVIOUS
  <2>1. "DELAYED" \in Flags(w) => old \in Queues
    BY <1>1 DEF ItemSound
  <2>2. wake \in Seq(Quiet)
    BY <2>1, QuietSteps
  <2>3. <<Submit(q, w)>> \in Seq(Quiet)
    BY QuietSteps
  <2>4. Continue(t, wake, <<Submit(q, w)>>)
    BY DEF os_work_schedule_common
  <2> QED BY <1>1, <2>2, <2>3, <2>4, FirstStep
<1>4. PcKeeps
  BY <1>1, UnchangedPc DEF os_work_schedule_common
<1>5. LeavesDelayed(w)
  BY <1>1, <1>2, UndelayLeaves
<1> QED BY <1>2, <1>3, <1>4, <1>5, LeaveStep

LEMMA ScheduleLaterStep ==
    ASSUME IInv, NEW t \in Threads, NEW q \in Queues, NEW w \in Works,
           NEW delay \in Delays, delay # 0, NEW reschedule \in BOOLEAN,
           os_work_schedule_common(t, q, w, delay, reschedule)
    PROVE  IInv'
<1>1. Types /\ Items /\ LifeCycle /\ ItemSound(w) /\ work[w] \in WorkType /\ now \in Int
  BY DEF IInv, Items, Types
<1>2. /\ queue' = [Undelay(w) EXCEPT ![q].delayed = Append(@, w)]
      /\ work' = [work EXCEPT ![w].flags = @ \cup {"DELAYED"}, ![w].dqueue = q,
                              ![w].deadline = (now + delay) % TickMod, ![w].ttl = delay]
      /\ UNCHANGED <<pc, now>> /\ queue[q].started /\ ~queue[q].stopping
  BY DEF os_work_schedule_common, Accepts
<1>3. TodoKeeps(t)
  <2> PICK old : old = work[w].dqueue
    OBVIOUS
  <2> PICK wake : wake = IF "DELAYED" \in Flags(w) /\ old # q THEN <<Give(old)>> ELSE <<>>
    OBVIOUS
  <2>1. "DELAYED" \in Flags(w) => old \in Queues
    BY <1>1 DEF ItemSound
  <2>2. wake \in Seq(Quiet)
    BY <2>1, QuietSteps
  <2>3. <<Give(q)>> \in Seq(Quiet)
    BY QuietSteps
  <2>4. Continue(t, wake, <<Give(q)>>)
    BY DEF os_work_schedule_common
  <2> QED BY <1>1, <2>2, <2>3, <2>4, FirstStep
<1>4. PcKeeps
  BY <1>1, <1>2, UnchangedPc
<1> PICK f : f = work[w].flags \cup {"DELAYED"}
  OBVIOUS
<1> PICK dl : dl = (now + delay) % TickMod
  OBVIOUS
<1> PICK v : v = [work[w] EXCEPT !.flags = f, !.dqueue = q, !.deadline = dl, !.ttl = delay]
  OBVIOUS
<1>5. work' = [work EXCEPT ![w] = v]
  BY <1>2
<1>6. f \in SUBSET AllFlags
  BY <1>1 DEF WorkType, AllFlags
<1>7. delay \in Int /\ dl \in Int
  <2>1. INT32_MAX \in Int
    BY TickModAssumption DEF INT32_MAX
  <2>2. delay \in Int
    BY <2>1, DelaysAssumption
  <2> QED BY <1>1, <2>2, TickModAssumption
<1>8. /\ v \in WorkType /\ v.flags = f /\ v.dqueue = q /\ v.queue = work[w].queue
      /\ v.submission_id = work[w].submission_id
      /\ v.running_id = work[w].running_id /\ v.completion_id = work[w].completion_id
  BY <1>1, <1>6, <1>7 DEF WorkType
<1>9. /\ work' \in [Works -> WorkType] /\ work'[w] = v
      /\ \A x \in Works \ {w} : work'[x] = work[x]
  BY <1>1, <1>5, <1>8, WorkUpdate
<1>10. /\ "DELAYED" \in f /\ ("QUEUED" \in f <=> "QUEUED" \in Flags(w))
       /\ ("RUNNING" \in f <=> "RUNNING" \in Flags(w))
       /\ ("CANCELING" \in f <=> "CANCELING" \in Flags(w))
  BY DEF Flags
<1> PICK u : u = Undelay(w)
  OBVIOUS
<1>11. /\ u \in [Queues -> QueueType]
       /\ \A p \in Queues : /\ SameButDelayed(u[p], queue[p])
                            /\ Range(u[p].delayed) = Range(queue[p].delayed) \ {w}
                            /\ NoDuplicates(u[p].delayed)
  BY <1>1, Undelayed
<1> PICK d : d = Append(u[q].delayed, w)
  OBVIOUS
<1>12. d \in Seq(Works) /\ Range(d) = Range(queue[q].delayed) \cup {w} /\ NoDuplicates(d)
  <2>1. u[q].delayed \in Seq(Works) /\ NoDuplicates(u[q].delayed) /\ w \notin Range(u[q].delayed)
    BY <1>11 DEF QueueType
  <2>2. d \in Seq(Works) /\ Range(d) = Range(u[q].delayed) \cup {w} /\ NoDuplicates(d)
    BY <2>1, AppendNode
  <2> QED BY <1>11, <2>2
<1> PICK o : o = [u[q] EXCEPT !.delayed = d]
  OBVIOUS
<1>13. o \in QueueType /\ SameButDelayed(o, queue[q]) /\ o.delayed = d
  <2>1. u[q] \in QueueType /\ SameButDelayed(u[q], queue[q])
    BY <1>11
  <2>2. o \in QueueType /\ SameButDelayed(o, u[q]) /\ o.delayed = d
    BY <1>12, <2>1 DEF QueueType, SameButDelayed
  <2> QED BY <2>1, <2>2 DEF SameButDelayed
<1>14. /\ queue' \in [Queues -> QueueType] /\ queue'[q] = o
       /\ \A p \in Queues \ {q} : queue'[p] = u[p]
  <2>1. queue' = [u EXCEPT ![q] = o]
    BY <1>2
  <2> QED BY <1>11, <1>13, <2>1
<1>15. Types'
  BY <1>1, <1>2, <1>3, <1>4, <1>9, <1>14 DEF Types, TodoKeeps, PcKeeps
<1>16. ASSUME NEW p \in Queues PROVE SameButDelayed(queue'[p], queue[p])
  BY <1>11, <1>13, <1>14
<1>17. ASSUME NEW p \in Queues PROVE LifeKeeps(p)
  <2>1. CASE p = q
    BY <1>1, <1>2, <1>4, <1>16, <2>1, LifeOfDelayed
  <2>2. CASE p # q
    <3>1. /\ queue'[p].delayed \in Seq(Works)
          /\ Range(queue'[p].delayed) \subseteq Range(queue[p].delayed)
      BY <1>11, <1>14, <2>2 DEF QueueType
    <3>2. queue[p].delayed = <<>> => queue'[p].delayed = <<>>
      BY <3>1, SmallRanges, EmptyRange
    <3> QED BY <1>1, <1>4, <1>16, <3>2, LifeOfDelayed
  <2> QED BY <2>1, <2>2
<1>18. LifeCycle'
  BY <1>1, <1>3, <1>15, <1>17, LifeQuietly
<1>19. ItemSound(w)'
  BY <1>1, <1>8, <1>9, <1>10 DEF ItemSound, Flags
<1>20. OthersStay(w)
  <2>1. ASSUME NEW x \in Works \ {w} PROVE SameItem(x)
    BY <1>9 DEF SameItem
  <2>2. ASSUME NEW x \in Works \ {w}, NEW p \in Queues
        PROVE  /\ x \in Range(queue'[p].list) <=> x \in Range(queue[p].list)
               /\ x \in Range(queue'[p].delayed) <=> x \in Range(queue[p].delayed)
               /\ queue'[p].current = x <=> queue[p].current = x
    <3>1. x \in Range(queue'[p].delayed) <=> x \in Range(queue[p].delayed)
      BY <1>11, <1>12, <1>13, <1>14
    <3> QED BY <1>16, <3>1 DEF SameButDelayed
  <2> QED BY <2>1, <2>2 DEF OthersStay
<1>21. ASSUME NEW p \in Queues PROVE ListsSound(p)' /\ Matches(p, w)'
  <2>1. Matches(p, w) /\ ListsSound(p) /\ SameButDelayed(queue'[p], queue[p])
    BY <1>1, <1>16 DEF Items
  <2>2. NoDuplicates(queue'[p].delayed)
    BY <1>11, <1>12, <1>13, <1>14
  <2>3. w \in Range(queue'[p].delayed) <=> p = q
    BY <1>11, <1>12, <1>13, <1>14
  <2>4. ListsSound(p)'
    BY <2>1, <2>2 DEF ListsSound, SameButDelayed
  <2>5. queue'[p].list = queue[p].list /\ queue'[p].current = queue[p].current
    BY <2>1 DEF SameButDelayed
  <2>6. work'[w].flags = f /\ work'[w].queue = work[w].queue /\ work'[w].dqueue = q
    BY <1>8, <1>9
  <2>7. Matches(p, w)'
    BY ONLY <1>10, <2>1, <2>3, <2>5, <2>6 DEF Matches, Flags
  <2> QED BY <2>4, <2>7
<1>22. Items'
  BY <1>1, <1>19, <1>20, <1>21, ItemStep
<1> QED BY <1>15, <1>18, <1>22 DEF IInv

\* Submissions and cancellations, as calls and as parts of calls.
LEMMA CallSteps ==
    ASSUME IInv, NEW t \in Threads,
           \/ \E q \in Queues, w \in Works : os_work_submit_to_queue(t, q, w)
           \/ \E w \in Works : os_work_cancel(t, w) \/ os_work_cancel_sync(t, w)
           \/ os_work_submit_nested(t) \/ os_work_cancel_nested(t)
    PROVE  IInv'
<1>1. Types
  BY DEF IInv
<1>2. <<>> \in Seq(Steps) /\ Range(<<>>) \subseteq Range(todo[t]) \cup Quiet
  BY SmallRanges
<1>3. ASSUME NEW q \in Queues, NEW w \in Works, os_work_submit_to_queue(t, q, w) PROVE IInv'
  BY <1>2, <1>3, EnqueueStep DEF os_work_submit_to_queue
<1>4. ASSUME NEW w \in Works, os_work_cancel(t, w) PROVE IInv'
  BY <1>2, <1>4, CancelStep DEF os_work_cancel
<1>5. ASSUME NEW w \in Works, os_work_cancel_sync(t, w) PROVE IInv'
  <2>1. CheckIdle(w) \in Quiet /\ CheckIdle(w) \in Steps
    BY QuietSteps DEF Quiet
  <2>2. /\ <<CheckIdle(w)>> \in Seq(Steps)
        /\ Range(<<CheckIdle(w)>>) \subseteq Range(todo[t]) \cup Quiet
    BY <2>1, SmallRanges
  <2> QED BY <1>5, <2>2, CancelStep DEF os_work_cancel_sync
<1>6. CASE os_work_submit_nested(t)
  <2>1. todo[t] # <<>> /\ Head(todo[t]).do = "submit"
    BY <1>6 DEF os_work_submit_nested, At
  <2>2. /\ Tail(todo[t]) \in Seq(Steps) /\ Range(Tail(todo[t])) \subseteq Range(todo[t]) \cup Quiet
        /\ Head(todo[t]) \in Steps
    BY <1>1, <2>1, HeadStep
  <2>3. Head(todo[t]).q \in Queues /\ Head(todo[t]).w \in Works
    BY <2>1, <2>2, StepFields DEF OnItem, OnQueue
  <2> QED BY <1>6, <2>2, <2>3, EnqueueStep DEF os_work_submit_nested
<1>7. CASE os_work_cancel_nested(t)
  <2>1. todo[t] # <<>> /\ Head(todo[t]).do = "cancel"
    BY <1>7 DEF os_work_cancel_nested, At
  <2>2. /\ Tail(todo[t]) \in Seq(Steps) /\ Range(Tail(todo[t])) \subseteq Range(todo[t]) \cup Quiet
        /\ Head(todo[t]) \in Steps
    BY <1>1, <2>1, HeadStep
  <2>3. Head(todo[t]).w \in Works
    BY <2>1, <2>2, StepFields DEF OnItem
  <2> QED BY <1>7, <2>2, <2>3, CancelStep DEF os_work_cancel_nested
<1> QED BY <1>3, <1>4, <1>5, <1>6, <1>7
-----------------------------------------------------------------------------
(* The worker takes a node off the list, and runs it                       *)

LEMMA PopWorkStep ==
    ASSUME IInv, NEW q \in Queues, os_work_queue_pop_work(q)
    PROVE  IInv'
<1> PICK w : w = Head(queue[q].list)
  OBVIOUS
<1> PICK l : l = Tail(queue[q].list)
  OBVIOUS
<1>1. Types /\ Items /\ LifeCycle /\ q \in Threads
  BY DEF IInv, Threads
<1>2. queue[q] \in QueueType /\ queue[q].list \in Seq(Works \cup {StopNode})
  BY <1>1 DEF Types, QueueType
<1>3. queue[q].list # <<>> /\ w # StopNode /\ pc[q] = "pop" /\ UNCHANGED <<todo, now>>
  BY DEF os_work_queue_pop_work, Worker
<1>4. ListsSound(q) /\ WorkerAgrees(q) /\ StoppingIsIdle(q)
  BY <1>1 DEF Items, LifeCycle
<1>5. /\ l \in Seq(Works \cup {StopNode}) /\ Len(l) = Len(queue[q].list) - 1
      /\ Len(queue[q].list) \in Nat \ {0} /\ w \in Works
      /\ Range(queue[q].list) = {w} \cup Range(l) /\ w \notin Range(l) /\ NoDuplicates(l)
  <2>1. NoDuplicates(queue[q].list)
    BY <1>4 DEF ListsSound
  <2> QED BY <1>2, <1>3, <2>1, GetNode
<1>6. Matches(q, w) /\ ItemSound(w) /\ work[w] \in WorkType
  BY <1>1, <1>5 DEF Items, Types
<1>7. "QUEUED" \in Flags(w) /\ work[w].queue = q
  BY <1>5, <1>6 DEF Matches
<1> PICK n : n = queue[q].count - 1
  OBVIOUS
<1> PICK o : o = [queue[q] EXCEPT !.list = l, !.count = n, !.current = w]
  OBVIOUS
<1> PICK f : f = (work[w].flags \ {"QUEUED"}) \cup {"RUNNING"}
  OBVIOUS
<1> PICK v : v = [work[w] EXCEPT !.flags = f, !.running_id = work[w].submission_id]
  OBVIOUS
<1>8. queue' = [queue EXCEPT ![q] = o]
  BY DEF os_work_queue_pop_work, Popped
<1>9. work' = [work EXCEPT ![w] = v]
  BY DEF os_work_queue_pop_work
<1>10. n \in Nat /\ n = Len(l)
  BY <1>4, <1>5 DEF ListsSound
<1>11. f \in SUBSET AllFlags
  BY <1>6 DEF WorkType, AllFlags
<1>12. /\ o \in QueueType /\ o.list = l /\ o.count = n /\ o.current = w
       /\ o.delayed = queue[q].delayed /\ o.worker = queue[q].worker
       /\ o.started = queue[q].started /\ o.stopping = queue[q].stopping
  BY <1>2, <1>5, <1>10 DEF QueueType
<1>13. /\ v \in WorkType /\ v.flags = f /\ v.queue = work[w].queue
       /\ v.dqueue = work[w].dqueue /\ v.submission_id = work[w].submission_id
       /\ v.running_id = work[w].submission_id /\ v.completion_id = work[w].completion_id
  BY <1>6, <1>11 DEF WorkType
<1>14. /\ queue' \in [Queues -> QueueType] /\ queue'[q] = o
       /\ \A p \in Queues \ {q} : queue'[p] = queue[p]
  <2>1. o \in QueueType
    BY <1>12
  <2> HIDE DEF QueueType
  <2> QED BY ONLY <1>1, <1>8, <2>1, QueueUpdate, q \in Queues
<1>15. /\ work' \in [Works -> WorkType] /\ work'[w] = v
       /\ \A x \in Works \ {w} : work'[x] = work[x]
  BY <1>1, <1>5, <1>9, <1>13, WorkUpdate
<1>16. /\ pc' \in [Queues -> Places] /\ pc'[q] = "handler"
       /\ \A p \in Queues \ {q} : pc'[p] = pc[p]
  BY <1>1 DEF os_work_queue_pop_work, Types, Places
<1>17. TodoKeeps(q)
  BY <1>1, <1>3, UnchangedTodo
<1>18. Types'
  BY <1>1, <1>3, <1>14, <1>15, <1>16, <1>17 DEF Types, TodoKeeps
<1>19. ASSUME NEW p \in Queues PROVE LifeKeeps(p)
  <2>1. CASE p = q
    <3>1. StopNode \in Range(queue'[q].list) <=> StopNode \in Range(queue[q].list)
      BY <1>3, <1>5, <1>12, <1>14
    <3>2. queue'[q].current # None /\ ~queue[q].stopping
      BY <1>3, <1>4, <1>5, <1>12, <1>14, NodesAssumption DEF StoppingIsIdle
    <3> QED BY <1>3, <1>12, <1>14, <1>16, <2>1, <3>1, <3>2 DEF LifeKeeps
  <2>2. CASE p # q
    <3>1. SameLife(p)
      BY <1>14, <1>16, <2>2 DEF SameLife, SameLists
    <3> QED BY <1>1, <3>1, SameLifeKeeps
  <2> QED BY <2>1, <2>2
<1>20. LifeCycle'
  BY <1>1, <1>17, <1>18, <1>19, LifeQuietly
<1>21. ItemSound(w)'
  <2>1. "QUEUED" \notin f /\ "RUNNING" \in f /\ ("DELAYED" \in f <=> "DELAYED" \in Flags(w))
    BY DEF Flags
  <2>2. work[w].submission_id \in Nat
    BY <1>6 DEF WorkType
  <2>3. /\ work'[w].flags = f /\ work'[w].queue = q /\ work'[w].dqueue = work[w].dqueue
        /\ work'[w].submission_id = work[w].submission_id
        /\ work'[w].running_id = work[w].submission_id
        /\ work'[w].completion_id = work[w].completion_id
    BY <1>7, <1>13, <1>15
  <2>4. /\ "DELAYED" \in Flags(w) => work[w].dqueue \in Queues
        /\ work[w].completion_id <= work[w].submission_id
    BY <1>6 DEF ItemSound
  <2>5. q \in Queues
    OBVIOUS
  <2> QED BY ONLY <2>1, <2>2, <2>3, <2>4, <2>5 DEF ItemSound, Flags
<1>22. OthersStay(w)
  <2>1. ASSUME NEW x \in Works \ {w} PROVE SameItem(x)
    BY <1>15 DEF SameItem
  <2>2. ASSUME NEW x \in Works \ {w}, NEW p \in Queues
        PROVE  /\ x \in Range(queue'[p].list) <=> x \in Range(queue[p].list)
               /\ x \in Range(queue'[p].delayed) <=> x \in Range(queue[p].delayed)
               /\ queue'[p].current = x <=> queue[p].current = x
    <3>1. CASE p = q
      <4>1. queue[q].current = None
        BY <1>3, <1>4 DEF WorkerAgrees
      <4>2. queue'[q].current # x /\ queue[q].current # x
        BY <1>12, <1>14, <4>1, NodesAssumption
      <4> QED BY <1>5, <1>12, <1>14, <3>1, <4>2
    <3>2. CASE p # q
      BY <1>14, <3>2
    <3> QED BY <3>1, <3>2
  <2> QED BY <2>1, <2>2 DEF OthersStay
<1>23. ASSUME NEW p \in Queues PROVE ListsSound(p)' /\ Matches(p, w)'
  <2>1. Matches(p, w) /\ ListsSound(p)
    BY <1>1, <1>5 DEF Items
  <2>2. /\ work'[w].flags = f /\ work'[w].queue = q /\ work'[w].dqueue = work[w].dqueue
        /\ "QUEUED" \notin f /\ "RUNNING" \in f /\ ("DELAYED" \in f <=> "DELAYED" \in Flags(w))
    BY <1>7, <1>13, <1>15 DEF Flags
  <2>3. CASE p = q
    <3>1. ListsSound(q)'
      BY <1>4, <1>5, <1>10, <1>12, <1>14 DEF ListsSound
    <3>2. /\ queue'[q].current = w /\ w \notin Range(queue'[q].list)
          /\ queue'[q].delayed = queue[q].delayed
      BY <1>5, <1>12, <1>14
    <3>3. Matches(q, w)'
      BY ONLY <1>6, <2>2, <3>2 DEF Matches, Flags
    <3> QED BY <2>3, <3>1, <3>3
  <2>4. CASE p # q
    <3>1. queue'[p] = queue[p]
      BY <1>14, <2>4
    <3>2. ListsSound(p)'
      BY <2>1, <3>1 DEF ListsSound
    <3>3. Matches(p, w)'
      BY ONLY <1>7, <2>1, <2>2, <2>4, <3>1 DEF Matches, Flags
    <3> QED BY <3>2, <3>3
  <2> QED BY <2>3, <2>4
<1>24. Items'
  BY <1>1, <1>5, <1>21, <1>22, <1>23, ItemStep
<1> QED BY <1>18, <1>20, <1>24 DEF IInv

LEMMA FinishStep ==
    ASSUME IInv, NEW q \in Queues, os_work_queue_finish(q)
    PROVE  IInv'
<1> PICK w : w = queue[q].current
  OBVIOUS
<1>1. Types /\ Items /\ LifeCycle /\ q \in Threads
  BY DEF IInv, Threads
<1>2. pc[q] = "handler" /\ now' = now
  BY DEF os_work_queue_finish, Worker
<1>3. queue[q] \in QueueType /\ WorkerAgrees(q)
  BY <1>1 DEF Types, LifeCycle
<1>4. w \in Works
  BY <1>2, <1>3 DEF QueueType, WorkerAgrees
<1>5. Matches(q, w) /\ ItemSound(w) /\ work[w] \in WorkType
  BY <1>1, <1>4 DEF Items, Types
<1>6. "RUNNING" \in Flags(w) /\ work[w].queue = q
  BY <1>5 DEF Matches
<1> PICK o : o = [queue[q] EXCEPT !.current = None]
  OBVIOUS
<1> PICK f : f = work[w].flags \ {"RUNNING", "CANCELING"}
  OBVIOUS
<1> PICK v : v = [work[w] EXCEPT !.completion_id = work[w].running_id, !.flags = f]
  OBVIOUS
<1>7. queue' = [queue EXCEPT ![q] = o]
  BY DEF os_work_queue_finish
<1>8. work' = [work EXCEPT ![w] = v]
  BY DEF os_work_queue_finish, FinishedFlags, Flags
<1>9. f \in SUBSET AllFlags
  BY <1>5 DEF WorkType, AllFlags
<1>10. /\ o \in QueueType /\ o.list = queue[q].list /\ o.count = queue[q].count
       /\ o.current = None /\ o.delayed = queue[q].delayed /\ o.worker = queue[q].worker
       /\ o.started = queue[q].started /\ o.stopping = queue[q].stopping
  BY <1>3 DEF QueueType
<1>11. /\ v \in WorkType /\ v.flags = f /\ v.queue = work[w].queue
       /\ v.dqueue = work[w].dqueue /\ v.submission_id = work[w].submission_id
       /\ v.running_id = work[w].running_id /\ v.completion_id = work[w].running_id
  BY <1>5, <1>9 DEF WorkType
<1>12. /\ queue' \in [Queues -> QueueType] /\ queue'[q] = o
       /\ \A p \in Queues \ {q} : queue'[p] = queue[p]
  BY <1>1, <1>7, <1>10, QueueUpdate
<1>13. /\ work' \in [Works -> WorkType] /\ work'[w] = v
       /\ \A x \in Works \ {w} : work'[x] = work[x]
  BY <1>1, <1>4, <1>8, <1>11, WorkUpdate
<1>14. /\ pc' \in [Queues -> Places] /\ pc'[q] = "tick"
       /\ \A p \in Queues \ {q} : pc'[p] = pc[p]
  BY <1>1 DEF os_work_queue_finish, Types, Places
<1>15. TodoKeeps(q)
  <2>1. <<Notify(w)>> \in Seq(Quiet) /\ <<>> \in Seq(Quiet)
    BY <1>4, QuietSteps
  <2>2. Continue(q, <<Notify(w)>>, <<>>)
    BY DEF os_work_queue_finish
  <2> QED BY <1>1, <2>1, <2>2, FirstStep
<1>16. Types'
  BY <1>1, <1>2, <1>12, <1>13, <1>14, <1>15 DEF Types, TodoKeeps
<1>17. ASSUME NEW p \in Queues PROVE LifeKeeps(p)
  <2>1. CASE p = q
    <3> QED BY <1>2, <1>10, <1>12, <1>14, <2>1 DEF LifeKeeps
  <2>2. CASE p # q
    <3>1. SameLife(p)
      BY <1>12, <1>14, <2>2 DEF SameLife, SameLists
    <3> QED BY <1>1, <3>1, SameLifeKeeps
  <2> QED BY <2>1, <2>2
<1>18. LifeCycle'
  BY <1>1, <1>15, <1>16, <1>17, LifeQuietly
<1>19. /\ "RUNNING" \notin f /\ "CANCELING" \notin f
       /\ ("QUEUED" \in f <=> "QUEUED" \in Flags(w))
       /\ ("DELAYED" \in f <=> "DELAYED" \in Flags(w))
  BY DEF Flags
<1>20. ItemSound(w)'
  BY <1>5, <1>11, <1>13, <1>19 DEF ItemSound, Flags
<1>21. OthersStay(w)
  <2>1. ASSUME NEW x \in Works \ {w} PROVE SameItem(x)
    BY <1>13 DEF SameItem
  <2>2. ASSUME NEW x \in Works \ {w}, NEW p \in Queues
        PROVE  /\ x \in Range(queue'[p].list) <=> x \in Range(queue[p].list)
               /\ x \in Range(queue'[p].delayed) <=> x \in Range(queue[p].delayed)
               /\ queue'[p].current = x <=> queue[p].current = x
    <3>1. CASE p = q
      <4>1. queue'[q].current # x /\ queue[q].current # x
        BY <1>10, <1>12, NodesAssumption
      <4> QED BY <1>10, <1>12, <3>1, <4>1
    <3>2. CASE p # q
      BY <1>12, <3>2
    <3> QED BY <3>1, <3>2
  <2> QED BY <2>1, <2>2 DEF OthersStay
<1>22. ASSUME NEW p \in Queues PROVE ListsSound(p)' /\ Matches(p, w)'
  <2>1. Matches(p, w) /\ ListsSound(p)
    BY <1>1, <1>4 DEF Items
  <2>2. /\ work'[w].flags = f /\ work'[w].queue = q /\ work'[w].dqueue = work[w].dqueue
    BY <1>6, <1>11, <1>13
  <2>3. queue'[p].list = queue[p].list /\ queue'[p].delayed = queue[p].delayed
    BY <1>10, <1>12
  <2>4. ListsSound(p)'
    BY <1>10, <1>12, <2>1, <2>3 DEF ListsSound
  <2>5. queue'[p].current # w
    <3>1. CASE p = q
      <4>1. queue'[q].current = None /\ None # w
        BY <1>4, <1>10, <1>12, NodesAssumption
      <4> QED BY <3>1, <4>1
    <3>2. CASE p # q
      BY <1>6, <1>12, <2>1, <3>2 DEF Matches
    <3> QED BY <3>1, <3>2
  <2>6. Matches(p, w)'
    BY ONLY <1>6, <1>19, <2>1, <2>2, <2>3, <2>5 DEF Matches, Flags
  <2> QED BY <2>4, <2>6
<1>23. Items'
  BY <1>1, <1>4, <1>20, <1>21, <1>22, ItemStep
<1> QED BY <1>16, <1>18, <1>23 DEF IInv
-----------------------------------------------------------------------------
(* Starting and stopping                                                   *)

\* t goes on with the next step of its stop of q.
LEMMA StopContinues ==
    ASSUME Types, NEW t \in Threads, NEW q \in Queues, NEW do \in Stopping,
           Continue(t, <<Todo(do, q, None, 0)>>, <<>>), queue'[q].stopping,
           do \in Joined => queue'[q].worker = "reaped",
           do \in Purged => queue'[q].delayed = <<>>
    PROVE  todo' \in [Threads -> Seq(Steps)] /\ \A p \in Queues : StopsKeep(t, p)
<1> PICK s : s = Todo(do, q, None, 0)
  OBVIOUS
<1>1. s \in Steps /\ s.do = do /\ s.q = q
  BY StopSteps
<1>2. <<s>> \in Seq(Steps) /\ <<>> \in Seq(Steps) /\ Range(<<s>>) = {s} /\ Range(<<>>) = {}
  BY <1>1, SmallRanges
<1>3. /\ todo' \in [Threads -> Seq(Steps)] /\ \A u \in Threads \ {t} : todo'[u] = todo[u]
      /\ Range(todo'[t]) = {s}
  <2>1. Continue(t, <<s>>, <<>>)
    OBVIOUS
  <2>2. /\ todo' \in [Threads -> Seq(Steps)] /\ \A u \in Threads \ {t} : todo'[u] = todo[u]
        /\ Range(todo'[t]) = Range(<<s>>) \cup Range(<<>>)
    BY <1>2, <2>1, ContinueStep
  <2> QED BY <1>2, <2>2
<1> QED BY <1>1, <1>3 DEF StopsKeep, StopMayBeAt

\* A stop of t returns.
LEMMA StopEnds ==
    ASSUME Types, NEW t \in Threads, Continue(t, <<>>, <<>>)
    PROVE  /\ todo' \in [Threads -> Seq(Steps)] /\ \A u \in Threads \ {t} : todo'[u] = todo[u]
           /\ Range(todo'[t]) = {} /\ \A p \in Queues : StopsKeep(t, p)
<1>1. <<>> \in Seq(Steps) /\ Range(<<>>) = {}
  BY SmallRanges
<1>2. /\ todo' \in [Threads -> Seq(Steps)] /\ \A u \in Threads \ {t} : todo'[u] = todo[u]
      /\ Range(todo'[t]) = {}
  <2>1. /\ todo' \in [Threads -> Seq(Steps)] /\ \A u \in Threads \ {t} : todo'[u] = todo[u]
        /\ Range(todo'[t]) = Range(<<>>) \cup Range(<<>>)
    BY <1>1, ContinueStep
  <2> QED BY <1>1, <2>1
<1> QED BY <1>2 DEF StopsKeep

\* What is known at a step of stop.
LEMMA HeadStops ==
    ASSUME IInv, NEW t \in Threads, todo[t] # <<>>, Head(todo[t]).do \in Stopping
    PROVE  /\ Head(todo[t]).q \in Queues /\ queue[Head(todo[t]).q].stopping
           /\ StopMayBeAt(Head(todo[t]).q, Head(todo[t]))
<1>1. Types /\ LifeCycle
  BY DEF IInv
<1>2. Head(todo[t]) \in Steps /\ Head(todo[t]) \in Range(todo[t])
  BY <1>1, HeadStep
<1>3. Head(todo[t]).q \in Queues
  BY <1>2, StepFields DEF OnQueue
<1> QED BY <1>1, <1>2, <1>3 DEF LifeCycle, StopProceeds, StopMayBeAt

\* The worker is joined, or not, and no list changes.
LEMMA JoinUpdate ==
    ASSUME IInv, NEW t \in Threads, NEW q \in Queues, NEW o \in QueueType,
           queue' = [queue EXCEPT ![q] = o], UNCHANGED <<work, pc, now>>,
           o.list = queue[q].list, o.count = queue[q].count,
           o.delayed = queue[q].delayed, o.current = queue[q].current,
           o.started = queue[q].started, o.stopping = queue[q].stopping,
           o.worker = queue[q].worker \/ (queue[q].worker = "exited" /\ o.worker = "reaped"),
           todo' \in [Threads -> Seq(Steps)], \A p \in Queues : StopsKeep(t, p)
    PROVE  IInv'
<1>1. Types /\ Items /\ LifeCycle
  BY DEF IInv
<1>2. /\ queue' \in [Queues -> QueueType] /\ queue'[q] = o
      /\ \A p \in Queues \ {q} : queue'[p] = queue[p]
  BY <1>1, QueueUpdate
<1>3. Types'
  BY <1>1, <1>2 DEF Types
<1>4. \A p \in Queues : SameLists(p)
  BY <1>2 DEF SameLists
<1>5. Items'
  <2>1. \A w \in Works : SameItem(w)
    BY DEF SameItem
  <2> QED BY <1>1, <1>4, <2>1, ItemsFrame
<1>6. ASSUME NEW p \in Queues PROVE LifeKeeps(p)
  <2>1. CASE p = q
    <3>1. WorkerAgrees(q)
      BY <1>1 DEF LifeCycle
    <3>2. queue'[q].current # None <=> pc'[q] = "handler"
      BY <1>2, <3>1 DEF WorkerAgrees
    <3> QED BY <1>2, <2>1, <3>2 DEF LifeKeeps
  <2>2. CASE p # q
    <3>1. SameLife(p)
      BY <1>2, <1>4, <2>2 DEF SameLife
    <3> QED BY <1>1, <3>1, SameLifeKeeps
  <2> QED BY <2>1, <2>2
<1>7. LifeCycle'
  BY <1>1, <1>6, LifeFrame, LifeParts
<1> QED BY <1>3, <1>5, <1>7 DEF IInv

\* The same for steps that leave the queues alone.
LEMMA JoinFrame ==
    ASSUME IInv, NEW t \in Threads, UNCHANGED <<queue, work, pc, now>>,
           todo' \in [Threads -> Seq(Steps)], \A p \in Queues : StopsKeep(t, p)
    PROVE  IInv'
<1>1. Types /\ Items /\ LifeCycle
  BY DEF IInv
<1>2. Types'
  BY <1>1 DEF Types
<1>3. Items'
  BY <1>1, ItemsFrame DEF SameLists, SameItem
<1>4. \A p \in Queues : LifeKeeps(p)
  BY <1>1, SameLifeKeeps DEF SameLife, SameLists
<1>5. LifeCycle'
  BY <1>1, <1>4, LifeFrame, LifeParts
<1> QED BY <1>2, <1>3, <1>5 DEF IInv

LEMMA JoinSteps ==
    ASSUME IInv, NEW t \in Threads,
           os_thread_join(t) \/ os_thread_join_reap(t) \/ os_thread_join_timeout(t)
    PROVE  IInv'
<1> PICK q : q = Head(todo[t]).q
  OBVIOUS
<1>1. /\ Types /\ todo[t] # <<>> /\ Head(todo[t]).do \in Stopping
      /\ UNCHANGED <<work, pc, now>>
  BY DEF IInv, os_thread_join, os_thread_join_reap, os_thread_join_timeout, At, Stopping
<1>2. q \in Queues /\ queue[q].stopping
  BY <1>1, HeadStops
<1>3. queue[q] \in QueueType
  BY <1>1, <1>2 DEF Types
<1>4. CASE os_thread_join(t)
  <2>1. ASSUME queue[q].worker = "reaped", Continue(t, <<Todo("purge", q, None, 0)>>, <<>>),
               UNCHANGED queue
        PROVE  IInv'
    <3>1. todo' \in [Threads -> Seq(Steps)] /\ \A p \in Queues : StopsKeep(t, p)
      BY <1>1, <1>2, <2>1, StopContinues DEF Stopping, Joined, Purged
    <3> QED BY <1>1, <2>1, <3>1, JoinFrame
  <2>2. ASSUME Continue(t, <<>>, <<>>), UNCHANGED queue
        PROVE  IInv'
    <3>1. todo' \in [Threads -> Seq(Steps)] /\ \A p \in Queues : StopsKeep(t, p)
      BY <1>1, <2>2, StopEnds
    <3> QED BY <1>1, <2>2, <3>1, JoinFrame
  <2>3. ASSUME queue' = [queue EXCEPT ![q].joining = TRUE],
               Continue(t, <<Todo("joining", q, None, 0)>>, <<>>)
        PROVE  IInv'
    <3> PICK o : o = [queue[q] EXCEPT !.joining = TRUE]
      OBVIOUS
    <3>1. /\ o \in QueueType /\ o.list = queue[q].list /\ o.count = queue[q].count
          /\ o.delayed = queue[q].delayed /\ o.current = queue[q].current
          /\ o.started = queue[q].started /\ o.stopping = queue[q].stopping
          /\ o.worker = queue[q].worker
      BY <1>3 DEF QueueType
    <3>3. queue' = [queue EXCEPT ![q] = o]
      BY <2>3
    <3>4. queue'[q].stopping
      BY <1>1, <1>2, <3>1, <3>3, QueueUpdate
    <3>2. todo' \in [Threads -> Seq(Steps)] /\ \A p \in Queues : StopsKeep(t, p)
      BY <1>1, <1>2, <2>3, <3>4, StopContinues DEF Stopping, Joined, Purged
    <3> QED BY <1>1, <1>2, <3>1, <3>2, <3>3, JoinUpdate
  <2> QED BY <1>4, <2>1, <2>2, <2>3 DEF os_thread_join
<1>5. CASE os_thread_join_reap(t)
  <2> PICK o : o = [queue[q] EXCEPT !.worker = "reaped", !.joining = FALSE]
    OBVIOUS
  <2>1. /\ o \in QueueType /\ o.list = queue[q].list /\ o.count = queue[q].count
        /\ o.delayed = queue[q].delayed /\ o.current = queue[q].current
        /\ o.started = queue[q].started /\ o.stopping = queue[q].stopping
        /\ o.worker = "reaped"
    BY <1>3 DEF QueueType
  <2>2. /\ queue' = [queue EXCEPT ![q] = o] /\ queue[q].worker = "exited"
        /\ Continue(t, <<Todo("purge", q, None, 0)>>, <<>>)
    BY <1>5 DEF os_thread_join_reap
  <2>3. queue'[q].worker = "reaped" /\ queue'[q].stopping
    BY <1>1, <1>2, <2>1, <2>2, QueueUpdate
  <2>4. todo' \in [Threads -> Seq(Steps)] /\ \A p \in Queues : StopsKeep(t, p)
    BY <1>1, <1>2, <2>2, <2>3, StopContinues DEF Stopping, Joined, Purged
  <2> QED BY <1>1, <1>2, <2>1, <2>2, <2>4, JoinUpdate
<1>6. CASE os_thread_join_timeout(t)
  <2> PICK o : o = [queue[q] EXCEPT !.joining = FALSE]
    OBVIOUS
  <2>1. /\ o \in QueueType /\ o.list = queue[q].list /\ o.count = queue[q].count
        /\ o.delayed = queue[q].delayed /\ o.current = queue[q].current
        /\ o.started = queue[q].started /\ o.stopping = queue[q].stopping
        /\ o.worker = queue[q].worker
    BY <1>3 DEF QueueType
  <2>2. queue' = [queue EXCEPT ![q] = o] /\ Continue(t, <<>>, <<>>)
    BY <1>6 DEF os_thread_join_timeout
  <2>3. todo' \in [Threads -> Seq(Steps)] /\ \A p \in Queues : StopsKeep(t, p)
    BY <1>1, <2>2, StopEnds
  <2> QED BY <1>1, <1>2, <2>1, <2>2, <2>3, JoinUpdate
<1> QED BY <1>4, <1>5, <1>6

\* Stop drops the delayed items one by one.
LEMMA PurgeStep ==
    ASSUME IInv, NEW t \in Threads, os_work_queue_stop_purge(t)
    PROVE  IInv'
<1> PICK q : q = Head(todo[t]).q
  OBVIOUS
<1>1. /\ Types /\ Items /\ todo[t] # <<>> /\ Head(todo[t]).do = "purge"
      /\ UNCHANGED <<pc, now>>
  BY DEF IInv, os_work_queue_stop_purge, At
<1>2. q \in Queues /\ queue[q].stopping /\ queue[q].worker = "reaped"
  BY <1>1, HeadStops DEF Stopping, Joined, StopMayBeAt
<1>3. queue[q] \in QueueType
  BY <1>1, <1>2 DEF Types
<1>4. CASE queue[q].delayed = <<>>
  <2>1. Continue(t, <<Todo("deinit", q, None, 0)>>, <<>>) /\ UNCHANGED <<queue, work>>
    BY <1>4 DEF os_work_queue_stop_purge
  <2>2. todo' \in [Threads -> Seq(Steps)] /\ \A p \in Queues : StopsKeep(t, p)
    BY <1>1, <1>2, <1>4, <2>1, StopContinues DEF Stopping, Joined, Purged
  <2> QED BY <1>1, <2>1, <2>2, JoinFrame
<1>5. CASE queue[q].delayed # <<>>
  <2> PICK w : w = Head(queue[q].delayed)
    OBVIOUS
  <2> PICK d : d = Tail(queue[q].delayed)
    OBVIOUS
  <2> PICK o : o = [queue[q] EXCEPT !.delayed = d]
    OBVIOUS
  <2>1. /\ queue' = [queue EXCEPT ![q] = o] /\ Continue(t, <<Notify(w)>>, todo[t])
        /\ work' = [work EXCEPT ![w].flags = @ \ {"DELAYED"}, ![w].ttl = 0]
    BY <1>5 DEF os_work_queue_stop_purge
  <2>2. queue[q].delayed \in Seq(Works) /\ NoDuplicates(queue[q].delayed)
    BY <1>1, <1>2, <1>3 DEF QueueType, Items, ListsSound
  <2>3. /\ w \in Works /\ d \in Seq(Works) /\ NoDuplicates(d)
        /\ Range(queue[q].delayed) = {w} \cup Range(d) /\ w \notin Range(d)
    BY <1>5, <2>2, GetNode
  <2>4. o \in QueueType /\ SameButDelayed(o, queue[q]) /\ o.delayed = d
    BY <1>3, <2>3 DEF QueueType, SameButDelayed
  <2>5. /\ queue' \in [Queues -> QueueType] /\ queue'[q] = o
        /\ \A p \in Queues \ {q} : queue'[p] = queue[p]
    BY <1>1, <1>2, <2>1, <2>4, QueueUpdate
  <2>6. LeavesDelayed(w)
    <3> SUFFICES ASSUME NEW p \in Queues
                 PROVE  /\ SameButDelayed(queue'[p], queue[p])
                        /\ Range(queue'[p].delayed) = Range(queue[p].delayed) \ {w}
                        /\ NoDuplicates(queue'[p].delayed)
      BY <2>5 DEF LeavesDelayed
    <3>1. CASE p = q
      <4>1. queue'[p] = o /\ queue[p] = queue[q]
        BY <2>5, <3>1
      <4>2. Range(d) = Range(queue[q].delayed) \ {w}
        BY <2>3
      <4> QED BY <2>3, <2>4, <4>1, <4>2
    <3>2. CASE p # q
      <4>1. Matches(p, w) /\ Matches(q, w) /\ ListsSound(p)
        BY <1>1, <1>2, <2>3 DEF Items
      <4>2. w \notin Range(queue[p].delayed)
        BY <2>3, <3>2, <4>1 DEF Matches
      <4> QED BY <2>5, <3>2, <4>1, <4>2 DEF SameButDelayed, ListsSound
    <3> QED BY <3>1, <3>2
  <2>7. TodoKeeps(t)
    <3>1. <<Notify(w)>> \in Seq(Quiet) /\ todo[t] \in Seq(Steps)
      BY <1>1, <2>3, QuietSteps DEF Types
    <3> QED BY <1>1, <2>1, <3>1, ContinueQuietly
  <2>8. PcKeeps
    BY <1>1, UnchangedPc
  <2> QED BY <1>1, <2>1, <2>3, <2>6, <2>7, <2>8, LeaveStep
<1> QED BY <1>4, <1>5

\* Only the stop node enters or leaves a list.
LEMMA StopNodeItems ==
    ASSUME Items, NEW q \in Queues, UNCHANGED work,
           \A p \in Queues \ {q} : queue'[p] = queue[p],
           \A x \in Works : x \in Range(queue'[q].list) <=> x \in Range(queue[q].list),
           NoDuplicates(queue'[q].list), queue'[q].count = Len(queue'[q].list),
           queue'[q].delayed = queue[q].delayed, queue'[q].current = queue[q].current
    PROVE  Items'
<1>1. ASSUME NEW p \in Queues, NEW w \in Works PROVE Matches(p, w)'
  <2>1. Matches(p, w)
    BY DEF Items
  <2>2. CASE p = q
    BY <2>1, <2>2 DEF Matches, Flags
  <2>3. CASE p # q
    BY <2>1, <2>3 DEF Matches, Flags
  <2> QED BY <2>2, <2>3
<1>2. ASSUME NEW p \in Queues PROVE ListsSound(p)'
  <2>1. ListsSound(p)
    BY DEF Items
  <2> QED BY <2>1 DEF ListsSound
<1>3. ASSUME NEW w \in Works PROVE ItemSound(w)'
  BY DEF Items, ItemSound, Flags
<1> QED BY <1>1, <1>2, <1>3 DEF Items

\* Whoever is inside a stop is inside one of its steps.
LEMMA NobodyStops ==
    ASSUME NEW q \in Queues, \A u \in Threads : ~InStop(u, q)'
    PROVE  StopProceeds(q)'
BY DEF StopProceeds, InStop, Stopping, Joined, Purged

\* The tests of os_fifo_deinit.
LEMMA DeinitStep ==
    ASSUME IInv, NEW t \in Threads, os_work_queue_stop_deinit(t)
    PROVE  IInv'
<1> PICK q : q = Head(todo[t]).q
  OBVIOUS
<1>1. /\ Types /\ todo[t] # <<>> /\ Head(todo[t]).do = "deinit"
      /\ UNCHANGED <<queue, work, pc, now>>
  BY DEF IInv, os_work_queue_stop_deinit, At
<1>2. /\ q \in Queues /\ queue[q].stopping /\ queue[q].worker = "reaped"
      /\ queue[q].delayed = <<>>
  BY <1>1, HeadStops DEF Stopping, Joined, Purged, StopMayBeAt
<1>3. \/ Continue(t, <<Todo("zero", q, None, 0)>>, <<>>)
      \/ Continue(t, <<>>, <<>>)
  BY DEF os_work_queue_stop_deinit
<1>4. todo' \in [Threads -> Seq(Steps)] /\ \A p \in Queues : StopsKeep(t, p)
  <2>1. CASE Continue(t, <<Todo("zero", q, None, 0)>>, <<>>)
    BY <1>1, <1>2, <2>1, StopContinues DEF Stopping, Joined, Purged
  <2>2. CASE Continue(t, <<>>, <<>>)
    BY <1>1, <2>2, StopEnds
  <2> QED BY <1>3, <2>1, <2>2
<1> QED BY <1>1, <1>4, JoinFrame

\* The FIFO is zeroed, or has been by another stop.
LEMMA ZeroStep ==
    ASSUME IInv, NEW t \in Threads, os_work_queue_stop_zero(t)
    PROVE  IInv'
<1> PICK q : q = Head(todo[t]).q
  OBVIOUS
<1>1. /\ Types /\ Items /\ LifeCycle /\ todo[t] # <<>> /\ Head(todo[t]).do = "zero"
      /\ UNCHANGED <<work, pc, now>>
  BY DEF IInv, os_work_queue_stop_zero, At
<1>2. /\ q \in Queues /\ queue[q].stopping /\ queue[q].worker = "reaped"
      /\ queue[q].delayed = <<>>
  BY <1>1, HeadStops DEF Stopping, Joined, Purged, StopMayBeAt
<1>3. queue[q] \in QueueType /\ LifeAt(q)
  BY <1>1, <1>2 DEF Types, LifeCycle, LifeAt
<1>4. CASE ~queue[q].initialized
  <2>1. Continue(t, <<>>, <<>>) /\ UNCHANGED queue
    BY <1>4 DEF os_work_queue_stop_zero
  <2>2. todo' \in [Threads -> Seq(Steps)] /\ \A p \in Queues : StopsKeep(t, p)
    BY <1>1, <2>1, StopEnds
  <2> QED BY <1>1, <2>1, <2>2, JoinFrame
<1>5. CASE queue[q].initialized
  <2> PICK o : o = [queue[q] EXCEPT !.initialized = FALSE, !.items = 0, !.list = <<>>,
                                    !.count = 0]
    OBVIOUS
  <2>1. queue' = [queue EXCEPT ![q] = o] /\ Continue(t, <<Todo("stopped", q, None, 0)>>, <<>>)
    BY <1>5 DEF os_work_queue_stop_zero
  <2>2. /\ o \in QueueType /\ o.list = <<>> /\ o.count = 0
        /\ o.delayed = queue[q].delayed /\ o.current = queue[q].current
        /\ o.started = queue[q].started /\ o.stopping = queue[q].stopping
        /\ o.worker = queue[q].worker
    <3>1. <<>> \in Seq(Works \cup {StopNode})
      OBVIOUS
    <3> QED BY <1>3, <3>1 DEF QueueType
  <2>3. /\ queue' \in [Queues -> QueueType] /\ queue'[q] = o
        /\ \A p \in Queues \ {q} : queue'[p] = queue[p]
    BY <1>1, <1>2, <2>1, <2>2, QueueUpdate
  <2>4. todo' \in [Threads -> Seq(Steps)] /\ \A p \in Queues : StopsKeep(t, p)
    BY <1>1, <1>2, <2>1, <2>2, <2>3, StopContinues DEF Stopping, Joined, Purged
  <2>5. Types'
    BY <1>1, <2>3, <2>4 DEF Types
  <2>6. Range(queue'[q].list) = {} /\ Range(queue[q].list) \subseteq {StopNode}
    BY <1>2, <1>3, <2>2, <2>3, SmallRanges DEF LifeAt, StoppingIsIdle
  <2>7. Items'
    <3>1. \A x \in Works : x \in Range(queue'[q].list) <=> x \in Range(queue[q].list)
      BY <2>6, NodesAssumption
    <3>2. NoDuplicates(queue'[q].list) /\ queue'[q].count = Len(queue'[q].list)
      BY <2>2, <2>3 DEF NoDuplicates
    <3>3. queue'[q].delayed = queue[q].delayed /\ queue'[q].current = queue[q].current
      BY <2>2, <2>3
    <3> QED BY <1>1, <1>2, <2>3, <3>1, <3>2, <3>3, StopNodeItems
  <2>8. LifeAt(q)'
    <3>1. WorkerAgrees(q)'
      BY <1>1, <1>3, <2>2, <2>3, <2>6 DEF LifeAt, WorkerAgrees
    <3>2. StoppingIsIdle(q)'
      BY <1>3, <2>2, <2>3, <2>6 DEF LifeAt, StoppingIsIdle
    <3>3. StopProceeds(q)'
      <4> SUFFICES ASSUME NEW u \in Threads, NEW s \in Steps, s \in Range(todo'[u]), s.q = q
                   PROVE  StopMayBeAt(q, s)'
        BY DEF StopProceeds, StopMayBeAt
      <4>1. queue'[q].stopping /\ queue'[q].worker = "reaped" /\ queue'[q].delayed = <<>>
        BY <1>2, <2>2, <2>3
      <4> QED BY <4>1 DEF StopMayBeAt
    <3>4. DownIsQuiet(q)'
      BY <1>2, <2>2, <2>3 DEF DownIsQuiet
    <3> QED BY <3>1, <3>2, <3>3, <3>4 DEF LifeAt
  <2>9. ASSUME NEW p \in Queues, p # q PROVE LifeAt(p)'
    <3>1. SameLife(p)
      BY <1>1, <2>3, <2>9 DEF SameLife, SameLists
    <3>2. LifeKeeps(p)
      BY <1>1, <3>1, SameLifeKeeps
    <3> QED BY <1>1, <2>4, <3>2, LifeFrame
  <2>10. LifeCycle'
    BY <2>8, <2>9, LifeParts
  <2> QED BY <2>5, <2>7, <2>10 DEF IInv
<1> QED BY <1>4, <1>5

\* The stop completes.
LEMMA DoneStep ==
    ASSUME IInv, NEW t \in Threads, os_work_queue_stop_done(t)
    PROVE  IInv'
<1> PICK q : q = Head(todo[t]).q
  OBVIOUS
<1>1. /\ Types /\ Items /\ LifeCycle /\ todo[t] # <<>> /\ Head(todo[t]).do = "stopped"
      /\ UNCHANGED <<work, pc, now>> /\ Continue(t, <<>>, <<>>)
  BY DEF IInv, os_work_queue_stop_done, At
<1>2. /\ q \in Queues /\ queue[q].stopping /\ queue[q].worker = "reaped"
      /\ queue[q].delayed = <<>>
  BY <1>1, HeadStops DEF Stopping, Joined, Purged, StopMayBeAt
<1>3. queue[q] \in QueueType /\ LifeAt(q)
  BY <1>1, <1>2 DEF Types, LifeCycle, LifeAt
<1>4. todo' \in [Threads -> Seq(Steps)] /\ \A p \in Queues : StopsKeep(t, p)
  BY <1>1, StopEnds
<1> PICK o : o = [queue[q] EXCEPT !.started = FALSE]
  OBVIOUS
<1>5. queue' = [queue EXCEPT ![q] = o]
  BY DEF os_work_queue_stop_done
<1>6. /\ o \in QueueType /\ o.list = queue[q].list /\ o.count = queue[q].count
      /\ o.delayed = queue[q].delayed /\ o.current = queue[q].current
      /\ o.stopping = queue[q].stopping /\ o.worker = queue[q].worker
  BY <1>3 DEF QueueType
<1>7. /\ queue' \in [Queues -> QueueType] /\ queue'[q] = o
      /\ \A p \in Queues \ {q} : queue'[p] = queue[p]
  BY <1>1, <1>2, <1>5, <1>6, QueueUpdate
<1>8. Types'
  BY <1>1, <1>4, <1>7 DEF Types
<1>9. Items'
  <2>1. \A p \in Queues : SameLists(p)
    BY <1>6, <1>7 DEF SameLists
  <2>2. \A w \in Works : SameItem(w)
    BY <1>1 DEF SameItem
  <2> QED BY <1>1, <2>1, <2>2, ItemsFrame
<1>10. LifeAt(q)'
  <2>1. WorkerAgrees(q)' /\ StoppingIsIdle(q)'
    BY <1>1, <1>3, <1>6, <1>7 DEF LifeAt, WorkerAgrees, StoppingIsIdle
  <2>2. queue'[q].stopping /\ queue'[q].worker = "reaped" /\ queue'[q].delayed = <<>>
    BY <1>2, <1>6, <1>7
  <2>3. StopProceeds(q)' /\ DownIsQuiet(q)'
    BY <2>2 DEF StopProceeds, DownIsQuiet
  <2> QED BY <2>1, <2>3 DEF LifeAt
<1>11. ASSUME NEW p \in Queues, p # q PROVE LifeAt(p)'
  <2>1. SameLife(p)
    BY <1>1, <1>7, <1>11 DEF SameLife, SameLists
  <2>2. LifeKeeps(p)
    BY <1>1, <2>1, SameLifeKeeps
  <2> QED BY <1>1, <1>4, <2>2, LifeFrame
<1>12. LifeCycle'
  BY <1>10, <1>11, LifeParts
<1> QED BY <1>8, <1>9, <1>12 DEF IInv

LEMMA StartStep ==
    ASSUME IInv, NEW t \in Threads, NEW q \in Queues, os_work_queue_start(t, q)
    PROVE  IInv'
<1>1. /\ Types /\ Items /\ LifeCycle /\ UNCHANGED <<work, todo, now>>
      /\ ~queue[q].started /\ queue' = [queue EXCEPT ![q] = NewQueue]
      /\ \A u \in Threads : ~InStop(u, q)
  BY StopsInStop DEF IInv, os_work_queue_start
<1>2. NewQueue \in QueueType
  BY DEF NewQueue, QueueType
<1>3. /\ queue' \in [Queues -> QueueType] /\ queue'[q] = NewQueue
      /\ \A p \in Queues \ {q} : queue'[p] = queue[p]
  BY <1>1, <1>2, QueueUpdate
<1>4. /\ pc' \in [Queues -> Places] /\ pc'[q] = "tick"
      /\ \A p \in Queues \ {q} : pc'[p] = pc[p]
  BY <1>1 DEF os_work_queue_start, Types, Places
<1>5. Types'
  BY <1>1, <1>3, <1>4 DEF Types
<1>6. DownIsQuiet(q) /\ StoppingIsIdle(q)
  BY <1>1 DEF LifeCycle
<1>7. /\ Range(queue[q].list) \subseteq {StopNode} /\ queue[q].delayed = <<>>
      /\ queue[q].current = None
  BY <1>1, <1>6 DEF DownIsQuiet, StoppingIsIdle
<1>8. Items'
  <2>1. Range(queue'[q].list) = {} /\ queue'[q].list = <<>> /\ queue'[q].count = 0
    BY <1>3, SmallRanges DEF NewQueue
  <2>2. \A x \in Works : x \in Range(queue'[q].list) <=> x \in Range(queue[q].list)
    BY <1>7, <2>1, NodesAssumption
  <2>3. NoDuplicates(queue'[q].list) /\ queue'[q].count = Len(queue'[q].list)
    BY <2>1 DEF NoDuplicates
  <2>4. queue'[q].delayed = queue[q].delayed /\ queue'[q].current = queue[q].current
    BY <1>3, <1>7 DEF NewQueue
  <2> QED BY <1>1, <1>3, <2>2, <2>3, <2>4, StopNodeItems
<1>9. LifeAt(q)'
  <2>1. \A u \in Threads : ~InStop(u, q)'
    BY <1>1 DEF InStop
  <2>2. StopProceeds(q)'
    BY <2>1, NobodyStops
  <2>3. StopNode \notin Range(queue'[q].list)
    BY <1>3, SmallRanges DEF NewQueue
  <2>4. WorkerAgrees(q)' /\ StoppingIsIdle(q)'
    BY <1>3, <1>4, <2>3 DEF WorkerAgrees, StoppingIsIdle, NewQueue
  <2>5. DownIsQuiet(q)'
    BY <1>3 DEF DownIsQuiet, NewQueue
  <2> QED BY <2>2, <2>4, <2>5 DEF LifeAt
<1>10. ASSUME NEW p \in Queues, p # q PROVE LifeAt(p)'
  <2>1. SameLife(p)
    BY <1>3, <1>4, <1>10 DEF SameLife, SameLists
  <2>2. LifeKeeps(p)
    BY <1>1, <2>1, SameLifeKeeps
  <2>3. StopsKeep(t, p)
    BY <1>1, <2>2, UnchangedTodo, TodoStops
  <2> QED BY <1>1, <2>2, <2>3, LifeFrame
<1>11. LifeCycle'
  BY <1>9, <1>10, LifeParts
<1> QED BY <1>5, <1>8, <1>11 DEF IInv

\* Stop links its node.
LinksStopNode(t, q) ==
    /\ queue[q].count = 0 /\ queue[q].current = None
    /\ queue' = [queue EXCEPT ![q].stopping = TRUE,
                              ![q].list = Append(@, StopNode), ![q].count = @ + 1]
    /\ Continue(t, <<Give(q)>>, <<Todo("join", q, None, 0)>>)
    /\ UNCHANGED <<work, pc, now>>

LEMMA LinkStep ==
    ASSUME IInv, NEW t \in Threads, NEW q \in Queues, LinksStopNode(t, q)
    PROVE  IInv'
<1> PICK l : l = Append(queue[q].list, StopNode)
  OBVIOUS
<1> PICK n : n = queue[q].count + 1
  OBVIOUS
<1> PICK o : o = [queue[q] EXCEPT !.stopping = TRUE, !.list = l, !.count = n]
  OBVIOUS
<1>1. /\ Types /\ Items /\ LifeCycle /\ UNCHANGED <<work, pc, now>>
      /\ queue[q].count = 0 /\ queue[q].current = None
      /\ queue' = [queue EXCEPT ![q] = o]
      /\ Continue(t, <<Give(q)>>, <<Todo("join", q, None, 0)>>)
  BY DEF IInv, LinksStopNode
<1>2. queue[q] \in QueueType /\ ListsSound(q) /\ LifeAt(q)
  BY <1>1 DEF Types, Items, LifeCycle, LifeAt
<1>3. queue[q].list \in Seq(Works \cup {StopNode}) /\ queue[q].list = <<>>
  BY <1>1, <1>2, EmptySeq DEF QueueType, ListsSound
<1> StopNode \in Works \cup {StopNode}
  OBVIOUS
<1>4. /\ l \in Seq(Works \cup {StopNode}) /\ Len(l) = n /\ n \in Nat
      /\ Range(l) = {StopNode} /\ NoDuplicates(l)
  <2>1. NoDuplicates(queue[q].list) /\ StopNode \notin Range(queue[q].list)
    BY <1>2, <1>3, SmallRanges DEF ListsSound
  <2>2. /\ l \in Seq(Works \cup {StopNode}) /\ Len(l) = Len(queue[q].list) + 1
        /\ Range(l) = Range(queue[q].list) \cup {StopNode} /\ NoDuplicates(l)
    <3>1. queue[q].list \in Seq(Works \cup {StopNode})
      BY <1>3
    <3> QED BY <2>1, <3>1, AppendNode
  <2>3. Len(l) = n /\ n \in Nat
    BY <1>1, <1>2, <2>2 DEF ListsSound
  <2>4. Range(l) = {StopNode}
    BY <1>3, <2>2, SmallRanges
  <2> QED BY <2>2, <2>3, <2>4
<1>5. /\ o \in QueueType /\ o.list = l /\ o.count = n
      /\ o.delayed = queue[q].delayed /\ o.current = queue[q].current
      /\ o.started = queue[q].started /\ o.stopping = TRUE /\ o.worker = queue[q].worker
  BY <1>2, <1>4 DEF QueueType
<1>6. /\ queue' \in [Queues -> QueueType] /\ queue'[q] = o
      /\ \A p \in Queues \ {q} : queue'[p] = queue[p]
  BY <1>1, <1>5, QueueUpdate
<1> PICK g : g = Give(q)
  OBVIOUS
<1> PICK j : j = Todo("join", q, None, 0)
  OBVIOUS
<1>7. /\ g \in Steps /\ g.do \notin Stopping
      /\ j \in Steps /\ j.do = "join" /\ j.q = q
  BY QuietSteps, StopSteps DEF Quiet, Stopping
<1>8. /\ todo' \in [Threads -> Seq(Steps)] /\ \A u \in Threads \ {t} : todo'[u] = todo[u]
      /\ Range(todo'[t]) = {g, j}
  <2>1. <<g>> \in Seq(Steps) /\ <<j>> \in Seq(Steps) /\ Continue(t, <<g>>, <<j>>)
    BY <1>1, <1>7
  <2>2. /\ todo' \in [Threads -> Seq(Steps)] /\ \A u \in Threads \ {t} : todo'[u] = todo[u]
        /\ Range(todo'[t]) = Range(<<g>>) \cup Range(<<j>>)
    BY <1>1, <2>1, ContinueStep
  <2>3. Range(<<g>>) = {g} /\ Range(<<j>>) = {j}
    BY SmallRanges
  <2> QED BY <2>2, <2>3
<1>9. Types'
  BY <1>1, <1>6, <1>8 DEF Types
<1>10. Items'
  <2>1. \A x \in Works : x \in Range(queue'[q].list) <=> x \in Range(queue[q].list)
    <3>1. Range(queue'[q].list) = {StopNode}
      BY <1>4, <1>5, <1>6
    <3>2. Range(queue[q].list) = {}
      BY <1>3, SmallRanges
    <3> QED BY <3>1, <3>2, NodesAssumption
  <2>2. /\ NoDuplicates(queue'[q].list) /\ queue'[q].count = Len(queue'[q].list)
        /\ queue'[q].delayed = queue[q].delayed /\ queue'[q].current = queue[q].current
    BY <1>4, <1>5, <1>6
  <2> QED BY <1>1, <1>6, <2>1, <2>2, StopNodeItems
<1>11. LifeAt(q)'
  <2>1. WorkerAgrees(q) /\ StopProceeds(q) /\ DownIsQuiet(q)
    BY <1>2 DEF LifeAt
  <2>2. WorkerAgrees(q)'
    BY <1>1, <1>5, <1>6, <2>1 DEF WorkerAgrees
  <2>3. StoppingIsIdle(q)'
    BY <1>1, <1>4, <1>5, <1>6 DEF StoppingIsIdle
  <2>4. /\ queue'[q].worker = queue[q].worker /\ queue'[q].delayed = queue[q].delayed
        /\ queue'[q].stopping
    BY <1>5, <1>6
  <2>5. StopProceeds(q)'
    <3> SUFFICES ASSUME NEW u \in Threads, NEW s \in Steps, s \in Range(todo'[u]), s.q = q
                 PROVE  StopMayBeAt(q, s)'
      BY DEF StopProceeds, StopMayBeAt
    <3>1. CASE u = t
      BY <1>7, <1>8, <2>4, <3>1 DEF Stopping, Joined, Purged, StopMayBeAt
    <3>2. CASE u # t
      <4>1. s \in Range(todo[u])
        BY <1>8, <3>2
      <4> QED BY <2>1, <2>4, <4>1 DEF StopProceeds, StopMayBeAt
    <3> QED BY <3>1, <3>2
  <2>6. DownIsQuiet(q)'
    BY <1>1, <1>5, <1>6, <2>1 DEF DownIsQuiet
  <2> QED BY <2>2, <2>3, <2>5, <2>6 DEF LifeAt
<1>12. ASSUME NEW p \in Queues, p # q PROVE LifeAt(p)'
  <2>1. SameLife(p)
    BY <1>1, <1>6, <1>12 DEF SameLife, SameLists
  <2>2. LifeKeeps(p)
    BY <1>1, <2>1, SameLifeKeeps
  <2>3. StopsKeep(t, p)
    BY <1>7, <1>8, <1>12 DEF StopsKeep, StopMayBeAt, Stopping, Joined, Purged
  <2> QED BY <1>1, <2>2, <2>3, LifeFrame
<1>13. LifeCycle'
  BY <1>11, <1>12, LifeParts
<1> QED BY <1>9, <1>10, <1>13 DEF IInv

\* The critical section of stop.
LEMMA StopStep ==
    ASSUME IInv, NEW t \in Threads, os_work_queue_stop_link(t)
    PROVE  IInv'
<1> PICK q : q = Head(todo[t]).q
  OBVIOUS
<1>1. Types /\ todo[t] # <<>> /\ Head(todo[t]).do = "stop" /\ UNCHANGED <<work, pc, now>>
  BY DEF IInv, os_work_queue_stop_link, At
<1>2. q \in Queues
  BY <1>1, HeadStep, StepFields DEF OnQueue
<1>3. CASE LinksStopNode(t, q)
  BY <1>2, <1>3, LinkStep
<1>4. CASE Continue(t, <<>>, <<>>) /\ UNCHANGED queue
  <2>1. todo' \in [Threads -> Seq(Steps)] /\ \A p \in Queues : StopsKeep(t, p)
    BY <1>1, <1>4, StopEnds
  <2> QED BY <1>1, <1>4, <2>1, JoinFrame
<1> QED BY <1>1, <1>3, <1>4 DEF os_work_queue_stop_link, LinksStopNode

\* Stop is called.
LEMMA StopCallStep ==
    ASSUME IInv, NEW t \in Threads, NEW q \in Queues, os_work_queue_stop(t, q)
    PROVE  IInv'
<1>1. /\ Types /\ UNCHANGED <<queue, work, pc, now>>
      /\ Continue(t, <<Todo("stop", q, None, 0)>>, <<>>)
  BY DEF IInv, os_work_queue_stop
<1>2. TodoKeeps(t)
  <2>1. <<Todo("stop", q, None, 0)>> \in Seq(Quiet) /\ <<>> \in Seq(Quiet)
    BY QuietSteps
  <2> QED BY <1>1, <2>1, FirstStep
<1>3. PcKeeps
  BY <1>1, UnchangedPc
<1> QED BY <1>1, <1>2, <1>3, PlainUpdate

\* The worker takes the stop node and returns from its entry function.
LEMMA PopStopStep ==
    ASSUME IInv, NEW q \in Queues, os_work_queue_pop_stop(q)
    PROVE  IInv'
<1> PICK l : l = Tail(queue[q].list)
  OBVIOUS
<1> PICK n : n = queue[q].count - 1
  OBVIOUS
<1> PICK o : o = [queue[q] EXCEPT !.list = l, !.count = n, !.worker = "exited"]
  OBVIOUS
<1>1. /\ Types /\ Items /\ LifeCycle /\ q \in Threads /\ UNCHANGED <<work, todo, now>>
      /\ queue[q].list # <<>> /\ Head(queue[q].list) = StopNode /\ pc[q] = "pop"
  BY DEF IInv, Threads, os_work_queue_pop_stop, Worker
<1>2. queue' = [queue EXCEPT ![q] = o]
  BY DEF os_work_queue_pop_stop, Popped
<1>3. /\ queue[q] \in QueueType /\ ListsSound(q) /\ WorkerAgrees(q) /\ StoppingIsIdle(q)
      /\ StopProceeds(q) /\ DownIsQuiet(q)
  BY <1>1 DEF Types, Items, LifeCycle
<1>4. /\ l \in Seq(Works \cup {StopNode}) /\ Len(l) = Len(queue[q].list) - 1
      /\ Len(queue[q].list) \in Nat \ {0} /\ NoDuplicates(l)
      /\ Range(queue[q].list) = {StopNode} \cup Range(l) /\ StopNode \notin Range(l)
  <2>1. queue[q].list \in Seq(Works \cup {StopNode}) /\ NoDuplicates(queue[q].list)
    BY <1>3 DEF QueueType, ListsSound
  <2> QED BY <1>1, <2>1, GetNode
<1>5. n \in Nat /\ n = Len(l)
  BY <1>3, <1>4 DEF ListsSound
<1>6. /\ o \in QueueType /\ o.list = l /\ o.count = n /\ o.worker = "exited"
      /\ o.delayed = queue[q].delayed /\ o.current = queue[q].current
      /\ o.started = queue[q].started /\ o.stopping = queue[q].stopping
  BY <1>3, <1>4, <1>5 DEF QueueType
<1>7. /\ queue' \in [Queues -> QueueType] /\ queue'[q] = o
      /\ \A p \in Queues \ {q} : queue'[p] = queue[p]
  BY <1>1, <1>2, <1>6, QueueUpdate
<1>8. /\ pc' \in [Queues -> Places] /\ pc'[q] = "none"
      /\ \A p \in Queues \ {q} : pc'[p] = pc[p]
  BY <1>1 DEF os_work_queue_pop_stop, Types, Places
<1>9. Types'
  BY <1>1, <1>7, <1>8 DEF Types
<1>10. Items'
  <2>1. \A x \in Works : x \in Range(queue'[q].list) <=> x \in Range(queue[q].list)
    BY <1>4, <1>6, <1>7, NodesAssumption
  <2>2. /\ NoDuplicates(queue'[q].list) /\ queue'[q].count = Len(queue'[q].list)
        /\ queue'[q].delayed = queue[q].delayed /\ queue'[q].current = queue[q].current
    BY <1>4, <1>5, <1>6, <1>7
  <2> QED BY <1>1, <1>7, <2>1, <2>2, StopNodeItems
<1>11. LifeAt(q)'
  <2>1. queue[q].worker = "alive" /\ queue[q].current = None
    BY <1>1, <1>3 DEF WorkerAgrees
  <2>2. StopNode \in Range(queue[q].list) /\ StopNode \notin Range(queue'[q].list)
    BY <1>4, <1>6, <1>7
  <2>3. WorkerAgrees(q)'
    BY <1>3, <1>6, <1>7, <1>8, <2>1, <2>2 DEF WorkerAgrees
  <2>6. StoppingIsIdle(q)'
    BY <1>3, <1>4, <1>6, <1>7 DEF StoppingIsIdle
  <2>7. StopProceeds(q)'
    BY <1>1, <1>3, <1>6, <1>7, <2>1 DEF StopProceeds
  <2>8. DownIsQuiet(q)'
    BY <1>3, <1>6, <1>7, <2>1 DEF DownIsQuiet
  <2> QED BY <2>3, <2>6, <2>7, <2>8 DEF LifeAt
<1>12. ASSUME NEW p \in Queues, p # q PROVE LifeAt(p)'
  <2>1. SameLife(p)
    BY <1>7, <1>8, <1>12 DEF SameLife, SameLists
  <2>2. LifeKeeps(p)
    BY <1>1, <2>1, SameLifeKeeps
  <2>3. StopsKeep(q, p)
    BY <1>1, <2>2, UnchangedTodo, TodoStops
  <2> QED BY <1>1, <2>2, <2>3, LifeFrame
<1>13. LifeCycle'
  BY <1>11, <1>12, LifeParts
<1> QED BY <1>9, <1>10, <1>13 DEF IInv
-----------------------------------------------------------------------------
(* The theorems                                                            *)

LEMMA InitInv == Init => IInv
<1> SUFFICES ASSUME Init PROVE IInv
  OBVIOUS
<1>1. NewQueue \in QueueType
  BY DEF NewQueue, QueueType
<1>2. /\ queue \in [Queues -> QueueType] /\ pc \in [Queues -> Places]
      /\ todo \in [Threads -> Seq(Steps)] /\ now \in Int
  BY <1>1 DEF Init, Places
<1>3. work \in [Works -> WorkType]
  BY DEF Init, WorkType, AllFlags
<1>4. Types
  BY <1>2, <1>3 DEF Types
<1>5. ASSUME NEW q \in Queues
      PROVE  /\ queue[q] = NewQueue /\ Range(queue[q].list) = {} /\ Range(queue[q].delayed) = {}
             /\ pc[q] = "tick"
  BY SmallRanges DEF Init, NewQueue
<1>6. \A t \in Threads : Range(todo[t]) = {}
  BY SmallRanges DEF Init
<1>7. Items
  <2>1. ASSUME NEW w \in Works
        PROVE  /\ work[w].flags = {} /\ work[w].submission_id = 0
               /\ work[w].running_id = 0 /\ work[w].completion_id = 0
    BY DEF Init
  <2>2. ASSUME NEW q \in Queues, NEW w \in Works PROVE Matches(q, w)
    <3>1. queue[q].current # w
      BY <1>5, NodesAssumption DEF NewQueue
    <3> QED BY <1>5, <2>1, <3>1 DEF Matches, Flags
  <2>3. ASSUME NEW q \in Queues PROVE ListsSound(q)
    BY <1>5 DEF ListsSound, NewQueue, NoDuplicates
  <2>4. ASSUME NEW w \in Works PROVE ItemSound(w)
    BY <2>1 DEF ItemSound, Flags
  <2> QED BY <2>2, <2>3, <2>4 DEF Items
<1>8. LifeCycle
  <2> SUFFICES ASSUME NEW q \in Queues
               PROVE  /\ WorkerAgrees(q) /\ StoppingIsIdle(q) /\ StopProceeds(q)
                      /\ DownIsQuiet(q)
    BY DEF LifeCycle
  <2>2. WorkerAgrees(q) /\ DownIsQuiet(q)
    BY <1>5 DEF WorkerAgrees, DownIsQuiet, NewQueue
  <2>3. StoppingIsIdle(q) /\ StopProceeds(q)
    BY <1>5, <1>6 DEF StoppingIsIdle, StopProceeds, NewQueue
  <2> QED BY <2>2, <2>3
<1> QED BY <1>4, <1>7, <1>8 DEF IInv

LEMMA CallInv ==
    ASSUME IInv, NEW t \in Threads, Call(t)
    PROVE  IInv'
<1>1. ASSUME NEW w \in Works, NEW q \in Queues, os_work_submit_to_queue(t, q, w) PROVE IInv'
  BY <1>1, CallSteps
<1>2. ASSUME NEW w \in Works, os_work_cancel(t, w) \/ os_work_cancel_sync(t, w) PROVE IInv'
  BY <1>2, CallSteps
<1>3. ASSUME NEW w \in Works, os_work_flush(t, w) PROVE IInv'
  BY <1>3, WaitSteps
<1>4. ASSUME NEW w \in Works, os_work_flush_delayable(t, w) PROVE IInv'
  BY <1>4, FlushDelayableStep
<1>5. ASSUME NEW w \in Works, NEW sync \in BOOLEAN, os_work_cancel_delayable(t, w, sync)
      PROVE  IInv'
  BY <1>5, CancelDelayableStep
<1>6. ASSUME NEW w \in Works, NEW q \in Queues, NEW d \in Delays, NEW re \in BOOLEAN,
             os_work_schedule_common(t, q, w, d, re)
      PROVE  IInv'
  <2>1. CASE d = 0
    BY <1>6, <2>1, ScheduleNowStep
  <2>2. CASE d # 0
    BY <1>6, <2>2, ScheduleLaterStep
  <2> QED BY <2>1, <2>2
<1>7. ASSUME NEW q \in Queues, os_work_queue_start(t, q) PROVE IInv'
  BY <1>7, StartStep
<1>8. ASSUME NEW q \in Queues, os_work_queue_stop(t, q) PROVE IInv'
  BY <1>8, StopCallStep
<1>9. ASSUME NEW q \in Queues, os_work_queue_unplug(t, q) PROVE IInv'
  BY <1>9, DrainSteps
<1>10. ASSUME NEW q \in Queues, NEW plug \in BOOLEAN, os_work_queue_drain(t, q, plug)
       PROVE  IInv'
  BY <1>10, DrainSteps
<1> QED BY <1>1, <1>2, <1>3, <1>4, <1>5, <1>6, <1>7, <1>8, <1>9, <1>10 DEF Call

LEMMA ProceedInv ==
    ASSUME IInv, NEW t \in Threads, Proceed(t)
    PROVE  IInv'
<1>1. CASE os_sem_give_items(t) \/ os_sem_trytake_items(t)
  BY <1>1, TokenSteps
<1>2. CASE os_work_notify(t) \/ os_sem_take_sync(t)
  BY <1>2, SignalSteps
<1>3. CASE os_work_submit_nested(t) \/ os_work_cancel_nested(t)
  BY <1>3, CallSteps
<1>4. CASE os_work_flush_nested(t) \/ os_work_check_idle(t) \/ os_work_check_done(t)
  BY <1>4, WaitSteps
<1>5. CASE os_work_queue_poll(t)
  BY <1>5, DrainSteps
<1>6. CASE os_thread_join(t) \/ os_thread_join_reap(t) \/ os_thread_join_timeout(t)
  BY <1>6, JoinSteps
<1>7. CASE os_work_queue_stop_purge(t)
  BY <1>7, PurgeStep
<1>8. CASE os_work_queue_stop_deinit(t)
  BY <1>8, DeinitStep
<1>9. CASE os_work_queue_stop_zero(t) \/ os_work_queue_stop_done(t)
  BY <1>9, ZeroStep, DoneStep
<1>10. CASE os_work_queue_stop_link(t)
  BY <1>10, StopStep
<1> QED BY <1>1, <1>2, <1>3, <1>4, <1>5, <1>6, <1>7, <1>8, <1>9, <1>10 DEF Proceed

LEMMA WorkerInv ==
    ASSUME IInv, NEW q \in Queues, os_work_queue_entry(q)
    PROVE  IInv'
<1>1. CASE \/ os_work_promote_tick(q) \/ os_work_promote_none(q)
           \/ os_work_queue_timeout(q) \/ os_work_queue_pop_nothing(q)
  BY <1>1, PlainWorkerSteps
<1>2. CASE os_work_promote_due(q)
  BY <1>2, PromoteStep
<1>3. CASE os_work_queue_take(q)
  BY <1>3, TakeStep
<1>4. CASE os_work_queue_pop_stop(q)
  BY <1>4, PopStopStep
<1>5. CASE os_work_queue_pop_work(q)
  BY <1>5, PopWorkStep
<1>6. CASE os_work_queue_finish(q)
  BY <1>6, FinishStep
<1> QED BY <1>1, <1>2, <1>3, <1>4, <1>5, <1>6 DEF os_work_queue_entry

LEMMA NextInv == IInv /\ [Next]_vars => IInv'
<1> SUFFICES ASSUME IInv, [Next]_vars PROVE IInv'
  OBVIOUS
<1>1. ASSUME NEW t \in Threads, Call(t) \/ Proceed(t) PROVE IInv'
  BY <1>1, CallInv, ProceedInv
<1>2. ASSUME NEW q \in Queues, os_work_queue_entry(q) PROVE IInv'
  BY <1>2, WorkerInv
<1>3. CASE Tick
  BY <1>3, TickStep
<1>4. CASE UNCHANGED vars
  <2>1. Types /\ Items /\ LifeCycle /\ UNCHANGED <<queue, work, pc, todo, now>>
    BY <1>4 DEF IInv, vars
  <2>2. Types'
    BY <2>1 DEF Types
  <2>3. Items'
    BY <2>1, ItemsFrame DEF SameLists, SameItem
  <2>4. LifeCycle'
    BY <2>1 DEF LifeCycle, WorkerAgrees, StoppingIsIdle, StopProceeds, DownIsQuiet
  <2> QED BY <2>2, <2>3, <2>4 DEF IInv
<1> QED BY <1>1, <1>2, <1>3, <1>4 DEF Next

LEMMA Invariance == Spec => []IInv
BY InitInv, NextInv, PTL DEF Spec

(***************************************************************************)
(* The flags of the items and the lists of the queues agree in every       *)
(* state: an intrusive node is never linked twice and no handler runs on   *)
(* two workers at once, whatever calls are made from threads and handlers. *)
(***************************************************************************)
THEOREM FlagsAndListsAgree == Spec => []FlagsMatchLists
<1>1. IInv => FlagsMatchLists
  BY ItemsMatch DEF IInv
<1> QED BY Invariance, <1>1, PTL

(***************************************************************************)
(* os_work_queue_stop clears `started' only when no item is queued, delayed *)
(* or running on the queue and its worker has been joined, and no item gets *)
(* in afterwards, although stops overtake one another between the test of   *)
(* `started', the link of the stop node, the zeroing and the end.           *)
(***************************************************************************)
THEOREM StoppedIsEmpty == Spec => []StoppedQueueIsEmpty
<1>1. ASSUME IInv, NEW q \in Queues, ~queue[q].started
      PROVE  /\ OnlyStopNodes(queue[q].list) /\ queue[q].delayed = <<>>
             /\ queue[q].current = None /\ queue[q].worker = "reaped"
  <2>1. StoppingIsIdle(q) /\ DownIsQuiet(q)
    BY <1>1 DEF IInv, LifeCycle
  <2>2. Range(queue[q].list) \subseteq {StopNode} /\ queue[q].current = None
    BY <1>1, <2>1 DEF StoppingIsIdle, DownIsQuiet
  <2>3. OnlyStopNodes(queue[q].list)
    BY <2>2 DEF OnlyStopNodes, Range
  <2> QED BY <1>1, <2>1, <2>2, <2>3 DEF DownIsQuiet
<1>2. IInv => StoppedQueueIsEmpty
  BY <1>1 DEF StoppedQueueIsEmpty
<1> QED BY Invariance, <1>2, PTL

\* RUNNING is set by the worker that takes the item off the list, and nowhere else.
LEMMA RunsOnlyWhenPopped ==
    ASSUME IInv, Next, NEW w \in Works, "RUNNING" \notin Flags(w),
           "RUNNING" \in work'[w].flags
    PROVE  \E q \in Queues : os_work_queue_pop_work(q)
<1> SUFFICES ASSUME \A q \in Queues : ~os_work_queue_pop_work(q) PROVE FALSE
  OBVIOUS
<1>1. Types /\ work \in [Works -> WorkType] /\ work[w] \in WorkType
  BY DEF IInv, Types
<1>2. ASSUME UNCHANGED work PROVE FALSE
  BY <1>2 DEF Flags
<1>3. ASSUME NEW x, NEW v, work' = [work EXCEPT ![x] = v], w = x => "RUNNING" \notin v.flags
      PROVE  FALSE
  BY <1>1, <1>3 DEF Flags
<1>4. ASSUME NEW t, NEW q, NEW x, NEW rest, Enqueue(t, q, x, rest) PROVE FALSE
  <2> PICK v : v = [work[x] EXCEPT !.submission_id = work[x].submission_id + 1, !.queue = q,
                                   !.flags = work[x].flags \cup {"QUEUED"}]
    OBVIOUS
  <2>1. UNCHANGED work \/ work' = [work EXCEPT ![x] = v]
    BY <1>4 DEF Enqueue
  <2>2. w = x => "RUNNING" \notin v.flags
    BY <1>1 DEF WorkType, Flags
  <2> QED BY <1>2, <1>3, <2>1, <2>2
<1>5. ASSUME NEW t, NEW x, NEW rest, Cancel(t, x, rest) PROVE FALSE
  <2> PICK f : f = IF "RUNNING" \in Flags(x) THEN (work[x].flags \ {"QUEUED"}) \cup {"CANCELING"}
                                             ELSE work[x].flags \ {"QUEUED", "CANCELING"}
    OBVIOUS
  <2> PICK n : n = IF "RUNNING" \in Flags(x) THEN work[x].completion_id
                                             ELSE work[x].submission_id
    OBVIOUS
  <2> PICK v : v = [work[x] EXCEPT !.flags = f, !.completion_id = n]
    OBVIOUS
  <2>1. work' = [work EXCEPT ![x] = v]
    BY <1>5 DEF Cancel
  <2>2. w = x => "RUNNING" \notin f
    BY DEF Flags
  <2>3. w = x => v.flags = f
    BY <1>1 DEF WorkType
  <2> QED BY <1>3, <2>1, <2>2, <2>3
<1>6. ASSUME NEW x, work' = [work EXCEPT ![x].flags = @ \ {"DELAYED"}, ![x].ttl = 0]
      PROVE  FALSE
  <2> PICK v : v = [work[x] EXCEPT !.flags = work[x].flags \ {"DELAYED"}, !.ttl = 0]
    OBVIOUS
  <2>1. work' = [work EXCEPT ![x] = v]
    BY <1>6
  <2>2. w = x => "RUNNING" \notin v.flags
    BY <1>1 DEF WorkType, Flags
  <2> QED BY <1>3, <2>1, <2>2
<1>7. ASSUME NEW t \in Threads, Call(t) PROVE FALSE
  <2>1. ASSUME NEW x \in Works, NEW q \in Queues, os_work_submit_to_queue(t, q, x) PROVE FALSE
    BY <1>4, <2>1 DEF os_work_submit_to_queue
  <2>2. ASSUME NEW x \in Works, os_work_cancel(t, x) \/ os_work_cancel_sync(t, x) PROVE FALSE
    BY <1>5, <2>2 DEF os_work_cancel, os_work_cancel_sync
  <2>3. ASSUME NEW x \in Works, os_work_flush(t, x) PROVE FALSE
    BY <1>2, <2>3 DEF os_work_flush
  <2>4. ASSUME NEW x \in Works, os_work_flush_delayable(t, x) PROVE FALSE
    BY <1>6, <2>4 DEF os_work_flush_delayable
  <2>5. ASSUME NEW x \in Works, NEW sync \in BOOLEAN, os_work_cancel_delayable(t, x, sync)
        PROVE  FALSE
    BY <1>6, <2>5 DEF os_work_cancel_delayable
  <2>6. ASSUME NEW x \in Works, NEW q \in Queues, NEW d \in Delays, NEW re \in BOOLEAN,
               os_work_schedule_common(t, q, x, d, re)
        PROVE  FALSE
    <3>1. CASE d = 0
      BY <1>6, <2>6, <3>1 DEF os_work_schedule_common
    <3>2. CASE d # 0
      <4> PICK dl : dl = (now + d) % TickMod
        OBVIOUS
      <4> PICK v : v = [work[x] EXCEPT !.flags = work[x].flags \cup {"DELAYED"},
                                       !.dqueue = q, !.deadline = dl, !.ttl = d]
        OBVIOUS
      <4>1. work' = [work EXCEPT ![x] = v]
        BY <2>6, <3>2 DEF os_work_schedule_common
      <4>2. w = x => "RUNNING" \notin v.flags
        BY <1>1 DEF WorkType, Flags
      <4> QED BY <1>3, <4>1, <4>2
    <3> QED BY <3>1, <3>2
  <2>7. ASSUME NEW q \in Queues, NEW plug \in BOOLEAN,
               \/ os_work_queue_start(t, q) \/ os_work_queue_stop(t, q)
               \/ os_work_queue_unplug(t, q) \/ os_work_queue_drain(t, q, plug)
        PROVE  FALSE
    BY <1>2, <2>7 DEF os_work_queue_start, os_work_queue_stop, os_work_queue_unplug,
                      os_work_queue_drain
  <2> QED BY <1>7, <2>1, <2>2, <2>3, <2>4, <2>5, <2>6, <2>7 DEF Call
<1>8. ASSUME NEW t \in Threads, Proceed(t) PROVE FALSE
  <2>1. CASE os_work_notify(t) \/ os_sem_take_sync(t)
    <3> PICK x : x = Head(todo[t]).w
      OBVIOUS
    <3>1. PICK n \in {0, 1} : work' = [work EXCEPT ![x].sync = n]
      BY <2>1 DEF os_work_notify, os_sem_take_sync
    <3> PICK v : v = [work[x] EXCEPT !.sync = n]
      OBVIOUS
    <3>2. work' = [work EXCEPT ![x] = v]
      BY <3>1
    <3>3. w = x => "RUNNING" \notin v.flags
      BY <1>1 DEF WorkType, Flags
    <3> QED BY <1>3, <3>2, <3>3
  <2>2. CASE os_work_submit_nested(t)
    BY <1>4, <2>2 DEF os_work_submit_nested
  <2>3. CASE os_work_cancel_nested(t)
    BY <1>5, <2>3 DEF os_work_cancel_nested
  <2>4. CASE os_work_queue_stop_purge(t)
    <3>1. UNCHANGED work \/ \E x : work' = [work EXCEPT ![x].flags = @ \ {"DELAYED"}, ![x].ttl = 0]
      BY <2>4 DEF os_work_queue_stop_purge
    <3> QED BY <1>2, <1>6, <3>1
  <2>5. CASE \/ os_sem_give_items(t) \/ os_sem_trytake_items(t)
             \/ os_work_flush_nested(t) \/ os_work_check_idle(t) \/ os_work_check_done(t)
             \/ os_work_queue_poll(t) \/ os_thread_join(t) \/ os_thread_join_reap(t)
             \/ os_thread_join_timeout(t) \/ os_work_queue_stop_link(t)
             \/ os_work_queue_stop_deinit(t) \/ os_work_queue_stop_zero(t)
             \/ os_work_queue_stop_done(t)
    <3>1. UNCHANGED work
      BY <2>5 DEF os_sem_give_items, os_sem_trytake_items, os_work_flush_nested,
            os_work_check_idle, os_work_check_done, os_work_queue_poll, os_thread_join,
            os_thread_join_reap, os_thread_join_timeout, os_work_queue_stop_link,
            os_work_queue_stop_deinit, os_work_queue_stop_zero, os_work_queue_stop_done
    <3> QED BY <1>2, <3>1
  <2> QED BY <1>8, <2>1, <2>2, <2>3, <2>4, <2>5 DEF Proceed
<1>9. ASSUME NEW q \in Queues, os_work_queue_entry(q) PROVE FALSE
  <2>1. CASE os_work_promote_due(q)
    BY <1>6, <2>1 DEF os_work_promote_due
  <2>2. CASE os_work_queue_finish(q)
    <3> PICK x : x = queue[q].current
      OBVIOUS
    <3> PICK v : v = [work[x] EXCEPT !.completion_id = work[x].running_id,
                                     !.flags = work[x].flags \ {"RUNNING", "CANCELING"}]
      OBVIOUS
    <3>1. work' = [work EXCEPT ![x] = v]
      BY <2>2 DEF os_work_queue_finish, FinishedFlags, Flags
    <3>2. w = x => "RUNNING" \notin v.flags
      BY <1>1 DEF WorkType
    <3> QED BY <1>3, <3>1, <3>2
  <2>3. CASE os_work_queue_pop_work(q)
    BY <2>3
  <2>4. CASE \/ os_work_promote_tick(q) \/ os_work_promote_none(q) \/ os_work_queue_take(q)
             \/ os_work_queue_timeout(q) \/ os_work_queue_pop_nothing(q)
             \/ os_work_queue_pop_stop(q)
    <3>1. UNCHANGED work
      BY <2>4 DEF os_work_promote_tick, os_work_promote_none, os_work_queue_take,
            os_work_queue_timeout, os_work_queue_pop_nothing, os_work_queue_pop_stop
    <3> QED BY <1>2, <3>1
  <2> QED BY <1>9, <2>1, <2>2, <2>3, <2>4 DEF os_work_queue_entry
<1>10. CASE Tick
  <2>1. work'[w] = work[w] \/ work'[w] = [work[w] EXCEPT !.ttl = work[w].ttl - 1]
    BY <1>10 DEF Tick
  <2>2. work'[w].flags = work[w].flags
    BY <1>1, <2>1 DEF WorkType
  <2> QED BY <2>2 DEF Flags
<1> QED BY <1>7, <1>8, <1>9, <1>10 DEF Next

(***************************************************************************)
(* A worker that invokes a handler does so for a submission that has not   *)
(* been run, completed or cancelled before.                                *)
(***************************************************************************)
THEOREM RunsOncePerSubmission == Spec => OneRunPerSubmission
<1> DEFINE Fresh == \A w \in Works :
        "RUNNING" \notin Flags(w) /\ "RUNNING" \in work'[w].flags =>
            /\ work'[w].running_id > work[w].running_id
            /\ work'[w].running_id > work[w].completion_id
<1>1. ASSUME IInv, Next PROVE Fresh
  <2> SUFFICES ASSUME NEW w \in Works, "RUNNING" \notin Flags(w), "RUNNING" \in work'[w].flags
               PROVE  /\ work'[w].running_id > work[w].running_id
                      /\ work'[w].running_id > work[w].completion_id
    OBVIOUS
  <2>1. Types /\ Items /\ work \in [Works -> WorkType] /\ ItemSound(w) /\ work[w] \in WorkType
    BY <1>1 DEF IInv, Types, Items
  <2>2. PICK q \in Queues : os_work_queue_pop_work(q)
    BY <1>1, RunsOnlyWhenPopped
  <2>3. CASE w # Head(queue[q].list)
    BY <2>1, <2>2, <2>3 DEF os_work_queue_pop_work, Flags
  <2>4. CASE w = Head(queue[q].list)
    <3>1. work'[w].running_id = work[w].submission_id
      BY <2>1, <2>2, <2>4 DEF os_work_queue_pop_work, WorkType
    <3>2. w \in Range(queue[q].list)
      <4>1. queue[q].list \in Seq(Works \cup {StopNode}) /\ queue[q].list # <<>>
        BY <2>1, <2>2 DEF Types, QueueType, os_work_queue_pop_work
      <4> QED BY <2>4, <4>1, GetNode
    <3>3. "QUEUED" \in Flags(w)
      BY <2>1, <3>2 DEF Items, Matches
    <3> QED BY <2>1, <3>1, <3>3 DEF ItemSound, WorkType
  <2> QED BY <2>3, <2>4
<1>2. ASSUME UNCHANGED vars PROVE Fresh
  BY <1>2 DEF vars, Flags
<1>3. IInv /\ [Next]_vars => [Fresh]_vars
  BY <1>1
<1> QED BY Invariance, <1>3, PTL DEF Spec, OneRunPerSubmission
-----------------------------------------------------------------------------
\* The item that is promoted next.
LEMMA DueIsWork ==
    ASSUME Types, NEW q \in Queues, Due(q) # {}
    PROVE  /\ First(Due(q)) \in Due(q) /\ queue[q].delayed[First(Due(q))] \in Works
           /\ queue[q].delayed[First(Due(q))] \in Range(queue[q].delayed)
<1>1. queue[q].delayed \in Seq(Works)
  BY DEF Types, QueueType
<1>2. /\ DOMAIN queue[q].delayed \subseteq Nat
      /\ \A i \in DOMAIN queue[q].delayed : queue[q].delayed[i] \in Works
  BY <1>1
<1>3. Due(q) \subseteq DOMAIN queue[q].delayed
  BY DEF Due
<1>4. First(Due(q)) \in Due(q)
  BY <1>2, <1>3, FirstIsMember
<1> QED BY <1>2, <1>3, <1>4 DEF Range

-----------------------------------------------------------------------------
(* What a step does to the FIFO of a queue and to the wake-ups of its worker *)

\* o is as good a FIFO as r.
SameFifo(o, r) == /\ o.list = r.list /\ o.count = r.count /\ o.items = r.items
                  /\ o.initialized = r.initialized

\* The calls that take a submission back.
Cancels == {"cancel", "cancel_sync", "cancel_delayable", "cancel_delayable_sync"}
Revokes == \E t \in Threads : \/ At(t, "cancel") \/ At(t, "trytake")
                              \/ \E op \in Cancels : MayCall(t, op)

Kept(p) == /\ SameFifo(queue'[p], queue[p]) /\ Givers(p) \subseteq Givers(p)'
           /\ pc[p] = "pop" /\ queue[p].list # <<>> => pc'[p] = "pop"

\* Apart from its number of tokens the FIFO is the same.
TokensMove(p, n) == SameFifo(queue'[p], [queue[p] EXCEPT !.items = n])

Given(p) == /\ TokensMove(p, GivenItems(p)) /\ pc'[p] = pc[p]
            /\ \E t \in Threads : Givers(p) \ {t} \subseteq Givers(p)'

Taken(p) == /\ queue[p].items > 0 /\ TokensMove(p, queue[p].items - 1)
            /\ (pc[p] # "pop" /\ pc'[p] = "pop") \/ Revokes
            /\ Givers(p) \subseteq Givers(p)'

\* Apart from its list the FIFO is the same; k nodes have been added.
NodesMove(p, k) == /\ queue'[p].list \in Seq(Works \cup {StopNode})
                   /\ Len(queue'[p].list) = Len(queue[p].list) + k
                   /\ queue'[p].count = queue[p].count + k
                   /\ queue'[p].items = queue[p].items
                   /\ queue'[p].initialized = queue[p].initialized

Linked(p) == /\ NodesMove(p, 1) /\ queue[p].count < Limit
             /\ pc'[p] = pc[p]
             /\ \E t \in Threads \ Givers(p) : Givers(p) \cup {t} \subseteq Givers(p)'

Unlinked(p) == /\ NodesMove(p, -1) /\ Givers(p) \subseteq Givers(p)'
               /\ pc[p] = "pop" \/ Revokes

Renewed(p) == /\ queue'[p].list = <<>> /\ queue'[p].count = 0 /\ queue'[p].items = 0
              /\ pc'[p] = "none" \/ queue'[p].initialized
              /\ pc'[p] # "take"

FifoEffect(p) == \/ Kept(p) \/ Given(p) \/ Taken(p) \/ Linked(p) \/ Unlinked(p) \/ Renewed(p)

\* A step of t leaves the calls of other threads alone.
Moves(t) == \A u \in Threads \ {t} : todo'[u] = todo[u]

LEMMA ContinueMoves ==
    ASSUME Types, NEW t \in Threads, NEW a, NEW b, Continue(t, a, b)
    PROVE  Moves(t) /\ todo'[t] = a \o b
BY DEF Types, Continue, Moves

LEMMA UnchangedMoves == ASSUME UNCHANGED todo, NEW t PROVE Moves(t)
BY DEF Moves

\* The step at the head of a call decides what the call gives next.
LEMMA GiversKeep ==
    ASSUME NEW t \in Threads, Moves(t), NEW p, t \notin Givers(p)
    PROVE  Givers(p) \subseteq Givers(p)'
BY DEF Givers, At, Moves

LEMMA NotAGiver == ASSUME NEW t, ~At(t, "give"), NEW p PROVE t \notin Givers(p)
BY DEF Givers

LEMMA FifoOf ==
    ASSUME Types, NEW x, NEW o, queue' = [queue EXCEPT ![x] = o], NEW p \in Queues,
           p = x => SameFifo(o, queue[p])
    PROVE  SameFifo(queue'[p], queue[p])
<1>1. p = x => queue'[p] = o
  BY DEF Types
<1>2. p # x => queue'[p] = queue[p]
  BY DEF Types
<1> QED BY <1>1, <1>2 DEF SameFifo

LEMMA UnchangedFifo ==
    ASSUME UNCHANGED queue, NEW p
    PROVE  SameFifo(queue'[p], queue[p])
BY DEF SameFifo

\* A step of t that changes neither a FIFO nor the place of a worker.
LEMMA KeptByCall ==
    ASSUME NEW p \in Queues, NEW t \in Threads, Moves(t), ~At(t, "give"), pc' = pc,
           SameFifo(queue'[p], queue[p])
    PROVE  FifoEffect(p)
BY GiversKeep, NotAGiver DEF FifoEffect, Kept

\* Steps about items or about the life of the queue.
LEMMA PlainCallFifo ==
    ASSUME IInv, NEW t \in Threads, NEW p \in Queues,
           \/ os_work_notify(t) \/ os_sem_take_sync(t)
           \/ \E w \in Works : os_work_flush(t, w)
           \/ os_work_flush_nested(t) \/ os_work_check_idle(t) \/ os_work_check_done(t)
           \/ \E q \in Queues, plug \in BOOLEAN : os_work_queue_drain(t, q, plug)
           \/ os_work_queue_poll(t)
           \/ \E q \in Queues : os_work_queue_unplug(t, q)
           \/ os_thread_join(t) \/ os_thread_join_reap(t) \/ os_thread_join_timeout(t)
           \/ \E q \in Queues : os_work_queue_stop(t, q)
           \/ os_work_queue_stop_purge(t) \/ os_work_queue_stop_deinit(t)
           \/ os_work_queue_stop_done(t)
    PROVE  FifoEffect(p)
<1>1. Types /\ queue[p] \in QueueType
  BY DEF IInv, Types
<1>2. ASSUME UNCHANGED queue PROVE SameFifo(queue'[p], queue[p])
  BY <1>2, UnchangedFifo
<1>3. CASE \/ os_work_notify(t) \/ os_sem_take_sync(t) \/ os_work_flush_nested(t)
           \/ os_work_check_idle(t) \/ os_work_check_done(t)
           \/ os_work_queue_stop_deinit(t)
  <2>1. UNCHANGED <<queue, pc>> /\ ~At(t, "give") /\ \E a, b : Continue(t, a, b)
    BY <1>3 DEF os_work_notify, os_sem_take_sync, os_work_flush_nested, Flush,
                os_work_check_idle, os_work_check_done, os_work_queue_stop_deinit, At
  <2> QED BY <1>1, <1>2, <2>1, ContinueMoves, KeptByCall
<1>4. ASSUME NEW w \in Works, os_work_flush(t, w) PROVE FifoEffect(p)
  <2>1. UNCHANGED <<queue, pc>> /\ ~At(t, "give") /\ \E a, b : Continue(t, a, b)
    BY <1>4 DEF os_work_flush, Flush, MayCall, At
  <2> QED BY <1>1, <1>2, <2>1, ContinueMoves, KeptByCall
<1>5. ASSUME NEW q \in Queues, NEW plug \in BOOLEAN, os_work_queue_drain(t, q, plug)
      PROVE  FifoEffect(p)
  <2>1. pc' = pc /\ ~At(t, "give") /\ \E a, b : Continue(t, a, b)
    BY <1>5 DEF os_work_queue_drain, MayCall, At
  <2> PICK o : o = [queue[q] EXCEPT !.draining = TRUE, !.plugged = @ \/ plug]
    OBVIOUS
  <2>2. queue' = [queue EXCEPT ![q] = o]
    BY <1>5 DEF os_work_queue_drain
  <2>3. p = q => SameFifo(o, queue[p])
    BY <1>1 DEF QueueType, SameFifo
  <2> QED BY <1>1, <2>1, <2>2, <2>3, FifoOf, ContinueMoves, KeptByCall
<1>6. CASE os_work_queue_poll(t)
  <2> PICK q : q = Head(todo[t]).q
    OBVIOUS
  <2>1. pc' = pc /\ ~At(t, "give") /\ \E a, b : Continue(t, a, b)
    BY <1>6 DEF os_work_queue_poll, At
  <2> PICK o : o = [queue[q] EXCEPT !.draining = FALSE]
    OBVIOUS
  <2>2. queue' = [queue EXCEPT ![q] = o]
    BY <1>6 DEF os_work_queue_poll
  <2>3. p = q => SameFifo(o, queue[p])
    BY <1>1 DEF QueueType, SameFifo
  <2> QED BY <1>1, <2>1, <2>2, <2>3, FifoOf, ContinueMoves, KeptByCall
<1>7. ASSUME NEW q \in Queues, os_work_queue_unplug(t, q) PROVE FifoEffect(p)
  <2>1. pc' = pc /\ ~At(t, "give") /\ UNCHANGED todo
    BY <1>7 DEF os_work_queue_unplug, MayCall, At
  <2> PICK o : o = [queue[q] EXCEPT !.plugged = FALSE]
    OBVIOUS
  <2>2. queue' = [queue EXCEPT ![q] = o]
    BY <1>7 DEF os_work_queue_unplug
  <2>3. p = q => SameFifo(o, queue[p])
    BY <1>1 DEF QueueType, SameFifo
  <2> QED BY <1>1, <2>1, <2>2, <2>3, FifoOf, UnchangedMoves, KeptByCall
<1>8. CASE os_thread_join(t) \/ os_thread_join_reap(t) \/ os_thread_join_timeout(t)
  <2> PICK q : q = Head(todo[t]).q
    OBVIOUS
  <2>1. pc' = pc /\ ~At(t, "give") /\ \E a, b : Continue(t, a, b)
    BY <1>8 DEF os_thread_join, os_thread_join_reap, os_thread_join_timeout, At
  <2>2. PICK wk, j : \/ queue' = queue
                     \/ queue' = [queue EXCEPT ![q].worker = wk, ![q].joining = j]
                     \/ queue' = [queue EXCEPT ![q].joining = j]
    BY <1>8 DEF os_thread_join, os_thread_join_reap, os_thread_join_timeout
  <2>3. SameFifo(queue'[p], queue[p])
    <3>1. CASE queue' = queue
      BY <1>2, <3>1
    <3>2. CASE queue' = [queue EXCEPT ![q].worker = wk, ![q].joining = j]
      <4> PICK o : o = [queue[q] EXCEPT !.worker = wk, !.joining = j]
        OBVIOUS
      <4>1. queue' = [queue EXCEPT ![q] = o]
        BY <3>2
      <4>2. p = q => SameFifo(o, queue[p])
        BY <1>1 DEF QueueType, SameFifo
      <4> QED BY <1>1, <4>1, <4>2, FifoOf
    <3>3. CASE queue' = [queue EXCEPT ![q].joining = j]
      <4> PICK o : o = [queue[q] EXCEPT !.joining = j]
        OBVIOUS
      <4>1. queue' = [queue EXCEPT ![q] = o]
        BY <3>3
      <4>2. p = q => SameFifo(o, queue[p])
        BY <1>1 DEF QueueType, SameFifo
      <4> QED BY <1>1, <4>1, <4>2, FifoOf
    <3> QED BY <2>2, <3>1, <3>2, <3>3
  <2> QED BY <1>1, <2>1, <2>3, ContinueMoves, KeptByCall
<1>9. CASE os_work_queue_stop_purge(t)
  <2> PICK q : q = Head(todo[t]).q
    OBVIOUS
  <2>1. pc' = pc /\ ~At(t, "give") /\ \E a, b : Continue(t, a, b)
    BY <1>9 DEF os_work_queue_stop_purge, At
  <2> PICK o : o = [queue[q] EXCEPT !.delayed = Tail(@)]
    OBVIOUS
  <2>2. UNCHANGED queue \/ queue' = [queue EXCEPT ![q] = o]
    BY <1>9 DEF os_work_queue_stop_purge
  <2>3. p = q => SameFifo(o, queue[p])
    BY <1>1 DEF QueueType, SameFifo
  <2>4. SameFifo(queue'[p], queue[p])
    BY <1>1, <1>2, <2>2, <2>3, FifoOf
  <2> QED BY <1>1, <2>1, <2>4, ContinueMoves, KeptByCall
<1>10. ASSUME NEW q \in Queues, os_work_queue_stop(t, q) PROVE FifoEffect(p)
  <2>1. UNCHANGED <<queue, pc>> /\ ~At(t, "give") /\ \E a, b : Continue(t, a, b)
    BY <1>10 DEF os_work_queue_stop, MayCall, At
  <2> QED BY <1>1, <1>2, <2>1, ContinueMoves, KeptByCall
<1>11. CASE os_work_queue_stop_done(t)
  <2> PICK q : q = Head(todo[t]).q
    OBVIOUS
  <2>1. pc' = pc /\ ~At(t, "give") /\ \E a, b : Continue(t, a, b)
    BY <1>11 DEF os_work_queue_stop_done, At
  <2> PICK o : o = [queue[q] EXCEPT !.started = FALSE]
    OBVIOUS
  <2>2. queue' = [queue EXCEPT ![q] = o]
    BY <1>11 DEF os_work_queue_stop_done
  <2>3. p = q => SameFifo(o, queue[p])
    BY <1>1 DEF QueueType, SameFifo
  <2> QED BY <1>1, <2>1, <2>2, <2>3, FifoOf, ContinueMoves, KeptByCall
<1> QED BY <1>3, <1>4, <1>5, <1>6, <1>7, <1>8, <1>9, <1>10, <1>11

\* Steps that take an item off a delayed list or put it on one.
LEMMA DelayedFifo ==
    ASSUME IInv, NEW t \in Threads, NEW w \in Works, NEW p \in Queues,
           \/ \E sync \in BOOLEAN : os_work_cancel_delayable(t, w, sync)
           \/ os_work_flush_delayable(t, w)
           \/ \E q \in Queues, d \in Delays, re \in BOOLEAN :
                  os_work_schedule_common(t, q, w, d, re)
    PROVE  FifoEffect(p)
<1>1. Types /\ Items
  BY DEF IInv
<1>2. pc' = pc /\ ~At(t, "give") /\ \E a, b : Continue(t, a, b)
  BY DEF os_work_cancel_delayable, os_work_flush_delayable, os_work_schedule_common,
         MayCall, At
<1> PICK u : u = Undelay(w)
  OBVIOUS
<1>3. /\ u \in [Queues -> QueueType] /\ u[p] \in QueueType
      /\ \A x \in Queues : SameFifo(u[x], queue[x])
  BY <1>1, Undelayed DEF SameFifo, SameButDelayed
<1>4. queue' = u \/ \E q \in Queues : queue' = [u EXCEPT ![q].delayed = Append(@, w)]
  BY DEF os_work_cancel_delayable, os_work_flush_delayable, os_work_schedule_common
<1>5. SameFifo(queue'[p], queue[p])
  <2>1. CASE queue' = u
    BY <1>3, <2>1
  <2>2. ASSUME NEW q \in Queues, queue' = [u EXCEPT ![q].delayed = Append(@, w)]
        PROVE  SameFifo(queue'[p], queue[p])
    <3> PICK o : o = [u[q] EXCEPT !.delayed = Append(@, w)]
      OBVIOUS
    <3>1. queue' = [u EXCEPT ![q] = o]
      BY <2>2
    <3>2. p = q => queue'[p] = o /\ SameFifo(o, u[p])
      BY <1>3, <3>1 DEF QueueType, SameFifo
    <3>3. p # q => queue'[p] = u[p]
      BY <1>3, <3>1
    <3>4. SameFifo(u[p], queue[p])
      BY <1>3
    <3> QED BY <3>2, <3>3, <3>4 DEF SameFifo
  <2> QED BY <1>4, <2>1, <2>2
<1> QED BY <1>1, <1>2, <1>5, ContinueMoves, KeptByCall

\* os_sem_give and os_sem_trytake of the tokens.
LEMMA TokenFifo ==
    ASSUME IInv, NEW t \in Threads, NEW p \in Queues,
           os_sem_give_items(t) \/ os_sem_trytake_items(t)
    PROVE  FifoEffect(p)
<1> PICK q : q = Head(todo[t]).q
  OBVIOUS
<1>1. Types /\ queue[p] \in QueueType /\ pc' = pc /\ Moves(t) /\ t \in Threads
  BY ContinueMoves DEF IInv, Types, os_sem_give_items, os_sem_trytake_items
<1>2. CASE os_sem_give_items(t)
  <2> PICK o : o = [queue[q] EXCEPT !.items = GivenItems(q)]
    OBVIOUS
  <2>1. queue' = [queue EXCEPT ![q] = o]
    BY <1>2 DEF os_sem_give_items
  <2>2. CASE p = q
    <3>1. queue'[p] = o
      BY <1>1, <2>1, <2>2 DEF Types
    <3>2. TokensMove(p, GivenItems(p))
      BY <2>2, <3>1 DEF TokensMove, SameFifo
    <3>3. Givers(p) \ {t} \subseteq Givers(p)'
      BY <1>1 DEF Givers, At, Moves
    <3> QED BY <1>1, <3>2, <3>3 DEF FifoEffect, Given
  <2>3. CASE p # q
    <3>1. t \notin Givers(p)
      BY <2>3 DEF Givers
    <3>2. SameFifo(queue'[p], queue[p])
      BY <1>1, <2>1, <2>3, FifoOf
    <3> QED BY <1>1, <3>1, <3>2, GiversKeep DEF FifoEffect, Kept
  <2> QED BY <2>2, <2>3
<1>3. CASE os_sem_trytake_items(t)
  <2> PICK n : n = IF queue[q].items > 0 THEN queue[q].items - 1 ELSE queue[q].items
    OBVIOUS
  <2> PICK o : o = [queue[q] EXCEPT !.items = n]
    OBVIOUS
  <2>1. queue' = [queue EXCEPT ![q] = o]
    BY <1>3 DEF os_sem_trytake_items
  <2>2. Revokes /\ ~At(t, "give")
    BY <1>3 DEF os_sem_trytake_items, Revokes, At
  <2>3. Givers(p) \subseteq Givers(p)'
    BY <1>1, <2>2, GiversKeep, NotAGiver
  <2>4. CASE p = q /\ queue[q].items > 0
    <3>1. queue'[p] = o
      BY <1>1, <2>1, <2>4 DEF Types
    <3>2. TokensMove(p, queue[p].items - 1)
      BY <2>4, <3>1 DEF TokensMove, SameFifo
    <3> QED BY <2>2, <2>3, <2>4, <3>2 DEF FifoEffect, Taken
  <2>5. CASE ~(p = q /\ queue[q].items > 0)
    <3>1. p = q => SameFifo(o, queue[p])
      BY <1>1, <2>5 DEF QueueType, SameFifo
    <3>2. SameFifo(queue'[p], queue[p])
      BY <1>1, <2>1, <3>1, FifoOf
    <3> QED BY <1>1, <2>3, <3>2 DEF FifoEffect, Kept
  <2> QED BY <2>4, <2>5
<1> QED BY <1>2, <1>3

\* A call goes on with the give of a token.
LEMMA NewGiver ==
    ASSUME NEW t \in Threads, Moves(t), ~At(t, "give"), NEW q \in Queues,
           NEW rest \in Seq(Steps), todo'[t] = <<Give(q)>> \o rest
    PROVE  \E u \in Threads \ Givers(q) : Givers(q) \cup {u} \subseteq Givers(q)'
<1>1. Give(q) \in Steps
  BY QuietSteps DEF Quiet
<1>2. todo'[t] # <<>> /\ Head(todo'[t]) = Give(q)
  BY <1>1
<1>3. t \in Givers(q)'
  BY <1>2 DEF Givers, At, Give, Todo
<1> QED BY <1>3, GiversKeep, NotAGiver

LEMMA EnqueueFifo ==
    ASSUME IInv, NEW t \in Threads, NEW q \in Queues, NEW w \in Works, ~At(t, "give"),
           NEW rest \in Seq(Steps), Enqueue(t, q, w, rest), NEW p \in Queues
    PROVE  FifoEffect(p)
<1>1. Types /\ queue[p] \in QueueType /\ pc' = pc
  BY DEF IInv, Types, Enqueue
<1>2. CASE ~CanEnqueue(t, q, w)
  <2>1. UNCHANGED queue /\ Continue(t, <<>>, rest)
    BY <1>2 DEF Enqueue
  <2> QED BY <1>1, <2>1, UnchangedFifo, ContinueMoves, KeptByCall
<1>3. CASE CanEnqueue(t, q, w)
  <2> PICK o : o = [queue[q] EXCEPT !.list = Append(@, w), !.count = @ + 1]
    OBVIOUS
  <2>1. queue' = [queue EXCEPT ![q] = o] /\ Continue(t, <<Give(q)>>, rest)
    BY <1>3 DEF Enqueue
  <2>2. Moves(t) /\ todo'[t] = <<Give(q)>> \o rest
    BY <1>1, <2>1, ContinueMoves
  <2>3. queue[q].count < Limit
    BY <1>3 DEF CanEnqueue
  <2>4. CASE p = q
    <3>1. queue'[p] = o /\ queue[p].list \in Seq(Works \cup {StopNode})
      BY <1>1, <2>1, <2>4 DEF Types, QueueType
    <3>2. /\ o.list = Append(queue[p].list, w) /\ o.count = queue[p].count + 1
          /\ o.items = queue[p].items /\ o.initialized = queue[p].initialized
      BY <1>1, <2>4 DEF QueueType
    <3>3. NodesMove(p, 1)
      <4>1. w \in Works \cup {StopNode}
        OBVIOUS
      <4>2. /\ Append(queue[p].list, w) \in Seq(Works \cup {StopNode})
            /\ Len(Append(queue[p].list, w)) = Len(queue[p].list) + 1
        BY <3>1, <4>1, AppendProperties
      <4> QED BY <3>1, <3>2, <4>2 DEF NodesMove
    <3>4. \E u \in Threads \ Givers(p) : Givers(p) \cup {u} \subseteq Givers(p)'
      BY <2>2, <2>4, NewGiver
    <3> QED BY <1>1, <2>3, <2>4, <3>3, <3>4 DEF FifoEffect, Linked
  <2>5. CASE p # q
    <3>1. SameFifo(queue'[p], queue[p])
      BY <1>1, <2>1, <2>5, FifoOf
    <3> QED BY <1>1, <2>2, <3>1, KeptByCall
  <2> QED BY <2>4, <2>5
<1> QED BY <1>2, <1>3

LEMMA CancelFifo ==
    ASSUME IInv, NEW t \in Threads, NEW w \in Works, ~At(t, "give"), Revokes,
           NEW rest, Cancel(t, w, rest), NEW p \in Queues
    PROVE  FifoEffect(p)
<1> PICK q : q = work[w].queue
  OBVIOUS
<1>1. Types /\ queue[p] \in QueueType /\ pc' = pc /\ \E a, b : Continue(t, a, b)
  BY DEF IInv, Types, Cancel
<1>2. Moves(t)
  BY <1>1, ContinueMoves
<1>3. CASE "QUEUED" \notin Flags(w)
  <2>1. UNCHANGED queue
    BY <1>3 DEF Cancel
  <2> QED BY <1>1, <1>2, <2>1, UnchangedFifo, KeptByCall
<1>4. CASE "QUEUED" \in Flags(w)
  <2> PICK o : o = [queue[q] EXCEPT !.list = RemoveNode(@, w), !.count = @ - 1]
    OBVIOUS
  <2>1. queue' = [queue EXCEPT ![q] = o]
    BY <1>4 DEF Cancel
  <2>2. CASE p = q
    <3>1. queue'[p] = o
      BY <1>1, <2>1, <2>2 DEF Types
    <3>2. /\ o.list = RemoveNode(queue[p].list, w) /\ o.count = queue[p].count - 1
          /\ o.items = queue[p].items /\ o.initialized = queue[p].initialized
      BY <1>1, <2>2 DEF QueueType
    <3>3. /\ w \in Range(queue[p].list) /\ NoDuplicates(queue[p].list)
          /\ queue[p].list \in Seq(Works \cup {StopNode})
      BY <1>1, <1>4, <2>2 DEF IInv, Items, Matches, ListsSound, QueueType
    <3>4. /\ RemoveNode(queue[p].list, w) \in Seq(Works \cup {StopNode})
          /\ Len(RemoveNode(queue[p].list, w)) = Len(queue[p].list) - 1
          /\ Len(queue[p].list) \in Nat /\ queue[p].count \in Nat
      BY <1>1, <3>3, RemoveProperties DEF QueueType
    <3>5. NodesMove(p, -1)
      BY <3>1, <3>2, <3>4 DEF NodesMove
    <3> QED BY <1>2, <3>5, GiversKeep, NotAGiver DEF FifoEffect, Unlinked
  <2>3. CASE p # q
    <3>1. SameFifo(queue'[p], queue[p])
      BY <1>1, <2>1, <2>3, FifoOf
    <3> QED BY <1>1, <1>2, <3>1, KeptByCall
  <2> QED BY <2>2, <2>3
<1> QED BY <1>3, <1>4

\* Submissions and cancellations, as calls and as parts of calls.
LEMMA CallFifo ==
    ASSUME IInv, NEW t \in Threads, NEW p \in Queues,
           \/ \E q \in Queues, w \in Works : os_work_submit_to_queue(t, q, w)
           \/ \E w \in Works : os_work_cancel(t, w) \/ os_work_cancel_sync(t, w)
           \/ os_work_submit_nested(t) \/ os_work_cancel_nested(t)
    PROVE  FifoEffect(p)
<1>1. Types /\ <<>> \in Seq(Steps)
  BY DEF IInv
<1>2. ASSUME NEW q \in Queues, NEW w \in Works, os_work_submit_to_queue(t, q, w)
      PROVE  FifoEffect(p)
  <2>1. ~At(t, "give") /\ Enqueue(t, q, w, <<>>)
    BY <1>2 DEF os_work_submit_to_queue, MayCall, At
  <2> QED BY <1>1, <2>1, EnqueueFifo
<1>3. ASSUME NEW w \in Works, os_work_cancel(t, w) \/ os_work_cancel_sync(t, w)
      PROVE  FifoEffect(p)
  <2>1. ~At(t, "give") /\ \E rest : Cancel(t, w, rest)
    BY <1>3 DEF os_work_cancel, os_work_cancel_sync, MayCall, At
  <2>2. Revokes
    BY <1>3 DEF os_work_cancel, os_work_cancel_sync, Revokes, Cancels
  <2> QED BY <2>1, <2>2, CancelFifo
<1>4. CASE os_work_submit_nested(t)
  <2>1. todo[t] # <<>> /\ Head(todo[t]).do = "submit" /\ ~At(t, "give")
    BY <1>4 DEF os_work_submit_nested, At
  <2>2. Tail(todo[t]) \in Seq(Steps) /\ Head(todo[t]) \in Steps
    BY <1>1, <2>1, HeadStep
  <2>3. Head(todo[t]).q \in Queues /\ Head(todo[t]).w \in Works
    BY <2>1, <2>2, StepFields DEF OnItem, OnQueue
  <2> QED BY <1>4, <2>1, <2>2, <2>3, EnqueueFifo DEF os_work_submit_nested
<1>5. CASE os_work_cancel_nested(t)
  <2>1. todo[t] # <<>> /\ Head(todo[t]).do = "cancel" /\ ~At(t, "give") /\ Revokes
    BY <1>5 DEF os_work_cancel_nested, At, Revokes
  <2>2. Head(todo[t]) \in Steps
    BY <1>1, <2>1, HeadStep
  <2>3. Head(todo[t]).w \in Works
    BY <2>1, <2>2, StepFields DEF OnItem
  <2> QED BY <1>5, <2>1, <2>3, CancelFifo DEF os_work_cancel_nested
<1> QED BY <1>2, <1>3, <1>4, <1>5

\* The FIFO is set up, gets a stop node and is zeroed.
LEMMA LifeFifo ==
    ASSUME IInv, NEW t \in Threads, NEW p \in Queues,
           \/ \E q \in Queues : os_work_queue_start(t, q)
           \/ os_work_queue_stop_link(t) \/ os_work_queue_stop_zero(t)
    PROVE  FifoEffect(p)
<1>1. Types /\ queue[p] \in QueueType
  BY DEF IInv, Types
<1>2. ASSUME NEW q \in Queues, os_work_queue_start(t, q) PROVE FifoEffect(p)
  <2>1. queue' = [queue EXCEPT ![q] = NewQueue] /\ ~At(t, "give") /\ UNCHANGED todo
    BY <1>2 DEF os_work_queue_start, MayCall, At
  <2>2. CASE p = q
    <3>1. queue'[p] = NewQueue /\ pc'[p] = "tick"
      BY <1>1, <1>2, <2>1, <2>2 DEF Types, os_work_queue_start
    <3> QED BY <3>1 DEF FifoEffect, Renewed, NewQueue
  <2>3. CASE p # q
    <3>1. SameFifo(queue'[p], queue[p]) /\ Givers(p) \subseteq Givers(p)'
      BY <1>1, <2>1, <2>3, FifoOf, UnchangedMoves, GiversKeep, NotAGiver
    <3>2. pc'[p] = pc[p]
      BY <1>1, <1>2, <2>3 DEF os_work_queue_start, Types
    <3> QED BY <3>1, <3>2 DEF FifoEffect, Kept
  <2> QED BY <2>2, <2>3
<1>3. CASE os_work_queue_stop_link(t)
  <2> PICK q : q = Head(todo[t]).q
    OBVIOUS
  <2> PICK o : o = [queue[q] EXCEPT !.stopping = TRUE, !.list = Append(@, StopNode),
                                    !.count = @ + 1]
    OBVIOUS
  <2> PICK rest : rest = <<Todo("join", q, None, 0)>>
    OBVIOUS
  <2>1. /\ ~At(t, "give") /\ pc' = pc /\ todo[t] # <<>> /\ Head(todo[t]).do = "stop"
        /\ \/ Continue(t, <<>>, <<>>) /\ UNCHANGED queue
           \/ /\ queue' = [queue EXCEPT ![q] = o] /\ Continue(t, <<Give(q)>>, rest)
              /\ queue[q].count = 0
    BY <1>3 DEF os_work_queue_stop_link, At
  <2>2. q \in Queues
    BY <1>1, <2>1, HeadStep, StepFields DEF OnQueue, Stopping
  <2>3. CASE Continue(t, <<>>, <<>>) /\ UNCHANGED queue
    BY <1>1, <2>1, <2>3, UnchangedFifo, ContinueMoves, KeptByCall
  <2>4. CASE /\ queue' = [queue EXCEPT ![q] = o] /\ Continue(t, <<Give(q)>>, rest)
             /\ queue[q].count = 0
    <3>1. Moves(t) /\ todo'[t] = <<Give(q)>> \o rest
      BY <1>1, <2>4, ContinueMoves
    <3>2. CASE p = q
      <4>1. queue'[p] = o /\ queue[p].list \in Seq(Works \cup {StopNode})
        BY <1>1, <2>4, <3>2 DEF Types, QueueType
      <4>2. /\ o.list = Append(queue[p].list, StopNode) /\ o.count = queue[p].count + 1
            /\ o.items = queue[p].items /\ o.initialized = queue[p].initialized
        BY <1>1, <3>2 DEF QueueType
      <4>3. NodesMove(p, 1)
        <5>1. StopNode \in Works \cup {StopNode}
          OBVIOUS
        <5>2. /\ Append(queue[p].list, StopNode) \in Seq(Works \cup {StopNode})
              /\ Len(Append(queue[p].list, StopNode)) = Len(queue[p].list) + 1
          BY <4>1, <5>1, AppendProperties
        <5> QED BY <4>1, <4>2, <5>2 DEF NodesMove
      <4>4. rest \in Seq(Steps)
        BY <2>2, StopSteps DEF Stopping
      <4>5. \E u \in Threads \ Givers(p) : Givers(p) \cup {u} \subseteq Givers(p)'
        BY <2>1, <2>2, <3>1, <3>2, <4>4, NewGiver
      <4>6. queue[p].count < Limit
        BY <2>4, <3>2, BoundsAssumption
      <4> QED BY <2>1, <4>3, <4>5, <4>6 DEF FifoEffect, Linked
    <3>3. CASE p # q
      <4>1. SameFifo(queue'[p], queue[p])
        BY <1>1, <2>4, <3>3, FifoOf
      <4> QED BY <2>1, <3>1, <4>1, KeptByCall
    <3> QED BY <3>2, <3>3
  <2> QED BY <2>1, <2>3, <2>4
<1>4. CASE os_work_queue_stop_zero(t)
  <2> PICK q : q = Head(todo[t]).q
    OBVIOUS
  <2> PICK o : o = [queue[q] EXCEPT !.initialized = FALSE, !.items = 0, !.list = <<>>,
                                    !.count = 0]
    OBVIOUS
  <2>1. /\ ~At(t, "give") /\ pc' = pc /\ \E a, b : Continue(t, a, b)
        /\ todo[t] # <<>> /\ Head(todo[t]).do = "zero"
        /\ queue' = queue \/ queue' = [queue EXCEPT ![q] = o]
    BY <1>4 DEF os_work_queue_stop_zero, At
  <2>2. CASE p = q /\ queue' = [queue EXCEPT ![q] = o]
    <3>1. queue'[p] = o
      BY <1>1, <2>2 DEF Types
    <3>2. o.list = <<>> /\ o.count = 0 /\ o.items = 0
      BY <1>1, <2>2 DEF QueueType
    <3>3. queue[p].worker = "reaped"
      BY <2>1, <2>2, HeadStops DEF Stopping, Joined, StopMayBeAt
    <3>4. pc'[p] = "none"
      BY <2>1, <3>3 DEF IInv, LifeCycle, WorkerAgrees
    <3> QED BY <3>1, <3>2, <3>4 DEF FifoEffect, Renewed
  <2>3. CASE p # q \/ queue' = queue
    <3>1. SameFifo(queue'[p], queue[p])
      BY <1>1, <2>1, <2>3, UnchangedFifo, FifoOf
    <3> QED BY <1>1, <2>1, <3>1, ContinueMoves, KeptByCall
  <2> QED BY <2>1, <2>2, <2>3
<1> QED BY <1>2, <1>3, <1>4

\* The worker of q.
LEMMA WorkerFifo ==
    ASSUME IInv, NEW q \in Queues, os_work_queue_entry(q), NEW p \in Queues
    PROVE  FifoEffect(p)
<1>1. /\ Types /\ Items /\ queue[p] \in QueueType /\ q \in Threads
      /\ queue[p].list \in Seq(Works \cup {StopNode})
  BY DEF IInv, Types, QueueType, Threads
<1>2. Moves(q) /\ todo[q] = <<>>
  <2>1. todo[q] = <<>> /\ (UNCHANGED todo \/ \E a, b : Continue(q, a, b))
    BY DEF os_work_queue_entry, Worker, os_work_promote_tick, os_work_promote_due,
           os_work_promote_none, os_work_queue_take, os_work_queue_timeout,
           os_work_queue_pop_nothing, os_work_queue_pop_stop, os_work_queue_pop_work,
           os_work_queue_finish
  <2> QED BY <1>1, <2>1, ContinueMoves, UnchangedMoves
<1>3. Givers(p) \subseteq Givers(p)'
  <2>1. ~At(q, "give")
    BY <1>2 DEF At
  <2> QED BY <1>1, <1>2, <2>1, GiversKeep, NotAGiver
<1>4. \E at : pc' = [pc EXCEPT ![q] = at]
  BY DEF os_work_queue_entry, os_work_promote_tick, os_work_promote_due,
         os_work_promote_none, os_work_queue_take, os_work_queue_timeout,
         os_work_queue_pop_nothing, os_work_queue_pop_stop, os_work_queue_pop_work,
         os_work_queue_finish
<1>5. p # q => pc'[p] = pc[p]
  BY <1>1, <1>4 DEF Types
<1>6. ASSUME pc[q] # "pop" \/ queue[q].list = <<>>, SameFifo(queue'[p], queue[p])
      PROVE  FifoEffect(p)
  BY <1>3, <1>5, <1>6 DEF FifoEffect, Kept
<1>7. CASE \/ os_work_promote_tick(q) \/ os_work_promote_none(q)
           \/ os_work_queue_timeout(q) \/ os_work_queue_pop_nothing(q)
  <2>1. UNCHANGED queue /\ (pc[q] # "pop" \/ queue[q].list = <<>>)
    BY <1>7 DEF os_work_promote_tick, os_work_promote_none, os_work_queue_timeout,
                os_work_queue_pop_nothing, Worker
  <2> QED BY <1>6, <2>1, UnchangedFifo
<1>8. CASE os_work_promote_due(q)
  <2> PICK w : w = queue[q].delayed[First(Due(q))]
    OBVIOUS
  <2>1. w \in Works
    BY <1>1, <1>8, DueIsWork DEF os_work_promote_due
  <2>2. queue' = Undelay(w) /\ pc[q] # "pop"
    BY <1>8 DEF os_work_promote_due, Worker
  <2>3. SameFifo(queue'[p], queue[p])
    BY <1>1, <2>1, <2>2, Undelayed DEF SameFifo, SameButDelayed
  <2> QED BY <1>6, <2>2, <2>3
<1>9. CASE os_work_queue_finish(q)
  <2> PICK o : o = [queue[q] EXCEPT !.current = None]
    OBVIOUS
  <2>1. queue' = [queue EXCEPT ![q] = o] /\ pc[q] # "pop"
    BY <1>9 DEF os_work_queue_finish, Worker
  <2>2. p = q => SameFifo(o, queue[p])
    BY <1>1 DEF QueueType, SameFifo
  <2>3. SameFifo(queue'[p], queue[p])
    BY <1>1, <2>1, <2>2, FifoOf
  <2> QED BY <1>6, <2>1, <2>3
<1>10. CASE os_work_queue_take(q)
  <2> PICK o : o = [queue[q] EXCEPT !.items = @ - 1]
    OBVIOUS
  <2>1. /\ queue' = [queue EXCEPT ![q] = o] /\ pc[q] # "pop" /\ queue[q].items > 0
        /\ pc'[q] = "pop"
    BY <1>1, <1>10 DEF os_work_queue_take, Worker, Types
  <2>2. CASE p = q
    <3>1. queue'[p] = o
      BY <1>1, <2>1, <2>2 DEF Types
    <3>2. TokensMove(p, queue[p].items - 1)
      BY <2>2, <3>1 DEF TokensMove, SameFifo
    <3> QED BY <1>3, <2>1, <2>2, <3>2 DEF FifoEffect, Taken
  <2>3. CASE p # q
    <3>1. SameFifo(queue'[p], queue[p])
      BY <1>1, <2>1, <2>3, FifoOf
    <3> QED BY <1>6, <2>1, <3>1
  <2> QED BY <2>2, <2>3
<1>11. CASE os_work_queue_pop_stop(q) \/ os_work_queue_pop_work(q)
  <2>1. pc[q] = "pop" /\ queue[q].list # <<>>
    BY <1>11 DEF os_work_queue_pop_stop, os_work_queue_pop_work, Worker
  <2>2. PICK c, wk : queue' = [queue EXCEPT ![q] = [Popped(q) EXCEPT !.worker = wk]]
                \/ queue' = [queue EXCEPT ![q] = [Popped(q) EXCEPT !.current = c]]
    BY <1>11 DEF os_work_queue_pop_stop, os_work_queue_pop_work
  <2>3. CASE p = q
    <3>1. /\ queue'[p].list = Tail(queue[p].list) /\ queue'[p].count = queue[p].count - 1
          /\ queue'[p].items = queue[p].items
          /\ queue'[p].initialized = queue[p].initialized
      <4> PICK r : r = Popped(q)
        OBVIOUS
      <4>1. /\ r.list = Tail(queue[p].list) /\ r.count = queue[p].count - 1
            /\ r.items = queue[p].items /\ r.initialized = queue[p].initialized
            /\ r = [queue[p] EXCEPT !.list = Tail(@), !.count = @ - 1]
        BY <1>1, <2>3 DEF Popped, QueueType
      <4>2. queue'[p] = [r EXCEPT !.worker = wk] \/ queue'[p] = [r EXCEPT !.current = c]
        BY <1>1, <2>2, <2>3 DEF Types
      <4>3. CASE queue'[p] = [r EXCEPT !.worker = wk]
        BY <1>1, <4>1, <4>3 DEF QueueType
      <4>4. CASE queue'[p] = [r EXCEPT !.current = c]
        BY <1>1, <4>1, <4>4 DEF QueueType
      <4> QED BY <4>2, <4>3, <4>4
    <3>2. /\ Tail(queue[p].list) \in Seq(Works \cup {StopNode}) /\ queue[p].count \in Nat
          /\ Len(Tail(queue[p].list)) = Len(queue[p].list) - 1 /\ Len(queue[p].list) \in Nat
      BY <1>1, <2>1, <2>3, GetNode DEF QueueType
    <3>3. NodesMove(p, -1)
      BY <3>1, <3>2 DEF NodesMove
    <3> QED BY <1>3, <2>1, <2>3, <3>3 DEF FifoEffect, Unlinked
  <2>4. CASE p # q
    <3>1. SameFifo(queue'[p], queue[p])
      BY <1>1, <2>2, <2>4, FifoOf
    <3> QED BY <1>3, <1>5, <2>4, <3>1 DEF FifoEffect, Kept
  <2> QED BY <2>3, <2>4
<1> QED BY <1>7, <1>8, <1>9, <1>10, <1>11 DEF os_work_queue_entry

LEMMA FifoEffects ==
    ASSUME IInv, Next, NEW p \in Queues
    PROVE  FifoEffect(p)
<1>1. ASSUME NEW t \in Threads, Call(t) PROVE FifoEffect(p)
  BY <1>1, PlainCallFifo, DelayedFifo, CallFifo, LifeFifo DEF Call
<1>2. ASSUME NEW t \in Threads, Proceed(t) PROVE FifoEffect(p)
  BY <1>2, PlainCallFifo, TokenFifo, CallFifo, LifeFifo DEF Proceed
<1>3. ASSUME NEW q \in Queues, os_work_queue_entry(q) PROVE FifoEffect(p)
  BY <1>3, WorkerFifo
<1>4. CASE Tick
  <2>1. UNCHANGED <<queue, pc, todo>>
    BY <1>4 DEF Tick
  <2>2. Givers(p)' = Givers(p)
    BY <2>1 DEF Givers, At
  <2> QED BY <2>1, <2>2, UnchangedFifo DEF FifoEffect, Kept
<1> QED BY <1>1, <1>2, <1>3, <1>4 DEF Next
-----------------------------------------------------------------------------
(* Tokens                                                                  *)

\* Only a start gives a queue a worker.
LEMMA WorkersStart ==
    ASSUME IInv, Next, NEW p \in Queues, pc[p] = "none", pc'[p] # "none"
    PROVE  queue'[p].initialized
<1>1. Types
  BY DEF IInv
<1>2. ASSUME NEW t \in Threads, Call(t) PROVE queue'[p].initialized
  <2>1. ASSUME NEW q \in Queues, os_work_queue_start(t, q) PROVE queue'[p].initialized
    <3>1. p = q
      BY <1>1, <2>1 DEF os_work_queue_start, Types
    <3> QED BY <1>1, <2>1, <3>1 DEF os_work_queue_start, NewQueue, Types
  <2>2. ASSUME NEW w \in Works, NEW b \in BOOLEAN,
               \/ \E q \in Queues : os_work_submit_to_queue(t, q, w)
               \/ os_work_cancel(t, w) \/ os_work_cancel_sync(t, w) \/ os_work_flush(t, w)
               \/ os_work_flush_delayable(t, w) \/ os_work_cancel_delayable(t, w, b)
        PROVE  FALSE
    <3>1. UNCHANGED pc
      BY <2>2 DEF os_work_submit_to_queue, Enqueue, os_work_cancel, os_work_cancel_sync,
         Cancel, os_work_flush, os_work_flush_delayable, os_work_cancel_delayable
    <3> QED BY <3>1
  <2>3. ASSUME NEW w \in Works, NEW q \in Queues, NEW d \in Delays, NEW re \in BOOLEAN,
               os_work_schedule_common(t, q, w, d, re)
        PROVE  FALSE
    BY <2>3 DEF os_work_schedule_common
  <2>4. ASSUME NEW q \in Queues, NEW b \in BOOLEAN,
               \/ os_work_queue_stop(t, q) \/ os_work_queue_unplug(t, q)
               \/ os_work_queue_drain(t, q, b)
        PROVE  FALSE
    BY <2>4 DEF os_work_queue_stop, os_work_queue_unplug, os_work_queue_drain
  <2> QED BY <1>2, <2>1, <2>2, <2>3, <2>4, TRUE \in BOOLEAN DEF Call
<1>3. ASSUME NEW t \in Threads, Proceed(t) PROVE queue'[p].initialized
  <2>1. UNCHANGED pc
    BY <1>3 DEF Proceed, os_sem_give_items, os_sem_trytake_items, os_work_notify,
       os_sem_take_sync, os_work_submit_nested, Enqueue, os_work_cancel_nested, Cancel,
       os_work_flush_nested, os_work_check_idle, os_work_check_done, os_work_queue_poll,
       os_thread_join, os_thread_join_reap, os_thread_join_timeout,
       os_work_queue_stop_link, os_work_queue_stop_purge, os_work_queue_stop_deinit,
       os_work_queue_stop_zero, os_work_queue_stop_done
  <2> QED BY <2>1
<1>4. ASSUME NEW q \in Queues, os_work_queue_entry(q) PROVE queue'[p].initialized
  <2>1. pc[q] # "none" /\ \E at : pc' = [pc EXCEPT ![q] = at]
    BY <1>4 DEF os_work_queue_entry, Worker, os_work_promote_tick, os_work_promote_due,
       os_work_promote_none, os_work_queue_take, os_work_queue_timeout,
       os_work_queue_pop_nothing, os_work_queue_pop_stop, os_work_queue_pop_work,
       os_work_queue_finish
  <2>2. pc'[p] = pc[p]
    BY <1>1, <2>1 DEF Types
  <2> QED BY <2>2
<1>5. CASE Tick
  BY <1>5 DEF Tick
<1> QED BY <1>2, <1>3, <1>4, <1>5 DEF Next

\* While the worker lives the FIFO is initialized; neither the semaphore nor the
\* list passes its limit.
Counted(q) == /\ pc[q] # "none" => queue[q].initialized
              /\ queue[q].items <= Limit /\ queue[q].count <= Limit

LEMMA CountedStep ==
    ASSUME IInv, Next, NEW p \in Queues, FifoEffect(p), Counted(p)
    PROVE  Counted(p)'
<1>1. queue[p] \in QueueType /\ Limit \in Nat \ {0}
  BY BoundsAssumption DEF IInv, Types
<1>2. queue[p].count \in Nat /\ queue[p].items \in Nat
  BY <1>1 DEF QueueType
<1>3. ASSUME NEW n, TokensMove(p, n)
      PROVE  /\ queue'[p].items = n /\ queue'[p].count = queue[p].count
             /\ queue'[p].initialized = queue[p].initialized
             /\ queue'[p].list = queue[p].list
  BY <1>1, <1>3 DEF QueueType, TokensMove, SameFifo
<1> DEFINE Low == queue'[p].items <= Limit /\ queue'[p].count <= Limit
<1>4. CASE Kept(p)
  <2>1. Low /\ queue'[p].initialized = queue[p].initialized
    BY <1>4 DEF Kept, SameFifo, Counted
  <2> QED BY <2>1, WorkersStart DEF Counted
<1>5. CASE Given(p)
  <2>1. GivenItems(p) <= Limit
    BY <1>1, <1>2 DEF GivenItems, Counted
  <2>2. Low /\ queue'[p].initialized = queue[p].initialized
    BY <1>3, <1>5, <2>1 DEF Given, Counted
  <2> QED BY <2>2, WorkersStart DEF Counted
<1>6. CASE Taken(p)
  <2>1. queue[p].items - 1 <= Limit
    BY <1>1, <1>2 DEF Counted
  <2>2. Low /\ queue'[p].initialized = queue[p].initialized
    BY <1>3, <1>6, <2>1 DEF Taken, Counted
  <2> QED BY <2>2, WorkersStart DEF Counted
<1>7. CASE Linked(p) \/ Unlinked(p)
  <2>1. queue'[p].count <= Limit
    BY <1>1, <1>2, <1>7 DEF Linked, Unlinked, NodesMove, Counted
  <2>2. Low /\ queue'[p].initialized = queue[p].initialized
    BY <1>7, <2>1 DEF Linked, Unlinked, NodesMove, Counted
  <2> QED BY <2>2, WorkersStart DEF Counted
<1>8. CASE Renewed(p)
  BY <1>1, <1>8 DEF Renewed, Counted
<1> QED BY <1>4, <1>5, <1>6, <1>7, <1>8 DEF FifoEffect

LEMMA GiversAreFinite ==
    ASSUME NEW p
    PROVE  /\ IsFiniteSet(Givers(p)) /\ Cardinality(Givers(p)) \in Nat
           /\ IsFiniteSet(Givers(p)') /\ Cardinality(Givers(p)') \in Nat
<1>1. Givers(p) \subseteq Threads /\ Givers(p)' \subseteq Threads
  BY DEF Givers
<1> QED BY <1>1, ThreadsAssumption, FS_Subset, FS_CardinalityType

\* EveryItemHasAToken for one queue.
HasTokens(q) ==
    queue[q].initialized =>
        Len(queue[q].list) <= queue[q].items + Cardinality(Givers(q))
                                + (IF pc[q] = "pop" THEN 1 ELSE 0)

\* A step that takes no submission back leaves every item its token.
LEMMA TokensStep ==
    ASSUME IInv, NEW p \in Queues, FifoEffect(p), Counted(p), HasTokens(p), ~Revokes
    PROVE  HasTokens(p)'
<1>1. queue[p] \in QueueType /\ Limit \in Nat \ {0} /\ ListsSound(p)
  BY BoundsAssumption DEF IInv, Types, Items
<1>2. /\ queue[p].count \in Nat /\ queue[p].items \in Nat
      /\ Len(queue[p].list) \in Nat /\ queue[p].count = Len(queue[p].list)
  BY <1>1, LenProperties DEF QueueType, ListsSound
<1> PICK g : g = Cardinality(Givers(p))
  OBVIOUS
<1> PICK h : h = Cardinality(Givers(p)')
  OBVIOUS
<1>3. g \in Nat /\ h \in Nat /\ IsFiniteSet(Givers(p)) /\ IsFiniteSet(Givers(p)')
  BY GiversAreFinite
<1>4. Givers(p) \subseteq Givers(p)' => g <= h
  BY <1>3, FS_Subset
<1> PICK k : k = IF pc[p] = "pop" THEN 1 ELSE 0
  OBVIOUS
<1> PICK m : m = IF pc'[p] = "pop" THEN 1 ELSE 0
  OBVIOUS
<1> PICK a : a = Len(queue[p].list)
  OBVIOUS
<1> PICK b : b = Len(queue'[p].list)
  OBVIOUS
<1> PICK i : i = queue[p].items
  OBVIOUS
<1> PICK j : j = queue'[p].items
  OBVIOUS
<1>5. /\ k \in {0, 1} /\ m \in {0, 1} /\ a \in Nat /\ i \in Nat
      /\ queue[p].initialized => a <= i + g + k
  BY <1>2 DEF HasTokens
<1>6. SUFFICES ASSUME queue'[p].initialized PROVE b <= j + h + m
  BY DEF HasTokens
<1>7. ASSUME NEW n, TokensMove(p, n)
      PROVE  /\ queue'[p].items = n /\ queue'[p].list = queue[p].list
             /\ queue[p].initialized
  BY <1>1, <1>6, <1>7 DEF QueueType, TokensMove, SameFifo
<1>8. CASE Kept(p)
  <2>1. /\ b = a /\ j = i
        /\ g <= h /\ (k <= m \/ queue[p].list = <<>>) /\ a <= i + g + k
    BY <1>4, <1>5, <1>6, <1>8 DEF Kept, SameFifo
  <2>2. queue[p].list = <<>> => a = 0
    OBVIOUS
  <2> QED BY ONLY <1>3, <1>5, <2>1, <2>2
<1>9. CASE Given(p)
  <2>1. PICK t \in Threads : Givers(p) \ {t} \subseteq Givers(p)'
    BY <1>9 DEF Given
  <2>2. g - 1 <= h
    <3>1. /\ IsFiniteSet(Givers(p) \ {t}) /\ Cardinality(Givers(p) \ {t}) \in Nat
          /\ Cardinality(Givers(p) \ {t}) >= g - 1
      <4>1. g - 1 <= g
        BY <1>3
      <4>2. IsFiniteSet(Givers(p) \ {t}) /\ Cardinality(Givers(p) \ {t}) \in {g - 1, g}
        BY <1>3, FS_RemoveElement
      <4> QED BY <1>3, <4>1, <4>2, FS_CardinalityType
    <3>2. Cardinality(Givers(p) \ {t}) <= h
      BY <1>3, <2>1, FS_Subset
    <3> QED BY <1>3, <3>1, <3>2
  <2>3. b = a /\ j = GivenItems(p) /\ m = k /\ queue[p].initialized /\ a <= i + g + k
    BY <1>5, <1>7, <1>9 DEF Given
  <2>4. CASE queue[p].initialized /\ queue[p].items < Limit
    <3>1. GivenItems(p) = i + 1
      BY <2>4 DEF GivenItems
    <3> QED BY ONLY <1>3, <1>5, <2>2, <2>3, <3>1
  <2>5. CASE queue[p].initialized /\ ~(queue[p].items < Limit)
    <3>1. GivenItems(p) = i /\ a <= Limit /\ Limit <= i
      BY <1>1, <1>2, <2>5 DEF GivenItems, Counted
    <3>2. Limit \in Nat
      BY <1>1
    <3> QED BY ONLY <1>3, <1>5, <2>3, <3>1, <3>2
  <2> QED BY <2>3, <2>4, <2>5
<1>10. CASE Taken(p)
  <2>1. /\ b = a /\ j = i - 1
        /\ k = 0 /\ m = 1 /\ g <= h /\ a <= i + g + k
    BY <1>4, <1>5, <1>7, <1>10 DEF Taken
  <2> QED BY ONLY <1>3, <1>5, <2>1
<1>11. CASE Linked(p)
  <2>1. PICK t \in Threads \ Givers(p) : Givers(p) \cup {t} \subseteq Givers(p)'
    BY <1>11 DEF Linked
  <2>2. g + 1 <= h
    <3>1. IsFiniteSet(Givers(p) \cup {t}) /\ Cardinality(Givers(p) \cup {t}) = g + 1
      BY <1>3, <2>1, FS_AddElement
    <3> QED BY <1>3, <2>1, <3>1, FS_Subset
  <2>3. b = a + 1 /\ j = i /\ m = k /\ a <= i + g + k
    BY <1>5, <1>6, <1>11 DEF Linked, NodesMove
  <2> QED BY ONLY <1>3, <1>5, <2>2, <2>3
<1>12. CASE Unlinked(p)
  <2>1. b = a + (-1) /\ j = i /\ g <= h /\ a <= i + g + k
    BY <1>4, <1>5, <1>6, <1>12 DEF Unlinked, NodesMove
  <2> QED BY ONLY <1>3, <1>5, <2>1
<1>13. CASE Renewed(p)
  <2>1. b = 0 /\ j = 0
    BY <1>13 DEF Renewed
  <2> QED BY ONLY <1>3, <1>5, <2>1
<1> QED BY <1>8, <1>9, <1>10, <1>11, <1>12, <1>13 DEF FifoEffect
-----------------------------------------------------------------------------
(* What a step does to the calls in progress                               *)

\* Submission numbers that items or flushes in progress carry.
Known(n) == \/ n = 0 \/ \E w \in Works : n = work[w].submission_id
            \/ \E t \in Threads : \E s \in Range(todo[t]) : n = s.n

\* Steps that neither give a token nor submit an item.
Plain == {s \in Steps : /\ s.do \notin {"give", "submit"} /\ Known(s.n)
                        /\ s.do \in {"cancel", "trytake"} => Revokes}

Urgent == {Give(q) : q \in Queues} \cup {Submit(q, w) : q \in Queues, w \in Works}

CallEffect(t) ==
    \/ os_sem_give_items(t) /\ At(t, "give") /\ todo'[t] = Tail(todo[t])
    \/ /\ At(t, "submit")
       /\ todo'[t] = Tail(todo[t]) \/ \E q \in Queues : todo'[t] = <<Give(q)>> \o Tail(todo[t])
    \/ /\ ~At(t, "give") /\ ~At(t, "submit")
       /\ Range(todo'[t]) \subseteq Plain \cup Range(todo[t])
    \/ /\ todo[t] = <<>> \/ At(t, "stop")
       /\ \E s \in Urgent, b \in Seq(Plain) : todo'[t] = <<s>> \o b
    \/ /\ todo[t] = <<>>
       /\ \E q \in Queues, s \in Urgent, b \in Seq(Plain) : todo'[t] = <<Give(q), s>> \o b

LEMMA PlainSteps ==
    /\ \A w \in Works : /\ Notify(w) \in Plain /\ TakeSync(w) \in Plain
                        /\ CheckIdle(w) \in Plain /\ Todo("flush", None, w, 0) \in Plain
                        /\ \A n \in Nat : Known(n) => CheckDone(w, n) \in Plain
                        /\ Revokes => Todo("cancel", None, w, 0) \in Plain
    /\ \A q \in Queues : /\ Todo("poll", q, None, 0) \in Plain
                         /\ Todo("stop", q, None, 0) \in Plain
                         /\ Revokes => Todo("trytake", q, None, 0) \in Plain
                         /\ \A do \in Stopping : Todo(do, q, None, 0) \in Plain
<1>1. Known(0)
  BY DEF Known
<1>2. ASSUME NEW w \in Works
      PROVE  /\ Notify(w) \in Plain /\ TakeSync(w) \in Plain
             /\ CheckIdle(w) \in Plain /\ Todo("flush", None, w, 0) \in Plain
             /\ \A n \in Nat : Known(n) => CheckDone(w, n) \in Plain
             /\ Revokes => Todo("cancel", None, w, 0) \in Plain
  <2>1. /\ Notify(w) \in Steps /\ TakeSync(w) \in Steps
        /\ CheckIdle(w) \in Steps /\ Todo("flush", None, w, 0) \in Steps
        /\ \A n \in Nat : CheckDone(w, n) \in Steps
        /\ Todo("cancel", None, w, 0) \in Steps
    BY QuietSteps DEF Quiet
  <2> QED BY <1>1, <2>1 DEF Plain, Notify, TakeSync, CheckIdle, CheckDone, Todo
<1>3. ASSUME NEW q \in Queues
      PROVE  /\ Todo("poll", q, None, 0) \in Plain
             /\ Todo("stop", q, None, 0) \in Plain
             /\ Revokes => Todo("trytake", q, None, 0) \in Plain
             /\ \A do \in Stopping : Todo(do, q, None, 0) \in Plain
  <2>1. /\ Todo("poll", q, None, 0) \in Steps /\ Todo("trytake", q, None, 0) \in Steps
        /\ Todo("stop", q, None, 0) \in Steps
        /\ \A do \in Stopping : Todo(do, q, None, 0) \in Steps
    BY QuietSteps, StopSteps DEF Quiet
  <2> QED BY <1>1, <2>1 DEF Plain, Stopping, Todo
<1> QED BY <1>2, <1>3

LEMMA PlainSeq ==
    ASSUME NEW a \in Seq(Plain)
    PROVE  a \in Seq(Steps) /\ Range(a) \subseteq Plain
BY DEF Plain, Range

\* A call, or the step of one that is neither a give nor a submission, goes on
\* with plain steps.
LEMMA PlainEffect ==
    ASSUME Types, NEW t \in Threads, ~At(t, "give"), ~At(t, "submit"),
           NEW a \in Seq(Plain), NEW b \in Seq(Steps),
           Range(b) \subseteq Plain \cup Range(todo[t]), Continue(t, a, b)
    PROVE  Moves(t) /\ CallEffect(t)
BY PlainSeq, ContinueMoves, ContinueStep DEF CallEffect

LEMMA EnqueueCall ==
    ASSUME Types, NEW t \in Threads, NEW q \in Queues, NEW w, NEW rest,
           Enqueue(t, q, w, rest), rest \in Seq(Steps)
    PROVE  Moves(t) /\ (todo'[t] = rest \/ todo'[t] = <<Give(q)>> \o rest)
<1>1. Continue(t, <<>>, rest) \/ Continue(t, <<Give(q)>>, rest)
  BY DEF Enqueue
<1>2. <<>> \o rest = rest
  OBVIOUS
<1> QED BY <1>1, <1>2, ContinueMoves

LEMMA CancelCall ==
    ASSUME IInv, NEW t \in Threads, NEW w \in Works, ~At(t, "give"), ~At(t, "submit"),
           Revokes, NEW b \in Seq(Steps), Range(b) \subseteq Plain \cup Range(todo[t]),
           Cancel(t, w, b)
    PROVE  Moves(t) /\ CallEffect(t)
<1> PICK first : first = IF "QUEUED" \in Flags(w)
                         THEN <<Todo("trytake", work[w].queue, None, 0)>> ELSE <<>>
  OBVIOUS
<1>1. Types /\ ItemSound(w)
  BY DEF IInv, Items
<1>2. "QUEUED" \in Flags(w) => work[w].queue \in Queues
  BY <1>1 DEF ItemSound
<1>3. first \in Seq(Plain) /\ <<Notify(w)>> \in Seq(Plain)
  BY <1>2, PlainSteps
<1>4. first \o <<Notify(w)>> \in Seq(Plain)
  BY <1>3, ConcatRange
<1>5. Continue(t, first \o <<Notify(w)>>, b)
  BY DEF Cancel
<1> QED BY <1>1, <1>4, <1>5, PlainEffect

LEMMA PairOfSteps ==
    ASSUME NEW S, NEW x \in S, NEW y \in S
    PROVE  <<x>> \o <<y>> = <<x, y>> /\ <<x, y>> \o <<>> = <<x, y>>
<1>1. <<x>> \in Seq(S) /\ <<y>> \in Seq(S) /\ <<x, y>> \in Seq(S)
  OBVIOUS
<1>2. PICK a : a = <<x>> \o <<y>>
  OBVIOUS
<1>3. a \in Seq(S) /\ Len(a) = 2 /\ a[1] = x /\ a[2] = y
  BY <1>1, <1>2, ConcatProperties
<1>4. <<x, y>> \o <<>> = <<x, y>>
  BY <1>1, ConcatEmptySeq
<1>5. Len(<<x, y>>) = 2 /\ \A i \in 1 .. 2 : a[i] = <<x, y>>[i]
  BY <1>3
<1>6. a = <<x, y>>
  BY <1>1, <1>3, <1>5, SeqEqual
<1> QED BY <1>2, <1>4, <1>6

\* A call that wakes a worker or submits an item first.
LEMMA UrgentEffect ==
    ASSUME Types, NEW t \in Threads, todo[t] = <<>>, NEW s \in Urgent, NEW b \in Seq(Plain),
           NEW a, a = <<s>> \/ \E q \in Queues : a = <<Give(q), s>>, Continue(t, a, b)
    PROVE  Moves(t) /\ CallEffect(t)
<1>1. Moves(t) /\ todo'[t] = a \o b
  BY ContinueMoves
<1>2. CASE a = <<s>>
  BY <1>1, <1>2 DEF CallEffect
<1>3. CASE \E q \in Queues : a = <<Give(q), s>>
  <2> PICK q \in Queues : a = <<Give(q), s>>
    BY <1>3
  <2>1. todo'[t] = <<Give(q), s>> \o b
    BY <1>1
  <2> QED BY <1>1, <2>1 DEF CallEffect
<1> QED BY <1>2, <1>3

\* Calls of threads and handlers.
LEMMA NewCalls ==
    ASSUME IInv, NEW t \in Threads, Call(t)
    PROVE  Moves(t) /\ (todo'[t] = todo[t] \/ CallEffect(t))
<1>1. Types /\ Items /\ <<>> \in Seq(Steps) /\ <<>> \in Seq(Plain) /\ Range(<<>>) = {}
  BY SmallRanges DEF IInv
<1>2. ASSUME NEW op, MayCall(t, op) PROVE todo[t] = <<>> /\ ~At(t, "give") /\ ~At(t, "submit")
  BY <1>2 DEF MayCall, At
<1>3. ASSUME NEW w \in Works, NEW q \in Queues, os_work_submit_to_queue(t, q, w)
      PROVE  Moves(t) /\ CallEffect(t)
  <2>1. todo[t] = <<>> /\ CanEnqueue(t, q, w) /\ Enqueue(t, q, w, <<>>)
    BY <1>2, <1>3 DEF os_work_submit_to_queue
  <2>2. Continue(t, <<Give(q)>>, <<>>)
    BY <2>1 DEF Enqueue
  <2>3. Give(q) \in Urgent
    BY DEF Urgent
  <2> QED BY <1>1, <2>1, <2>2, <2>3, ContinueMoves DEF CallEffect
<1>4. ASSUME NEW w \in Works, os_work_cancel(t, w) PROVE Moves(t) /\ CallEffect(t)
  <2>1. Revokes /\ ~At(t, "give") /\ ~At(t, "submit") /\ Cancel(t, w, <<>>)
    BY <1>2, <1>4 DEF os_work_cancel, Revokes, Cancels
  <2> QED BY <1>1, <2>1, CancelCall
<1>5. ASSUME NEW w \in Works, os_work_cancel_sync(t, w) PROVE Moves(t) /\ CallEffect(t)
  <2>1. Revokes /\ ~At(t, "give") /\ ~At(t, "submit") /\ Cancel(t, w, <<CheckIdle(w)>>)
    BY <1>2, <1>5 DEF os_work_cancel_sync, Revokes, Cancels
  <2>2. <<CheckIdle(w)>> \in Seq(Plain)
    BY PlainSteps
  <2> QED BY <2>1, <2>2, PlainSeq, CancelCall
<1>6. ASSUME NEW w \in Works, os_work_flush(t, w) PROVE Moves(t) /\ CallEffect(t)
  <2> PICK n : n = work[w].submission_id
    OBVIOUS
  <2>1. n \in Nat /\ Known(n)
    BY <1>1 DEF Types, WorkType, Known
  <2>2. <<CheckDone(w, n)>> \in Seq(Plain)
    BY <2>1, PlainSteps
  <2>3. Continue(t, <<CheckDone(w, n)>>, <<>>) /\ ~At(t, "give") /\ ~At(t, "submit")
    BY <1>2, <1>6 DEF os_work_flush, Flush
  <2> QED BY <1>1, <2>2, <2>3, PlainEffect
<1>7. ASSUME NEW w \in Works, os_work_flush_delayable(t, w) PROVE Moves(t) /\ CallEffect(t)
  <2> PICK q : q = work[w].dqueue
    OBVIOUS
  <2> PICK b : b = <<Todo("flush", None, w, 0)>>
    OBVIOUS
  <2>1. b \in Seq(Plain) /\ todo[t] = <<>> /\ ~At(t, "give") /\ ~At(t, "submit")
    BY <1>2, <1>7, PlainSteps DEF os_work_flush_delayable
  <2>2. CASE "DELAYED" \in Flags(w)
    <3>1. Continue(t, <<Give(q), Submit(q, w)>>, b)
      BY <1>7, <2>2 DEF os_work_flush_delayable
    <3>2. q \in Queues /\ Submit(q, w) \in Urgent
      BY <1>1, <2>2 DEF Items, ItemSound, Urgent
    <3> QED BY <1>1, <2>1, <3>1, <3>2, UrgentEffect
  <2>3. CASE "DELAYED" \notin Flags(w)
    <3>1. Continue(t, <<>>, b)
      BY <1>7, <2>3 DEF os_work_flush_delayable
    <3> QED BY <1>1, <2>1, <3>1, PlainSeq, PlainEffect
  <2> QED BY <2>2, <2>3
<1>8. ASSUME NEW w \in Works, NEW sync \in BOOLEAN, os_work_cancel_delayable(t, w, sync)
      PROVE  Moves(t) /\ CallEffect(t)
  <2> PICK q : q = work[w].dqueue
    OBVIOUS
  <2> PICK last : last = IF sync THEN <<CheckIdle(w)>> ELSE <<>>
    OBVIOUS
  <2> PICK b : b = <<Todo("cancel", None, w, 0)>> \o last
    OBVIOUS
  <2>1. Revokes
    BY <1>8 DEF os_work_cancel_delayable, Revokes, Cancels
  <2>2. last \in Seq(Plain) /\ <<Todo("cancel", None, w, 0)>> \in Seq(Plain)
    BY <2>1, PlainSteps
  <2>3. b \in Seq(Plain) /\ todo[t] = <<>> /\ ~At(t, "give") /\ ~At(t, "submit")
    BY <1>2, <1>8, <2>2, ConcatRange DEF os_work_cancel_delayable
  <2>4. CASE "DELAYED" \in Flags(w)
    <3>1. Continue(t, <<Give(q)>>, b)
      BY <1>8, <2>4 DEF os_work_cancel_delayable
    <3>2. Give(q) \in Urgent
      BY <1>1, <2>4 DEF Items, ItemSound, Urgent
    <3> QED BY <1>1, <2>3, <3>1, <3>2, UrgentEffect
  <2>5. CASE "DELAYED" \notin Flags(w)
    <3>1. Continue(t, <<>>, b)
      BY <1>8, <2>5 DEF os_work_cancel_delayable
    <3> QED BY <1>1, <2>3, <3>1, PlainSeq, PlainEffect
  <2> QED BY <2>4, <2>5
<1>9. ASSUME NEW w \in Works, NEW q \in Queues, NEW d \in Delays, NEW re \in BOOLEAN,
             os_work_schedule_common(t, q, w, d, re)
      PROVE  Moves(t) /\ CallEffect(t)
  <2> PICK old : old = work[w].dqueue
    OBVIOUS
  <2>1. todo[t] = <<>>
    BY <1>2, <1>9 DEF os_work_schedule_common
  <2>2. PICK s : s = IF d = 0 THEN Submit(q, w) ELSE Give(q)
    OBVIOUS
  <2>3. PICK a : a = IF "DELAYED" \in Flags(w) /\ (d = 0 \/ old # q) THEN <<Give(old)>> ELSE <<>>
    OBVIOUS
  <2>4. s \in Urgent
    BY <2>2 DEF Urgent
  <2>5. Continue(t, a, <<s>>)
    BY <1>9, <2>2, <2>3 DEF os_work_schedule_common
  <2>6. todo'[t] = a \o <<s>> /\ Moves(t)
    BY <1>1, <2>5, ContinueMoves
  <2>7. CASE a = <<>>
    <3>1. Continue(t, <<s>>, <<>>)
      BY <2>5, <2>7 DEF Continue
    <3> QED BY <1>1, <2>1, <2>4, <3>1, UrgentEffect
  <2>8. CASE "DELAYED" \in Flags(w) /\ a = <<Give(old)>>
    <3>1. old \in Queues
      BY <1>1, <2>8 DEF Items, ItemSound
    <3>2. PICK x : x = Give(old)
      OBVIOUS
    <3>3. x \in Urgent
      BY <3>1, <3>2 DEF Urgent
    <3>4. <<x>> \o <<s>> = <<x, s>> /\ <<x, s>> \o <<>> = <<x, s>>
      BY <2>4, <3>3, PairOfSteps
    <3>5. Continue(t, <<Give(old), s>>, <<>>)
      BY <2>5, <2>8, <3>2, <3>4 DEF Continue
    <3> QED BY <1>1, <2>1, <2>4, <3>1, <3>5, UrgentEffect
  <2> QED BY <2>3, <2>7, <2>8
<1>10. ASSUME NEW q \in Queues, os_work_queue_stop(t, q) PROVE Moves(t) /\ CallEffect(t)
  <2>1. /\ Continue(t, <<Todo("stop", q, None, 0)>>, <<>>)
        /\ ~At(t, "give") /\ ~At(t, "submit")
    BY <1>10 DEF os_work_queue_stop, MayCall, At
  <2>2. <<Todo("stop", q, None, 0)>> \in Seq(Plain)
    BY PlainSteps
  <2> QED BY <1>1, <2>1, <2>2, PlainEffect
<1>11. ASSUME NEW q \in Queues, NEW plug \in BOOLEAN, os_work_queue_drain(t, q, plug)
       PROVE  Moves(t) /\ CallEffect(t)
  <2>1. /\ Continue(t, <<Todo("poll", q, None, 0)>>, <<>>)
        /\ ~At(t, "give") /\ ~At(t, "submit")
    BY <1>2, <1>11 DEF os_work_queue_drain
  <2>2. <<Todo("poll", q, None, 0)>> \in Seq(Plain)
    BY PlainSteps
  <2> QED BY <1>1, <2>1, <2>2, PlainEffect
<1>12. ASSUME NEW q \in Queues, os_work_queue_start(t, q) \/ os_work_queue_unplug(t, q)
       PROVE  Moves(t) /\ todo'[t] = todo[t]
  BY <1>12 DEF os_work_queue_start, os_work_queue_unplug, Moves
<1> QED BY <1>3, <1>4, <1>5, <1>6, <1>7, <1>8, <1>9, <1>10, <1>11, <1>12 DEF Call
\* The next steps of calls in progress.
LEMMA OldCalls ==
    ASSUME IInv, NEW t \in Threads, Proceed(t)
    PROVE  Moves(t) /\ CallEffect(t)
<1>1. Types /\ Items /\ <<>> \in Seq(Steps) /\ <<>> \in Seq(Plain) /\ Range(<<>>) = {}
  BY SmallRanges DEF IInv
<1> PICK s : s = Head(todo[t])
  OBVIOUS
<1> PICK a : a = Tail(todo[t])
  OBVIOUS
<1>2. ASSUME NEW do, At(t, do)
      PROVE  /\ todo[t] # <<>> /\ s.do = do /\ s \in Steps /\ s \in Range(todo[t])
             /\ a \in Seq(Steps) /\ Range(a) \subseteq Range(todo[t])
             /\ <<>> \o a = a
  <2>1. todo[t] # <<>> /\ s.do = do
    BY <1>2 DEF At
  <2>2. /\ s \in Steps /\ s \in Range(todo[t]) /\ a \in Seq(Steps)
        /\ Range(a) \subseteq Range(todo[t])
    BY <1>1, <2>1, HeadStep
  <2> QED BY <2>1, <2>2
<1>3. CASE os_sem_give_items(t)
  <2>1. At(t, "give") /\ Continue(t, <<>>, a)
    BY <1>3 DEF os_sem_give_items
  <2>2. Moves(t) /\ todo'[t] = a
    BY <1>1, <1>2, <2>1, ContinueMoves
  <2> QED BY <1>3, <2>1, <2>2 DEF CallEffect
<1>4. CASE os_work_submit_nested(t)
  <2> PICK q : q = s.q
    OBVIOUS
  <2> PICK w : w = s.w
    OBVIOUS
  <2>1. At(t, "submit") /\ Enqueue(t, q, w, a)
    BY <1>4 DEF os_work_submit_nested
  <2>2. q \in Queues /\ a \in Seq(Steps)
    BY <1>2, <2>1, StepFields DEF OnQueue
  <2>3. Moves(t) /\ (todo'[t] = a \/ todo'[t] = <<Give(q)>> \o a)
    BY <1>1, <2>1, <2>2, EnqueueCall
  <2> QED BY <2>1, <2>2, <2>3 DEF CallEffect
<1>5. ASSUME NEW do \in OnItem \cup OnQueue, do \notin {"give", "submit"}, At(t, do),
             NEW b \in Seq(Plain), Continue(t, b, a)
      PROVE  Moves(t) /\ CallEffect(t)
  <2>1. ~At(t, "give") /\ ~At(t, "submit")
    BY <1>5 DEF At
  <2> QED BY <1>1, <1>2, <1>5, <2>1, PlainEffect
<1>6. CASE os_work_cancel_nested(t)
  <2>1. At(t, "cancel") /\ Cancel(t, s.w, a)
    BY <1>6 DEF os_work_cancel_nested
  <2>2. Revokes /\ ~At(t, "give") /\ ~At(t, "submit")
    BY <2>1 DEF Revokes, At
  <2>3. s.w \in Works
    BY <1>2, <2>1, StepFields DEF OnItem
  <2> QED BY <1>2, <2>1, <2>2, <2>3, CancelCall
<1>7. CASE \/ os_sem_trytake_items(t) \/ os_work_notify(t) \/ os_sem_take_sync(t)
           \/ os_work_queue_poll(t)
  <2>1. PICK do \in {"trytake", "notify", "take_sync", "poll"} :
            At(t, do) /\ Continue(t, <<>>, a)
    BY <1>7 DEF os_sem_trytake_items, os_work_notify, os_sem_take_sync, os_work_queue_poll
  <2> QED BY <1>1, <1>5, <2>1 DEF OnItem, OnQueue
<1>8. CASE os_work_flush_nested(t) \/ os_work_check_idle(t) \/ os_work_check_done(t)
  <2>1. PICK do \in {"flush", "check_idle", "check_done"} : At(t, do)
    BY <1>8 DEF os_work_flush_nested, os_work_check_idle, os_work_check_done
  <2> PICK w : w = s.w
    OBVIOUS
  <2> PICK n : n = s.n
    OBVIOUS
  <2> PICK m : m = work[w].submission_id
    OBVIOUS
  <2>2. w \in Works /\ n \in Nat
    BY <1>2, <2>1, StepFields DEF OnItem
  <2>3. m \in Nat /\ Known(m) /\ Known(n)
    BY <1>1, <1>2, <2>1, <2>2 DEF Types, WorkType, Known
  <2>4. /\ CheckDone(w, m) \in Plain /\ CheckDone(w, n) \in Plain /\ CheckIdle(w) \in Plain
        /\ TakeSync(w) \in Plain
    BY <2>2, <2>3, PlainSteps
  <2>5. PICK b \in {<<>>, <<CheckDone(w, m)>>, <<TakeSync(w), CheckIdle(w)>>,
                    <<TakeSync(w), CheckDone(w, n)>>} : Continue(t, b, a)
    BY <1>8 DEF os_work_flush_nested, Flush, os_work_check_idle, os_work_check_done
  <2>6. /\ <<>> \in Seq(Plain) /\ <<CheckDone(w, m)>> \in Seq(Plain)
        /\ <<TakeSync(w), CheckIdle(w)>> \in Seq(Plain)
        /\ <<TakeSync(w), CheckDone(w, n)>> \in Seq(Plain)
    BY <2>4
  <2>7. b \in Seq(Plain)
    BY <2>5, <2>6, Zenon
  <2> QED BY <1>5, <2>1, <2>5, <2>7 DEF OnItem
<1>9. CASE \/ os_thread_join(t) \/ os_thread_join_reap(t) \/ os_thread_join_timeout(t)
           \/ os_work_queue_stop_purge(t) \/ os_work_queue_stop_deinit(t)
           \/ os_work_queue_stop_zero(t) \/ os_work_queue_stop_done(t)
  <2>1. PICK do \in Stopping : At(t, do)
    BY <1>9 DEF Stopping, os_thread_join, os_thread_join_reap, os_thread_join_timeout,
                os_work_queue_stop_purge, os_work_queue_stop_deinit,
                os_work_queue_stop_zero, os_work_queue_stop_done
  <2>2. ~At(t, "give") /\ ~At(t, "submit")
    BY <2>1 DEF At, Stopping
  <2> PICK q : q = s.q
    OBVIOUS
  <2> PICK w : w = Head(queue[q].delayed)
    OBVIOUS
  <2>3. q \in Queues
    BY <1>2, <2>1, StepFields DEF OnQueue, Stopping
  <2>4. \A e \in Stopping : <<Todo(e, q, None, 0)>> \in Seq(Plain)
    BY <2>3, PlainSteps
  <2>5. \/ \E b \in {<<Todo("purge", q, None, 0)>>, <<Todo("joining", q, None, 0)>>,
                     <<Todo("deinit", q, None, 0)>>, <<Todo("zero", q, None, 0)>>,
                     <<Todo("stopped", q, None, 0)>>, <<>>} : Continue(t, b, <<>>)
        \/ queue[q].delayed # <<>> /\ Continue(t, <<Notify(w)>>, todo[t])
    BY <1>9 DEF os_thread_join, os_thread_join_reap, os_thread_join_timeout,
                os_work_queue_stop_purge, os_work_queue_stop_deinit,
                os_work_queue_stop_zero, os_work_queue_stop_done
  <2>6. CASE queue[q].delayed # <<>> /\ Continue(t, <<Notify(w)>>, todo[t])
    <3>1. queue[q].delayed \in Seq(Works) /\ todo[t] \in Seq(Steps)
      BY <1>1, <2>3 DEF Types, QueueType
    <3>2. w \in Works
      BY <2>6, <3>1
    <3>3. <<Notify(w)>> \in Seq(Plain)
      BY <3>2, PlainSteps
    <3> QED BY <1>1, <2>2, <2>6, <3>1, <3>3, PlainEffect
  <2>7. ASSUME NEW b \in {<<Todo("purge", q, None, 0)>>, <<Todo("joining", q, None, 0)>>,
                          <<Todo("deinit", q, None, 0)>>, <<Todo("zero", q, None, 0)>>,
                          <<Todo("stopped", q, None, 0)>>, <<>>}, Continue(t, b, <<>>)
        PROVE  Moves(t) /\ CallEffect(t)
    <3>1. b \in Seq(Plain)
      BY <1>1, <2>4, <2>7 DEF Stopping
    <3> QED BY <1>1, <2>2, <2>7, <3>1, PlainEffect
  <2> QED BY <2>5, <2>6, <2>7
<1>10. CASE os_work_queue_stop_link(t)
  <2> PICK q : q = s.q
    OBVIOUS
  <2>1. /\ s.do = "stop" /\ ~At(t, "give") /\ ~At(t, "submit") /\ todo[t] # <<>>
        /\ At(t, "stop")
    BY <1>10 DEF os_work_queue_stop_link, At
  <2>2. q \in Queues
    BY <1>2, <2>1, StepFields DEF OnQueue, Stopping
  <2>3. \/ Continue(t, <<>>, <<>>)
        \/ Continue(t, <<Give(q)>>, <<Todo("join", q, None, 0)>>)
    BY <1>10 DEF os_work_queue_stop_link
  <2>4. CASE Continue(t, <<>>, <<>>)
    BY <1>1, <2>1, <2>4, PlainEffect
  <2>5. CASE Continue(t, <<Give(q)>>, <<Todo("join", q, None, 0)>>)
    <3>1. <<Todo("join", q, None, 0)>> \in Seq(Plain) /\ Give(q) \in Urgent
      BY <2>2, PlainSteps DEF Stopping, Urgent
    <3>2. Moves(t) /\ todo'[t] = <<Give(q)>> \o <<Todo("join", q, None, 0)>>
      BY <1>1, <2>5, ContinueMoves
    <3>3. \E u \in Urgent, b \in Seq(Plain) : todo'[t] = <<u>> \o b
      BY <3>1, <3>2
    <3> QED BY <2>1, <3>2, <3>3 DEF CallEffect
  <2> QED BY <2>3, <2>4, <2>5
<1> QED BY <1>3, <1>4, <1>6, <1>7, <1>8, <1>9, <1>10 DEF Proceed

\* What a worker does between two calls of its handlers.
LEMMA WorkerCalls ==
    ASSUME IInv, NEW q \in Queues, os_work_queue_entry(q)
    PROVE  UNCHANGED todo \/ (Moves(q) /\ CallEffect(q))
<1>1. Types /\ q \in Threads /\ <<>> \in Seq(Plain) /\ <<>> \in Seq(Steps) /\ Range(<<>>) = {}
  BY SmallRanges DEF IInv, Threads
<1>2. CASE os_work_promote_due(q)
  <2> PICK w : w = queue[q].delayed[First(Due(q))]
    OBVIOUS
  <2>1. w \in Works
    BY <1>1, <1>2, DueIsWork DEF os_work_promote_due
  <2>2. /\ todo[q] = <<>> /\ ~At(q, "give") /\ ~At(q, "submit")
        /\ Continue(q, <<Notify(w)>>, <<>>) \/ Continue(q, <<Submit(q, w)>>, <<>>)
    BY <1>2 DEF os_work_promote_due, Worker, At
  <2>3. CASE Continue(q, <<Notify(w)>>, <<>>)
    <3>1. <<Notify(w)>> \in Seq(Plain)
      BY <2>1, PlainSteps
    <3> QED BY <1>1, <2>2, <2>3, <3>1, PlainEffect
  <2>4. CASE Continue(q, <<Submit(q, w)>>, <<>>)
    <3>1. Submit(q, w) \in Urgent
      BY <2>1 DEF Urgent
    <3> QED BY <1>1, <2>2, <2>4, <3>1, UrgentEffect
  <2> QED BY <2>2, <2>3, <2>4
<1>3. CASE os_work_queue_finish(q)
  <2> PICK w : w = queue[q].current
    OBVIOUS
  <2>1. w \in Works
    BY <1>1, <1>3 DEF os_work_queue_finish, Worker, IInv, LifeCycle, WorkerAgrees, Types, QueueType
  <2>2. ~At(q, "give") /\ ~At(q, "submit") /\ Continue(q, <<Notify(w)>>, <<>>)
    BY <1>3 DEF os_work_queue_finish, Worker, At
  <2>3. <<Notify(w)>> \in Seq(Plain)
    BY <2>1, PlainSteps
  <2> QED BY <1>1, <2>2, <2>3, PlainEffect
<1>4. CASE ~os_work_promote_due(q) /\ ~os_work_queue_finish(q)
  BY <1>4 DEF os_work_queue_entry, os_work_promote_tick, os_work_promote_none,
      os_work_queue_take, os_work_queue_timeout, os_work_queue_pop_nothing,
      os_work_queue_pop_stop, os_work_queue_pop_work
<1> QED BY <1>2, <1>3, <1>4

LEMMA CallEffects ==
    ASSUME IInv, Next
    PROVE  \/ \A u \in Threads : todo'[u] = todo[u]
           \/ \E t \in Threads : Moves(t) /\ CallEffect(t)
<1>1. ASSUME NEW t \in Threads, Call(t) \/ Proceed(t)
      PROVE  Moves(t) /\ (todo'[t] = todo[t] \/ CallEffect(t))
  BY <1>1, NewCalls, OldCalls
<1>2. CASE \E t \in Threads : Call(t) \/ Proceed(t)
  BY <1>1, <1>2 DEF Moves
<1>3. ASSUME NEW q \in Queues, os_work_queue_entry(q)
      PROVE  UNCHANGED todo \/ (q \in Threads /\ Moves(q) /\ CallEffect(q))
  BY <1>3, WorkerCalls DEF Threads
<1>4. CASE Tick
  BY <1>4 DEF Tick
<1> QED BY <1>2, <1>3, <1>4 DEF Next
-----------------------------------------------------------------------------
(* Calls that take no submission back                                      *)

\* No thread and no handler cancels.
NeverCancels == Cancels \cap (Ops \cup HandlerOps) = {}

\* No step of a call takes a submission back.
Unrevoked == \A t \in Threads : \A s \in Range(todo[t]) : s.do \notin {"cancel", "trytake"}

LEMMA NothingRevokes ==
    ASSUME IInv, NeverCancels, Unrevoked
    PROVE  ~Revokes
<1>1. ASSUME NEW t \in Threads, NEW do, At(t, do) PROVE do \notin {"cancel", "trytake"}
  <2>1. Head(todo[t]) \in Range(todo[t]) /\ Head(todo[t]).do = do
    BY <1>1, HeadStep DEF IInv, At
  <2> QED BY <2>1 DEF Unrevoked
<1>2. ASSUME NEW t \in Threads, NEW op \in Cancels PROVE ~MayCall(t, op)
  BY <1>2 DEF NeverCancels, MayCall
<1> QED BY <1>1, <1>2 DEF Revokes

LEMMA UrgentSteps ==
    /\ \A q \in Queues : Give(q) \in Urgent
    /\ Urgent \subseteq Steps
    /\ \A s \in Urgent : s.do \in {"give", "submit"}
<1>1. Urgent \subseteq Steps
  BY QuietSteps DEF Urgent, Quiet
<1> QED BY <1>1 DEF Urgent, Give, Submit, Todo

LEMMA OneMoreStep ==
    ASSUME NEW S, NEW g \in S, NEW a \in Seq(S)
    PROVE  <<g>> \o a \in Seq(S) /\ Range(<<g>> \o a) = {g} \cup Range(a)
<1>1. PICK h : h = <<g>>
  OBVIOUS
<1>2. h \in Seq(S) /\ Range(h) = {g}
  BY <1>1, SmallRanges
<1>3. h \o a \in Seq(S) /\ Range(h \o a) = Range(h) \cup Range(a)
  BY <1>2, ConcatRange
<1> QED BY <1>1, <1>2, <1>3

\* Where the steps of a call come from.
LEMMA CallRange ==
    ASSUME Types, NEW t \in Threads, CallEffect(t)
    PROVE  Range(todo'[t]) \subseteq Range(todo[t]) \cup Plain \cup Urgent
<1>1. CASE At(t, "give") /\ todo'[t] = Tail(todo[t])
  BY <1>1, HeadStep DEF At
<1>2. CASE At(t, "submit") /\ todo'[t] = Tail(todo[t])
  BY <1>2, HeadStep DEF At
<1>3. ASSUME NEW q \in Queues, At(t, "submit"), todo'[t] = <<Give(q)>> \o Tail(todo[t])
      PROVE  Range(todo'[t]) \subseteq Range(todo[t]) \cup Plain \cup Urgent
  <2> PICK g : g = Give(q)
    OBVIOUS
  <2> PICK a : a = Tail(todo[t])
    OBVIOUS
  <2>1. g \in Urgent /\ g \in Steps
    BY UrgentSteps
  <2>2. a \in Seq(Steps) /\ Range(a) \subseteq Range(todo[t])
    BY <1>3, HeadStep DEF At
  <2>3. Range(<<g>> \o a) = {g} \cup Range(a)
    BY <2>1, <2>2, OneMoreStep
  <2> QED BY <1>3, <2>1, <2>2, <2>3
<1>4. CASE Range(todo'[t]) \subseteq Plain \cup Range(todo[t])
  BY <1>4
<1>5. ASSUME NEW a \in Seq(Urgent), NEW b \in Seq(Plain), todo'[t] = a \o b
      PROVE  Range(todo'[t]) \subseteq Range(todo[t]) \cup Plain \cup Urgent
  <2>1. a \in Seq(Steps) /\ b \in Seq(Steps) /\ Range(a) \subseteq Urgent /\ Range(b) \subseteq Plain
    BY UrgentSteps, PlainSeq DEF Range
  <2>2. Range(a \o b) = Range(a) \cup Range(b)
    BY <2>1, ConcatRange
  <2> QED BY <1>5, <2>1, <2>2
<1>6. ASSUME NEW s \in Urgent, NEW q \in Queues
      PROVE  <<s>> \in Seq(Urgent) /\ <<Give(q), s>> \in Seq(Urgent)
  BY UrgentSteps
<1>7. CASE \E a \in Seq(Urgent), b \in Seq(Plain) : todo'[t] = a \o b
  BY <1>5, <1>7
<1>8. ASSUME NEW s \in Urgent, NEW b \in Seq(Plain), NEW q \in Queues,
             todo'[t] = <<s>> \o b \/ todo'[t] = <<Give(q), s>> \o b
      PROVE  \E a \in Seq(Urgent), c \in Seq(Plain) : todo'[t] = a \o c
  BY <1>6, <1>8
<1>9. ASSUME NEW s \in Urgent, NEW b \in Seq(Plain), todo'[t] = <<s>> \o b
      PROVE  \E a \in Seq(Urgent), c \in Seq(Plain) : todo'[t] = a \o c
  <2>1. <<s>> \in Seq(Urgent)
    OBVIOUS
  <2> QED BY <1>9, <2>1
<1> QED BY <1>1, <1>2, <1>3, <1>4, <1>7, <1>8, <1>9 DEF CallEffect

LEMMA UnrevokedStep ==
    ASSUME IInv, Next, NeverCancels, Unrevoked
    PROVE  Unrevoked'
<1>1. ~Revokes /\ Types
  BY NothingRevokes DEF IInv
<1>2. \A s \in Plain \cup Urgent : s.do \notin {"cancel", "trytake"}
  BY <1>1, UrgentSteps DEF Plain
<1>3. ASSUME NEW t \in Threads, Moves(t), CallEffect(t) PROVE Unrevoked'
  <2>1. \A s \in Range(todo'[t]) : s.do \notin {"cancel", "trytake"}
    BY <1>1, <1>2, <1>3, CallRange DEF Unrevoked
  <2>2. ASSUME NEW u \in Threads PROVE u = t \/ todo'[u] = todo[u]
    BY <1>3 DEF Moves
  <2> QED BY <2>1, <2>2 DEF Unrevoked
<1>4. CASE \A u \in Threads : todo'[u] = todo[u]
  BY <1>4 DEF Unrevoked
<1> QED BY <1>3, <1>4, CallEffects

(***************************************************************************)
(* Every queued item has a token for the worker, for any number of queues, *)
(* threads and items and with handlers that submit, schedule and flush, as *)
(* long as nobody cancels: os_work_cancel takes an item off the list and   *)
(* its token back in two steps.                                            *)
(***************************************************************************)
THEOREM ItemsHaveTokens == NeverCancels => (Spec => []EveryItemHasAToken)
<1> SUFFICES ASSUME NeverCancels PROVE Spec => []EveryItemHasAToken
  OBVIOUS
<1> DEFINE Tokens == Unrevoked /\ \A q \in Queues : Counted(q) /\ HasTokens(q)
<1>1. Init => Tokens
  <2> SUFFICES ASSUME Init PROVE Tokens
    OBVIOUS
  <2>1. Unrevoked
    BY SmallRanges DEF Init, Unrevoked
  <2>2. ASSUME NEW q \in Queues PROVE Counted(q) /\ HasTokens(q)
    <3>1. queue[q] = NewQueue /\ Len(<<>>) = 0 /\ pc[q] = "tick" /\ 0 <= Limit
      BY BoundsAssumption DEF Init
    <3>2. Cardinality(Givers(q)) \in Nat
      BY GiversAreFinite
    <3>3. Counted(q)
      BY <3>1 DEF Counted, NewQueue
    <3> QED BY <3>1, <3>2, <3>3 DEF HasTokens, NewQueue
  <2> QED BY <2>1, <2>2
<1>2. Tokens /\ IInv /\ [Next]_vars => Tokens'
  <2>1. ASSUME Tokens, IInv, Next PROVE Tokens'
    <3>1. ~Revokes /\ Unrevoked'
      BY <2>1, NothingRevokes, UnrevokedStep
    <3>2. ASSUME NEW q \in Queues PROVE Counted(q)' /\ HasTokens(q)'
      <4>1. FifoEffect(q) /\ Counted(q) /\ HasTokens(q)
        BY <2>1, FifoEffects
      <4> QED BY <2>1, <3>1, <4>1, CountedStep, TokensStep
    <3> QED BY <3>1, <3>2
  <2>2. ASSUME Tokens, UNCHANGED vars PROVE Tokens'
    BY <2>2 DEF vars, Unrevoked, Counted, HasTokens, Givers, At
  <2> QED BY <2>1, <2>2
<1>3. Tokens => EveryItemHasAToken
  BY DEF HasTokens, EveryItemHasAToken
<1> QED BY Invariance, <1>1, <1>2, <1>3, PTL DEF Spec
-----------------------------------------------------------------------------
(* Ticks                                                                   *)

\* Division with remainder, for negative dividends too.
LEMMA ModProperties ==
    ASSUME NEW m \in Nat \ {0}, NEW a \in Int
    PROVE  \E x \in 0 .. m - 1, k \in Int : x = a % m /\ a = m * k + x
<1>1. a % m \in 0 .. m - 1
  OBVIOUS
<1>2. a \div m \in Int /\ a = m * (a \div m) + (a % m)
  OBVIOUS
<1> QED BY <1>1, <1>2

\* The remainder is the only one.
LEMMA ModUnique ==
    ASSUME NEW m \in Nat \ {0}, NEW j \in Int, NEW k \in Int,
           NEW x \in 0 .. m - 1, NEW y \in 0 .. m - 1, m * j + x = m * k + y
    PROVE  x = y
<1>1. m * (j - k) = y - x
  OBVIOUS
<1> PICK i \in Int : i = j - k
  OBVIOUS
<1>2. i >= 1 => m * i >= m
  OBVIOUS
<1>3. i <= -1 => m * i <= -m
  OBVIOUS
<1>4. i = 0
  BY <1>1, <1>2, <1>3
<1> QED BY <1>1, <1>4

LEMMA ModEqual ==
    ASSUME NEW m \in Nat \ {0}, NEW a \in Int, NEW x \in 0 .. m - 1, NEW k \in Int, a = m * k + x
    PROVE  a % m = x
<1>1. PICK y \in 0 .. m - 1, j \in Int : y = a % m /\ a = m * j + y
  BY ModProperties
<1>2. x = y
  BY <1>1, ModUnique
<1> QED BY <1>1, <1>2

\* A sum may be reduced early.
LEMMA ModAdd ==
    ASSUME NEW m \in Nat \ {0}, NEW a \in Int, NEW b \in Int
    PROVE  ((a % m) + b) % m = (a + b) % m
<1>1. PICK x \in 0 .. m - 1, j \in Int : x = a % m /\ a = m * j + x
  BY ModProperties
<1>2. x \in Int /\ x + b \in Int
  OBVIOUS
<1>3. PICK y \in 0 .. m - 1, k \in Int : y = (x + b) % m /\ x + b = m * k + y
  BY <1>2, ModProperties
<1>4. PICK i \in Int : i = j + k
  OBVIOUS
<1>5. m * i = m * j + m * k
  BY <1>4
<1>6. PICK c \in Int : c = a + b
  OBVIOUS
<1>7. PICK u \in Int, v \in Int, w \in Int : u = m * i /\ v = m * j /\ w = m * k
  OBVIOUS
<1>8. a = v + x
  BY <1>1, <1>7
<1>9. x + b = w + y
  BY <1>3, <1>7
<1>10. u = v + w
  BY <1>5, <1>7
<1>11. c = u + y
  BY ONLY <1>2, <1>6, <1>8, <1>9, <1>10, a \in Int, b \in Int, y \in 0 .. m - 1, m \in Nat,
          c \in Int, u \in Int, v \in Int, w \in Int
<1>12. c % m = y
  BY <1>7, <1>11, ModEqual
<1> QED BY <1>1, <1>3, <1>6, <1>12

LEMMA TickRange ==
    TickMod \in Nat \ {0} /\ INT32_MAX \in Nat /\ 2 * INT32_MAX + 2 <= TickMod /\ MaxLag \in Nat
BY TickModAssumption, BoundsAssumption DEF INT32_MAX
-----------------------------------------------------------------------------
(* What a step does to the timing of an item and to the place of a worker  *)

SameTime(o, r) == /\ "DELAYED" \in o.flags <=> "DELAYED" \in r.flags
                  /\ o.dqueue = r.dqueue /\ o.deadline = r.deadline /\ o.ttl = r.ttl

Untimed(o, r) == "DELAYED" \notin o.flags /\ o.ttl = 0 /\ o.deadline = r.deadline

\* A schedule call delays w and is going to wake the worker.
Timed(w) == \E t \in Threads, d \in Delays :
    /\ "DELAYED" \in work'[w].flags /\ work'[w].ttl = d
    /\ work'[w].deadline = (now + d) % TickMod
    /\ Give(work'[w].dqueue) \in Range(todo'[t])

TimeEffect(w) == \/ SameTime(work'[w], work[w]) \/ Untimed(work'[w], work[w]) \/ Timed(w)

LEMMA TimeOf ==
    ASSUME Types, NEW w \in Works, NEW x, NEW o, work' = [work EXCEPT ![x] = o],
           w = x => SameTime(o, work[w]) \/ Untimed(o, work[w])
    PROVE  TimeEffect(w)
<1>1. CASE w = x
  <2>1. work'[w] = o
    BY <1>1 DEF Types
  <2> QED BY <1>1, <2>1 DEF TimeEffect
<1>2. CASE w # x
  <2>1. work'[w] = work[w]
    BY <1>2 DEF Types
  <2> QED BY <2>1 DEF TimeEffect, SameTime
<1> QED BY <1>1, <1>2

\* An item leaves the delayed list.
LEMMA LeavesTime ==
    ASSUME Types, NEW w \in Works, NEW x,
           work' = [work EXCEPT ![x].flags = @ \ {"DELAYED"}, ![x].ttl = 0]
    PROVE  TimeEffect(w)
<1> PICK o : o = [work[x] EXCEPT !.flags = work[x].flags \ {"DELAYED"}, !.ttl = 0]
  OBVIOUS
<1>1. work' = [work EXCEPT ![x] = o]
  OBVIOUS
<1>2. w = x => Untimed(o, work[w])
  BY DEF Types, WorkType, Untimed
<1> QED BY <1>1, <1>2, TimeOf

LEMMA ScheduleTime ==
    ASSUME IInv, NEW t \in Threads, NEW q \in Queues, NEW x \in Works, NEW d \in Delays,
           NEW re \in BOOLEAN, os_work_schedule_common(t, q, x, d, re), NEW w \in Works
    PROVE  TimeEffect(w)
<1>1. Types /\ Items /\ work[w] \in WorkType
  BY DEF IInv, Types
<1>2. CASE d = 0
  BY <1>1, <1>2, LeavesTime DEF os_work_schedule_common
<1>3. CASE d # 0
  <2> PICK dl : dl = (now + d) % TickMod
    OBVIOUS
  <2> PICK f : f = work[x].flags \cup {"DELAYED"}
    OBVIOUS
  <2> PICK o : o = [work[x] EXCEPT !.flags = f, !.dqueue = q, !.deadline = dl, !.ttl = d]
    OBVIOUS
  <2>1. work' = [work EXCEPT ![x] = o]
    BY <1>3 DEF os_work_schedule_common
  <2>2. CASE w = x
    <3>1. work'[w] = o
      BY <1>1, <2>1, <2>2 DEF Types
    <3>2. o.flags = f /\ o.dqueue = q /\ o.deadline = dl /\ o.ttl = d
      BY <1>1, <2>2 DEF WorkType
    <3>3. Give(q) \in Range(todo'[t])
      <4> PICK old : old = work[x].dqueue
        OBVIOUS
      <4> PICK a : a = IF "DELAYED" \in Flags(x) /\ (d = 0 \/ old # q) THEN <<Give(old)>> ELSE <<>>
        OBVIOUS
      <4>1. "DELAYED" \in Flags(x) => old \in Queues
        BY <1>1 DEF Items, ItemSound
      <4>2. a \in Seq(Steps) /\ <<Give(q)>> \in Seq(Steps)
        BY <4>1, QuietSteps DEF Quiet
      <4>3. Continue(t, a, <<Give(q)>>)
        BY <1>3 DEF os_work_schedule_common
      <4>4. Range(todo'[t]) = Range(a) \cup Range(<<Give(q)>>)
        BY <1>1, <4>2, <4>3, ContinueStep
      <4> QED BY <4>4, SmallRanges
    <3> QED BY <3>1, <3>2, <3>3 DEF TimeEffect, Timed
  <2>3. CASE w # x
    BY <1>1, <2>1, <2>3, TimeOf
  <2> QED BY <2>2, <2>3
<1> QED BY <1>2, <1>3

LEMMA TimeEffects ==
    ASSUME IInv, Next, ~Tick, NEW w \in Works
    PROVE  TimeEffect(w)
<1>1. Types /\ work[w] \in WorkType
  BY DEF IInv, Types
<1>2. ASSUME UNCHANGED work PROVE TimeEffect(w)
  BY <1>2 DEF TimeEffect, SameTime
<1>3. ASSUME NEW t, NEW q, NEW x, NEW rest, Enqueue(t, q, x, rest) PROVE TimeEffect(w)
  <2> PICK v : v = [work[x] EXCEPT !.submission_id = work[x].submission_id + 1, !.queue = q,
                                   !.flags = work[x].flags \cup {"QUEUED"}]
    OBVIOUS
  <2>1. UNCHANGED work \/ work' = [work EXCEPT ![x] = v]
    BY <1>3 DEF Enqueue
  <2>2. w = x => SameTime(v, work[w])
    BY <1>1 DEF WorkType, SameTime
  <2> QED BY <1>1, <1>2, <2>1, <2>2, TimeOf
<1>4. ASSUME NEW t, NEW x, NEW rest, Cancel(t, x, rest) PROVE TimeEffect(w)
  <2> PICK f : f = IF "RUNNING" \in Flags(x) THEN (work[x].flags \ {"QUEUED"}) \cup {"CANCELING"}
                                             ELSE work[x].flags \ {"QUEUED", "CANCELING"}
    OBVIOUS
  <2> PICK n : n = IF "RUNNING" \in Flags(x) THEN work[x].completion_id
                                             ELSE work[x].submission_id
    OBVIOUS
  <2> PICK v : v = [work[x] EXCEPT !.flags = f, !.completion_id = n]
    OBVIOUS
  <2>1. work' = [work EXCEPT ![x] = v]
    BY <1>4 DEF Cancel
  <2>2. "DELAYED" \in f <=> "DELAYED" \in work[x].flags
    OBVIOUS
  <2>3. w = x => SameTime(v, work[w])
    BY <1>1, <2>2 DEF WorkType, SameTime
  <2> QED BY <1>1, <2>1, <2>3, TimeOf
<1>5. ASSUME NEW t \in Threads, Call(t) PROVE TimeEffect(w)
  <2>1. ASSUME NEW x \in Works, NEW q \in Queues, os_work_submit_to_queue(t, q, x)
        PROVE  TimeEffect(w)
    BY <1>3, <2>1 DEF os_work_submit_to_queue
  <2>2. ASSUME NEW x \in Works, os_work_cancel(t, x) \/ os_work_cancel_sync(t, x)
        PROVE  TimeEffect(w)
    BY <1>4, <2>2 DEF os_work_cancel, os_work_cancel_sync
  <2>3. ASSUME NEW x \in Works, os_work_flush(t, x) PROVE TimeEffect(w)
    BY <1>2, <2>3 DEF os_work_flush
  <2>4. ASSUME NEW x \in Works, os_work_flush_delayable(t, x) PROVE TimeEffect(w)
    BY <1>1, <2>4, LeavesTime DEF os_work_flush_delayable
  <2>5. ASSUME NEW x \in Works, NEW sync \in BOOLEAN, os_work_cancel_delayable(t, x, sync)
        PROVE  TimeEffect(w)
    BY <1>1, <2>5, LeavesTime DEF os_work_cancel_delayable
  <2>6. ASSUME NEW x \in Works, NEW q \in Queues, NEW d \in Delays, NEW re \in BOOLEAN,
               os_work_schedule_common(t, q, x, d, re)
        PROVE  TimeEffect(w)
    BY <2>6, ScheduleTime
  <2>7. ASSUME NEW q \in Queues, NEW plug \in BOOLEAN,
               \/ os_work_queue_start(t, q) \/ os_work_queue_stop(t, q)
               \/ os_work_queue_unplug(t, q) \/ os_work_queue_drain(t, q, plug)
        PROVE  TimeEffect(w)
    BY <1>2, <2>7 DEF os_work_queue_start, os_work_queue_stop, os_work_queue_unplug,
                      os_work_queue_drain
  <2> QED BY <1>5, <2>1, <2>2, <2>3, <2>4, <2>5, <2>6, <2>7 DEF Call
<1>6. ASSUME NEW t \in Threads, Proceed(t) PROVE TimeEffect(w)
  <2>1. CASE os_work_notify(t) \/ os_sem_take_sync(t)
    <3> PICK x : x = Head(todo[t]).w
      OBVIOUS
    <3>1. PICK n \in {0, 1} : work' = [work EXCEPT ![x].sync = n]
      BY <2>1 DEF os_work_notify, os_sem_take_sync
    <3> PICK v : v = [work[x] EXCEPT !.sync = n]
      OBVIOUS
    <3>2. work' = [work EXCEPT ![x] = v]
      BY <3>1
    <3>3. w = x => SameTime(v, work[w])
      BY <1>1 DEF WorkType, SameTime
    <3> QED BY <1>1, <3>2, <3>3, TimeOf
  <2>2. CASE os_work_submit_nested(t)
    BY <1>3, <2>2 DEF os_work_submit_nested
  <2>3. CASE os_work_cancel_nested(t)
    BY <1>4, <2>3 DEF os_work_cancel_nested
  <2>4. CASE os_work_queue_stop_purge(t)
    <3>1. UNCHANGED work \/ \E x : work' = [work EXCEPT ![x].flags = @ \ {"DELAYED"}, ![x].ttl = 0]
      BY <2>4 DEF os_work_queue_stop_purge
    <3> QED BY <1>1, <1>2, <3>1, LeavesTime
  <2>5. CASE \/ os_sem_give_items(t) \/ os_sem_trytake_items(t)
             \/ os_work_flush_nested(t) \/ os_work_check_idle(t) \/ os_work_check_done(t)
             \/ os_work_queue_poll(t) \/ os_thread_join(t) \/ os_thread_join_reap(t)
             \/ os_thread_join_timeout(t) \/ os_work_queue_stop_link(t)
             \/ os_work_queue_stop_deinit(t) \/ os_work_queue_stop_zero(t)
             \/ os_work_queue_stop_done(t)
    <3>1. UNCHANGED work
      BY <2>5 DEF os_sem_give_items, os_sem_trytake_items, os_work_flush_nested,
            os_work_check_idle, os_work_check_done, os_work_queue_poll, os_thread_join,
            os_thread_join_reap, os_thread_join_timeout, os_work_queue_stop_link,
            os_work_queue_stop_deinit, os_work_queue_stop_zero, os_work_queue_stop_done
    <3> QED BY <1>2, <3>1
  <2> QED BY <1>6, <2>1, <2>2, <2>3, <2>4, <2>5 DEF Proceed
<1>7. ASSUME NEW q \in Queues, os_work_queue_entry(q) PROVE TimeEffect(w)
  <2>1. CASE os_work_promote_due(q)
    BY <1>1, <2>1, LeavesTime DEF os_work_promote_due
  <2>2. CASE os_work_queue_finish(q)
    <3> PICK x : x = queue[q].current
      OBVIOUS
    <3> PICK v : v = [work[x] EXCEPT !.completion_id = work[x].running_id,
                                     !.flags = work[x].flags \ {"RUNNING", "CANCELING"}]
      OBVIOUS
    <3>1. work' = [work EXCEPT ![x] = v]
      BY <2>2 DEF os_work_queue_finish, FinishedFlags, Flags
    <3>2. w = x => SameTime(v, work[w])
      BY <1>1 DEF WorkType, SameTime
    <3> QED BY <1>1, <3>1, <3>2, TimeOf
  <2>3. CASE os_work_queue_pop_work(q)
    <3> PICK x : x = Head(queue[q].list)
      OBVIOUS
    <3> PICK v : v = [work[x] EXCEPT !.flags = (work[x].flags \ {"QUEUED"}) \cup {"RUNNING"},
                                     !.running_id = work[x].submission_id]
      OBVIOUS
    <3>1. work' = [work EXCEPT ![x] = v]
      BY <2>3 DEF os_work_queue_pop_work
    <3>2. w = x => SameTime(v, work[w])
      BY <1>1 DEF WorkType, SameTime
    <3> QED BY <1>1, <3>1, <3>2, TimeOf
  <2>4. CASE \/ os_work_promote_tick(q) \/ os_work_promote_none(q) \/ os_work_queue_take(q)
             \/ os_work_queue_timeout(q) \/ os_work_queue_pop_nothing(q)
             \/ os_work_queue_pop_stop(q)
    <3>1. UNCHANGED work
      BY <2>4 DEF os_work_promote_tick, os_work_promote_none, os_work_queue_take,
            os_work_queue_timeout, os_work_queue_pop_nothing, os_work_queue_pop_stop
    <3> QED BY <1>2, <3>1
  <2> QED BY <1>7, <2>1, <2>2, <2>3, <2>4 DEF os_work_queue_entry
<1> QED BY <1>5, <1>6, <1>7 DEF Next

\* The worker of p stays, reads the tick, or goes where it neither holds a tick
\* nor sleeps; or it finds nothing due and goes to sleep.
Stays(p)  == pc'[p] = pc[p] /\ tick'[p] = tick[p] /\ left'[p] = left[p]
Reads(p)  == pc'[p] = "promote" /\ tick'[p] = now /\ left'[p] = left[p]
Leaves(p) == /\ pc'[p] \notin {"promote", "take"}
             /\ tick'[p] \in {tick[p], 0} /\ left'[p] \in {left[p], 0}
             /\ pc[p] = "promote" => os_work_promote_due(p)

PlaceEffect(p) == Stays(p) \/ Reads(p) \/ Leaves(p) \/ os_work_promote_none(p)

LEMMA PlaceOf ==
    ASSUME Types, NEW S, NEW R, tick \in [Queues -> S], left \in [Queues -> R], NEW q \in Queues,
           NEW at, pc' = [pc EXCEPT ![q] = at], at \notin {"promote", "take"},
           pc[q] = "promote" => os_work_promote_due(q),
           UNCHANGED tick \/ tick' = [tick EXCEPT ![q] = 0],
           UNCHANGED left \/ left' = [left EXCEPT ![q] = 0], NEW p \in Queues
    PROVE  PlaceEffect(p)
<1>1. CASE p = q
  <2>1. pc'[p] = at
    BY <1>1 DEF Types
  <2>2. tick'[p] \in {tick[p], 0} /\ left'[p] \in {left[p], 0}
    BY <1>1
  <2> QED BY <1>1, <2>1, <2>2 DEF PlaceEffect, Leaves
<1>2. CASE p # q
  <2>1. pc'[p] = pc[p] /\ tick'[p] = tick[p] /\ left'[p] = left[p]
    BY <1>2 DEF Types
  <2> QED BY <2>1 DEF PlaceEffect, Stays
<1> QED BY <1>1, <1>2

LEMMA PlaceEffects ==
    ASSUME IInv, NEW S, NEW R, tick \in [Queues -> S], left \in [Queues -> R], Next, ~Tick
    PROVE  /\ now' = now /\ \A p \in Queues : PlaceEffect(p)
           /\ tick' = [p \in Queues |-> tick'[p]] /\ left' = [p \in Queues |-> left'[p]]
<1>1. Types /\ LifeCycle
  BY DEF IInv
<1> DEFINE Goal == /\ now' = now /\ \A p \in Queues : PlaceEffect(p)
                   /\ tick' = [p \in Queues |-> tick'[p]] /\ left' = [p \in Queues |-> left'[p]]
<1>2. ASSUME UNCHANGED <<pc, tick, left, now>> PROVE Goal
  BY <1>2 DEF PlaceEffect, Stays
<1>3. ASSUME NEW t \in Threads, Call(t) PROVE Goal
  <2>1. ASSUME NEW q \in Queues, os_work_queue_start(t, q) PROVE Goal
    <3>1. pc[q] # "promote"
      BY <1>1, <2>1 DEF LifeCycle, DownIsQuiet, WorkerAgrees, os_work_queue_start
    <3>2. pc' = [pc EXCEPT ![q] = "tick"] /\ UNCHANGED <<tick, left, now>>
      BY <2>1 DEF os_work_queue_start
    <3>3. \A p \in Queues : PlaceEffect(p)
      BY <1>1, <3>1, <3>2, PlaceOf
    <3> QED BY <3>2, <3>3
  <2>2. ASSUME NEW w \in Works, NEW b \in BOOLEAN,
               \/ \E q \in Queues : os_work_submit_to_queue(t, q, w)
               \/ os_work_cancel(t, w) \/ os_work_cancel_sync(t, w) \/ os_work_flush(t, w)
               \/ os_work_flush_delayable(t, w) \/ os_work_cancel_delayable(t, w, b)
        PROVE  Goal
    <3>1. UNCHANGED <<pc, tick, left, now>>
      BY <2>2 DEF os_work_submit_to_queue, Enqueue, os_work_cancel, os_work_cancel_sync,
         Cancel, os_work_flush, os_work_flush_delayable, os_work_cancel_delayable
    <3> QED BY <1>2, <3>1
  <2>3. ASSUME NEW w \in Works, NEW q \in Queues, NEW d \in Delays, NEW re \in BOOLEAN,
               os_work_schedule_common(t, q, w, d, re)
        PROVE  Goal
    BY <1>2, <2>3 DEF os_work_schedule_common
  <2>4. ASSUME NEW q \in Queues, NEW b \in BOOLEAN,
               \/ os_work_queue_stop(t, q) \/ os_work_queue_unplug(t, q)
               \/ os_work_queue_drain(t, q, b)
        PROVE  Goal
    BY <1>2, <2>4 DEF os_work_queue_stop, os_work_queue_unplug, os_work_queue_drain
  <2> QED BY <1>3, <2>1, <2>2, <2>3, <2>4, TRUE \in BOOLEAN DEF Call
<1>4. ASSUME NEW t \in Threads, Proceed(t) PROVE Goal
  <2>1. UNCHANGED <<pc, tick, left, now>>
    BY <1>4 DEF Proceed, os_sem_give_items, os_sem_trytake_items, os_work_notify,
       os_sem_take_sync, os_work_submit_nested, Enqueue, os_work_cancel_nested, Cancel,
       os_work_flush_nested, os_work_check_idle, os_work_check_done, os_work_queue_poll,
       os_thread_join, os_thread_join_reap, os_thread_join_timeout,
       os_work_queue_stop_link, os_work_queue_stop_purge, os_work_queue_stop_deinit,
       os_work_queue_stop_zero, os_work_queue_stop_done
  <2> QED BY <1>2, <2>1
<1>5. ASSUME NEW q \in Queues, os_work_queue_entry(q) PROVE Goal
  <2>1. CASE os_work_promote_tick(q)
    <3>1. /\ tick' = [tick EXCEPT ![q] = now] /\ pc' = [pc EXCEPT ![q] = "promote"]
          /\ UNCHANGED <<left, now>>
      BY <2>1 DEF os_work_promote_tick
    <3>2. ASSUME NEW p \in Queues PROVE PlaceEffect(p)
      <4>1. CASE p = q
        BY <1>1, <3>1, <4>1 DEF Types, PlaceEffect, Reads
      <4>2. CASE p # q
        BY <1>1, <3>1, <4>2 DEF Types, PlaceEffect, Stays
      <4> QED BY <4>1, <4>2
    <3> QED BY <3>1, <3>2
  <2>2. CASE os_work_promote_none(q)
    <3>1. /\ tick' = [tick EXCEPT ![q] = 0] /\ pc' = [pc EXCEPT ![q] = "take"]
          /\ left' = [left EXCEPT ![q] = Nearest(q)] /\ now' = now
      BY <2>2 DEF os_work_promote_none
    <3>2. ASSUME NEW p \in Queues PROVE PlaceEffect(p)
      <4>1. CASE p = q
        BY <2>2, <4>1 DEF PlaceEffect
      <4>2. CASE p # q
        BY <1>1, <3>1, <4>2 DEF Types, PlaceEffect, Stays
      <4> QED BY <4>1, <4>2
    <3> QED BY <3>1, <3>2
  <2>3. CASE ~os_work_promote_tick(q) /\ ~os_work_promote_none(q)
    <3>1. PICK at \in {"tick", "pop", "none", "handler"} : pc' = [pc EXCEPT ![q] = at]
      BY <1>5, <2>3 DEF os_work_queue_entry, os_work_promote_due, os_work_queue_take,
         os_work_queue_timeout, os_work_queue_pop_nothing, os_work_queue_pop_stop,
         os_work_queue_pop_work, os_work_queue_finish
    <3>2. /\ UNCHANGED tick \/ tick' = [tick EXCEPT ![q] = 0]
          /\ UNCHANGED left \/ left' = [left EXCEPT ![q] = 0]
          /\ now' = now
          /\ pc[q] = "promote" => os_work_promote_due(q)
      BY <1>5, <2>3 DEF os_work_queue_entry, os_work_promote_due, os_work_queue_take,
         os_work_queue_timeout, os_work_queue_pop_nothing, os_work_queue_pop_stop,
         os_work_queue_pop_work, os_work_queue_finish, Worker
    <3>3. \A p \in Queues : PlaceEffect(p)
      BY <1>1, <3>1, <3>2, PlaceOf
    <3>4. tick' = [p \in Queues |-> tick'[p]] /\ left' = [p \in Queues |-> left'[p]]
      BY <3>2
    <3> QED BY <3>2, <3>3, <3>4
  <2> QED BY <2>1, <2>2, <2>3
<1> QED BY <1>3, <1>4, <1>5 DEF Next
-----------------------------------------------------------------------------
(* Deadlines                                                               *)

\* No delay is so long that a late worker mistakes it for one that has passed.
DelaysFit == \A d \in Delays \cup {0} : d + MaxLag <= INT32_MAX

Clock == /\ tick \in [Queues -> 0 .. TickMod - 1] /\ left \in [Queues -> 0 .. TickMod]
         /\ now \in 0 .. TickMod - 1
         /\ \A w \in Works : /\ work[w].deadline \in 0 .. TickMod - 1
                             /\ work[w].ttl \in -MaxLag .. INT32_MAX

\* A deadline is where the ticks that are left of the delay lead.
InTime(w) == "DELAYED" \in Flags(w) => /\ work[w].deadline = (now + work[w].ttl) % TickMod
                                       /\ work[w].ttl + MaxLag <= INT32_MAX

\* The tick that a worker holds is not old.
Fresh(q) == pc[q] = "promote" => (now - tick[q]) % TickMod <= MaxLag

Timely == /\ \A w \in Works : InTime(w)
          /\ \A q \in Queues : Fresh(q)

LEMMA ModRange ==
    ASSUME NEW a \in Int
    PROVE  a % TickMod \in 0 .. TickMod - 1
<1>1. PICK m \in Nat \ {0} : m = TickMod
  BY TickRange
<1>2. a % m \in 0 .. m - 1
  BY ModProperties
<1> QED BY <1>1, <1>2

LEMMA NearestIs ==
    ASSUME IInv, Clock, NEW q \in Queues
    PROVE  /\ Nearest(q) \in 0 .. TickMod
           /\ \A i \in DOMAIN queue[q].delayed : Nearest(q) <= RemainingOf(q, i)
<1>1. queue[q].delayed \in Seq(Works) /\ tick[q] \in Int
  BY DEF IInv, Types, QueueType, Clock
<1>2. ASSUME NEW i \in DOMAIN queue[q].delayed PROVE RemainingOf(q, i) \in Nat
  <2>1. queue[q].delayed[i] \in Works
    BY <1>1
  <2> PICK d : d = work[queue[q].delayed[i]].deadline - tick[q]
    OBVIOUS
  <2>2. d \in Int
    BY <1>1, <2>1 DEF Clock
  <2>3. d % TickMod \in Nat
    BY <2>2, ModRange, TickRange
  <2> QED BY <2>3 DEF RemainingOf, Remaining
<1> PICK T : T = {RemainingOf(q, i) : i \in DOMAIN queue[q].delayed} \cup {Forever}
  OBVIOUS
<1>3. Forever \in Nat /\ Forever = TickMod
  BY TickRange DEF Forever
<1>4. T \subseteq Nat /\ T # {} /\ Forever \in T
  BY <1>2, <1>3
<1>5. First(T) \in T /\ \A y \in T : First(T) <= y
  BY <1>4, FirstIsMember
<1>6. Nearest(q) = First(T)
  BY DEF Nearest
<1>7. First(T) \in Nat /\ First(T) <= TickMod
  BY <1>3, <1>4, <1>5
<1>8. \A i \in DOMAIN queue[q].delayed : First(T) <= RemainingOf(q, i)
  BY <1>5
<1> QED BY <1>3, <1>6, <1>7, <1>8

LEMMA ClockInit == Init => Clock /\ Timely
<1> SUFFICES ASSUME Init PROVE Clock /\ Timely
  OBVIOUS
<1>1. 0 \in 0 .. TickMod - 1 /\ 0 \in 0 .. TickMod /\ 0 \in -MaxLag .. INT32_MAX
  BY TickRange
<1>2. ASSUME NEW w \in Works
      PROVE  work[w].flags = {} /\ work[w].deadline = 0 /\ work[w].ttl = 0
  BY DEF Init
<1>3. Clock
  BY <1>1, <1>2 DEF Init, Clock
<1>4. ASSUME NEW w \in Works PROVE InTime(w)
  BY <1>2 DEF InTime, Flags
<1>5. ASSUME NEW q \in Queues PROVE Fresh(q)
  BY DEF Init, Fresh
<1> QED BY <1>3, <1>4, <1>5 DEF Timely

\* One tick, for one item.
LEMMA TickItem ==
    ASSUME Types, Tick, NEW w \in Works
    PROVE  /\ work'[w].flags = work[w].flags /\ work'[w].deadline = work[w].deadline
           /\ work'[w].dqueue = work[w].dqueue
           /\ "DELAYED" \in Flags(w) => work'[w].ttl = work[w].ttl - 1 /\ work[w].ttl > -MaxLag
           /\ "DELAYED" \notin Flags(w) => work'[w].ttl = work[w].ttl
<1>1. work[w] \in WorkType
  BY DEF Types
<1> PICK n : n = work[w].ttl - 1
  OBVIOUS
<1>2. CASE "DELAYED" \in Flags(w)
  <2>1. work'[w] = [work[w] EXCEPT !.ttl = n] /\ work[w].ttl > -MaxLag
    BY <1>2 DEF Tick
  <2> QED BY <1>1, <1>2, <2>1 DEF WorkType
<1>3. CASE "DELAYED" \notin Flags(w)
  <2>1. work'[w] = work[w]
    BY <1>3 DEF Tick
  <2> QED BY <1>3, <2>1
<1> QED BY <1>2, <1>3

LEMMA ClockStep ==
    ASSUME IInv, Clock, Next
    PROVE  Clock'
<1>1. Types
  BY DEF IInv
<1>2. CASE Tick
  <2>1. now' \in 0 .. TickMod - 1
    <3>1. now' = (now + 1) % TickMod /\ now + 1 \in Int
      BY <1>2 DEF Tick, Clock
    <3> QED BY <3>1, ModRange
  <2>2. tick' = tick /\ left' = [q \in Queues |-> IF left[q] \in 1 .. INT32_MAX
                                                 THEN left[q] - 1 ELSE left[q]]
    BY <1>2 DEF Tick
  <2>3. left' \in [Queues -> 0 .. TickMod]
    BY <2>2, TickRange DEF Clock
  <2>4. ASSUME NEW w \in Works
        PROVE  work'[w].deadline \in 0 .. TickMod - 1 /\ work'[w].ttl \in -MaxLag .. INT32_MAX
    <3>1. /\ work[w].deadline \in 0 .. TickMod - 1 /\ work[w].ttl \in -MaxLag .. INT32_MAX
          /\ MaxLag \in Nat /\ INT32_MAX \in Nat
      BY TickRange DEF Clock
    <3>2. /\ work'[w].deadline = work[w].deadline
          /\ \/ work'[w].ttl = work[w].ttl - 1 /\ work[w].ttl > -MaxLag
             \/ work'[w].ttl = work[w].ttl
      BY <1>1, <1>2, TickItem
    <3> QED BY <3>1, <3>2
  <2> QED BY <2>1, <2>2, <2>3, <2>4 DEF Clock
<1>3. CASE ~Tick
  <2>1. /\ tick \in [Queues -> 0 .. TickMod - 1] /\ left \in [Queues -> 0 .. TickMod]
        /\ now \in 0 .. TickMod - 1 /\ 0 \in 0 .. TickMod - 1 /\ 0 \in 0 .. TickMod
        /\ 0 \in -MaxLag .. INT32_MAX
    BY TickRange DEF Clock
  <2>2. /\ now' = now /\ \A p \in Queues : PlaceEffect(p)
        /\ tick' = [p \in Queues |-> tick'[p]] /\ left' = [p \in Queues |-> left'[p]]
    BY <1>3, <2>1, PlaceEffects
  <2>3. ASSUME NEW p \in Queues
        PROVE  tick'[p] \in 0 .. TickMod - 1 /\ left'[p] \in 0 .. TickMod
    <3>1. CASE os_work_promote_none(p)
      <4>1. tick'[p] = 0 /\ left'[p] = Nearest(p)
        BY <2>1, <3>1 DEF os_work_promote_none
      <4> QED BY <2>1, <4>1, NearestIs
    <3>2. CASE Stays(p) \/ Reads(p) \/ Leaves(p)
      <4>1. tick'[p] \in {tick[p], now, 0} /\ left'[p] \in {left[p], 0}
        BY <3>2 DEF Stays, Reads, Leaves
      <4> QED BY <2>1, <4>1
    <3> QED BY <2>2, <3>1, <3>2 DEF PlaceEffect
  <2>4. ASSUME NEW w \in Works
        PROVE  work'[w].deadline \in 0 .. TickMod - 1 /\ work'[w].ttl \in -MaxLag .. INT32_MAX
    <3>1. work[w].deadline \in 0 .. TickMod - 1 /\ work[w].ttl \in -MaxLag .. INT32_MAX
      BY DEF Clock
    <3>2. CASE SameTime(work'[w], work[w]) \/ Untimed(work'[w], work[w])
      <4>1. work'[w].deadline = work[w].deadline /\ work'[w].ttl \in {work[w].ttl, 0}
        BY <3>2 DEF SameTime, Untimed
      <4> QED BY <2>1, <3>1, <4>1
    <3>3. CASE Timed(w)
      <4>1. PICK d \in Delays : work'[w].deadline = (now + d) % TickMod /\ work'[w].ttl = d
        BY <3>3 DEF Timed
      <4>2. d \in 0 .. INT32_MAX /\ now + d \in Int /\ MaxLag \in Nat /\ INT32_MAX \in Nat
        BY <2>1, DelaysAssumption, TickRange
      <4>3. d \in -MaxLag .. INT32_MAX
        BY <4>2
      <4> QED BY <4>1, <4>2, <4>3, ModRange
    <3> QED BY <1>3, <3>2, <3>3, TimeEffects DEF TimeEffect
  <2>5. tick' \in [Queues -> 0 .. TickMod - 1] /\ left' \in [Queues -> 0 .. TickMod]
    BY <2>2, <2>3
  <2> QED BY <2>1, <2>2, <2>4, <2>5 DEF Clock
<1> QED BY <1>2, <1>3

\* One tick brings a deadline nearer and makes a tick that was read older.
LEMMA TickMoves ==
    ASSUME NEW n \in 0 .. TickMod - 1, NEW at \in Int, NEW ttl \in Int
    PROVE  /\ (((n + 1) % TickMod) + (ttl - 1)) % TickMod = (n + ttl) % TickMod
           /\ (((n + 1) % TickMod) - at) % TickMod <= ((n - at) % TickMod) + 1
<1>1. PICK M \in Nat \ {0} : M = TickMod
  BY TickRange
<1>2. PICK b \in Int : b = n + 1
  BY <1>1
<1>3. ((b % M) + (ttl - 1)) % M = (b + (ttl - 1)) % M
  BY ttl - 1 \in Int, ModAdd
<1>4. b + (ttl - 1) = n + ttl
  BY <1>1, <1>2
<1>5. PICK c \in 0 .. M - 1, j \in Int : c = b % M
  BY ModProperties
<1>6. ((b % M) + (-at)) % M = (b + (-at)) % M
  BY -at \in Int, ModAdd
<1>7. PICK x \in Int : x = n - at
  BY <1>1
<1>8. c + (-at) = c - at /\ b + (-at) = x + 1
  BY <1>1, <1>2, <1>5, <1>7
<1>9. (c - at) % M = (x + 1) % M
  BY <1>5, <1>6, <1>8
<1>10. ((x % M) + 1) % M = (x + 1) % M
  <2>1. PICK u \in Int : u = 1
    OBVIOUS
  <2>2. ((x % M) + u) % M = (x + u) % M
    BY ModAdd
  <2> QED BY <2>1, <2>2
<1>11. PICK y \in 0 .. M - 1, k \in Int : y = x % M
  BY ModProperties
<1>12. (y + 1) % M <= y + 1
  <2>1. CASE y + 1 <= M - 1
    <3>1. y + 1 \in 0 .. M - 1 /\ y + 1 = M * 0 + (y + 1)
      BY <2>1
    <3>2. (y + 1) % M = y + 1
      BY <3>1, ModEqual
    <3> QED BY <3>2
  <2>2. CASE y + 1 = M
    <3>1. 0 \in 0 .. M - 1 /\ y + 1 = M * 1 + 0
      BY <2>2
    <3>2. (y + 1) % M = 0
      BY <3>1, ModEqual
    <3> QED BY <3>2
  <2> QED BY <2>1, <2>2
<1>13. (c - at) % M <= (x % M) + 1
  BY <1>9, <1>10, <1>11, <1>12
<1> QED BY <1>1, <1>2, <1>3, <1>4, <1>5, <1>7, <1>13

LEMMA TimelyStep ==
    ASSUME IInv, Clock, Timely, DelaysFit, Next
    PROVE  Timely'
<1>1. Types /\ now \in 0 .. TickMod - 1
  BY DEF IInv, Clock
<1>2. CASE Tick
  <2>1. now' = (now + 1) % TickMod /\ UNCHANGED <<pc, tick>>
    BY <1>2 DEF Tick
  <2>2. ASSUME NEW w \in Works PROVE InTime(w)'
    <3>1. /\ work'[w].flags = work[w].flags /\ work'[w].deadline = work[w].deadline
          /\ "DELAYED" \in Flags(w) => work'[w].ttl = work[w].ttl - 1
      BY <1>1, <1>2, TickItem
    <3> SUFFICES ASSUME "DELAYED" \in Flags(w)
                 PROVE  /\ work'[w].deadline = (now' + work'[w].ttl) % TickMod
                        /\ work'[w].ttl + MaxLag <= INT32_MAX
      BY <3>1 DEF InTime, Flags
    <3> PICK ttl : ttl = work[w].ttl
      OBVIOUS
    <3>2. /\ work[w].deadline = (now + ttl) % TickMod /\ ttl + MaxLag <= INT32_MAX
          /\ ttl \in Int /\ MaxLag \in Nat /\ INT32_MAX \in Nat
      BY TickRange DEF Timely, InTime, Clock
    <3>3. (((now + 1) % TickMod) + (ttl - 1)) % TickMod = (now + ttl) % TickMod
      BY <1>1, <3>2, TickMoves
    <3>4. ttl - 1 + MaxLag <= INT32_MAX
      BY <3>2
    <3> QED BY <2>1, <3>1, <3>2, <3>3, <3>4
  <2>3. ASSUME NEW q \in Queues PROVE Fresh(q)'
    <3> SUFFICES ASSUME pc[q] = "promote" PROVE (now' - tick[q]) % TickMod <= MaxLag
      BY <2>1 DEF Fresh
    <3> PICK at : at = tick[q]
      OBVIOUS
    <3>1. (now - at) % TickMod < MaxLag /\ at \in Int
      BY <1>2 DEF Tick, Clock
    <3>2. (now' - at) % TickMod <= ((now - at) % TickMod) + 1
      BY <1>1, <2>1, <3>1, TickMoves
    <3>3. now' \in 0 .. TickMod - 1
      BY <1>1, <2>1, ModRange
    <3>4. (now' - at) % TickMod \in 0 .. TickMod - 1 /\ (now - at) % TickMod \in 0 .. TickMod - 1
      BY <1>1, <3>1, <3>3, ModRange
    <3> PICK x, y : x = (now' - at) % TickMod /\ y = (now - at) % TickMod
      OBVIOUS
    <3>5. x \in Int /\ y \in Int /\ x <= y + 1 /\ y < MaxLag /\ MaxLag \in Nat
      BY <3>1, <3>2, <3>4, TickRange
    <3>6. x <= MaxLag
      BY ONLY <3>5
    <3> QED BY <3>6
  <2> QED BY <2>2, <2>3 DEF Timely
<1>3. CASE ~Tick
  <2>1. now' = now /\ \A p \in Queues : PlaceEffect(p)
    <3>1. tick \in [Queues -> 0 .. TickMod - 1] /\ left \in [Queues -> 0 .. TickMod]
      BY DEF Clock
    <3> QED BY <1>3, <3>1, PlaceEffects
  <2>2. ASSUME NEW w \in Works PROVE InTime(w)'
    <3>1. CASE SameTime(work'[w], work[w])
      <4>1. InTime(w)
        BY DEF Timely
      <4> QED BY <2>1, <3>1, <4>1 DEF InTime, SameTime, Flags
    <3>2. CASE Untimed(work'[w], work[w])
      BY <3>2 DEF InTime, Untimed, Flags
    <3>3. CASE Timed(w)
      <4>1. PICK d \in Delays : work'[w].deadline = (now + d) % TickMod /\ work'[w].ttl = d
        BY <3>3 DEF Timed
      <4>2. d + MaxLag <= INT32_MAX
        BY DEF DelaysFit
      <4> QED BY <2>1, <4>1, <4>2 DEF InTime
    <3> QED BY <1>3, <3>1, <3>2, <3>3, TimeEffects DEF TimeEffect
  <2>3. ASSUME NEW q \in Queues PROVE Fresh(q)'
    <3>1. CASE Stays(q)
      <4>1. Fresh(q)
        BY DEF Timely
      <4> QED BY <2>1, <3>1, <4>1 DEF Fresh, Stays
    <3>2. CASE Reads(q)
      <4>1. PICK m \in Nat \ {0} : m = TickMod
        BY TickRange
      <4>2. 0 \in 0 .. m - 1 /\ 0 = m * 0 + 0
        OBVIOUS
      <4>3. 0 % m = 0
        BY <4>2, ModEqual
      <4>4. now - now = 0 /\ 0 <= MaxLag
        BY <1>1, TickRange
      <4> QED BY <2>1, <3>2, <4>1, <4>3, <4>4 DEF Fresh, Reads
    <3>3. CASE Leaves(q)
      BY <3>3 DEF Fresh, Leaves
    <3>4. CASE os_work_promote_none(q)
      <4>1. pc'[q] = "take"
        BY <1>1, <3>4 DEF os_work_promote_none, Types
      <4> QED BY <4>1 DEF Fresh
    <3> QED BY <2>1, <3>1, <3>2, <3>3, <3>4 DEF PlaceEffect
  <2> QED BY <2>2, <2>3 DEF Timely
<1> QED BY <1>2, <1>3

LEMMA ClockInvariance == DelaysFit => (Spec => [](IInv /\ Clock /\ Timely))
<1> SUFFICES ASSUME DelaysFit PROVE Spec => [](IInv /\ Clock /\ Timely)
  OBVIOUS
<1>1. IInv /\ Clock /\ Timely /\ Next => Clock' /\ Timely'
  BY ClockStep, TimelyStep
<1>2. ASSUME Clock, Timely, UNCHANGED vars PROVE Clock' /\ Timely'
  BY <1>2 DEF vars, Clock, Timely, InTime, Fresh, Flags
<1>3. IInv /\ Clock /\ Timely /\ [Next]_vars => Clock' /\ Timely'
  BY <1>1, <1>2
<1> QED BY Invariance, ClockInit, <1>3, PTL DEF Spec

\* What the worker computes for an item on its delayed list, from a tick that
\* may be old.
LEMMA RemainingIs ==
    ASSUME Clock, Timely, DelaysFit, NEW q \in Queues, pc[q] = "promote",
           NEW w \in Works, "DELAYED" \in Flags(w)
    PROVE  LET r == Remaining(work[w].deadline, tick[q])
           IN  (r = 0 => work[w].ttl <= 0) /\ (r # 0 => r <= work[w].ttl + MaxLag)
<1>1. /\ TickMod \in Nat \ {0} /\ INT32_MAX \in Nat /\ MaxLag \in Nat
      /\ 2 * INT32_MAX + 2 <= TickMod
  BY TickRange
<1>2. PICK n, at, ttl, dl : /\ n = now /\ at = tick[q]
                            /\ ttl = work[w].ttl /\ dl = work[w].deadline
  OBVIOUS
<1>3. n \in Int /\ at \in Int /\ ttl \in Int /\ dl \in Int /\ -MaxLag <= ttl
  BY <1>1, <1>2 DEF Clock
<1>4. PICK M \in Nat \ {0}, I \in Nat, L \in Nat : M = TickMod /\ I = INT32_MAX /\ L = MaxLag
  BY <1>1
<1>5. PICK lag \in 0 .. M - 1, j \in Int : lag = (n - at) % M
  BY <1>3, n - at \in Int, ModProperties
<1>6. PICK x \in Int : x = lag + ttl
  BY <1>3, <1>5
<1>7. dl = (n + ttl) % M /\ ttl + L <= I
  BY <1>2, <1>4 DEF Timely, InTime
<1>8. lag <= L
  BY <1>2, <1>4, <1>5 DEF Timely, Fresh
<1>9. L <= I /\ 2 * I + 2 <= M /\ -L <= ttl
  <2>1. 0 + MaxLag <= INT32_MAX
    BY DEF DelaysFit
  <2> QED BY <1>1, <1>3, <1>4, <2>1
<1>10. (dl - at) % M = x % M
  <2>1. (((n + ttl) % M) + (-at)) % M = ((n + ttl) + (-at)) % M
    BY <1>3, n + ttl \in Int, -at \in Int, ModAdd
  <2>2. (((n - at) % M) + ttl) % M = ((n - at) + ttl) % M
    BY <1>3, n - at \in Int, ModAdd
  <2>3. (n - at) + ttl = (n + ttl) + (-at) /\ dl - at = dl + (-at)
    BY <1>3
  <2> QED BY <1>5, <1>6, <1>7, <2>1, <2>2, <2>3
<1>11. PICK y \in 0 .. M - 1, k \in Int : y = x % M
  BY ModProperties
<1>12. Remaining(dl, at) = IF y <= I THEN y ELSE 0
  BY <1>4, <1>10, <1>11 DEF Remaining
<1>13. CASE x >= 0
  <2>1. x \in 0 .. M - 1 /\ x = M * 0 + x /\ x <= I
    BY <1>3, <1>5, <1>6, <1>7, <1>8, <1>9, <1>13
  <2>2. x % M = x
    BY <2>1, ModEqual
  <2>3. Remaining(dl, at) = x
    BY <1>11, <1>12, <2>1, <2>2
  <2>4. (x = 0 => ttl <= 0) /\ x <= ttl + L
    BY <1>3, <1>5, <1>6, <1>8
  <2> QED BY <1>2, <1>4, <2>3, <2>4
<1>14. CASE x < 0
  <2>1. x + M \in 0 .. M - 1 /\ x = M * (-1) + (x + M) /\ x + M > I
    BY <1>3, <1>5, <1>6, <1>9, <1>14
  <2>2. x % M = x + M
    BY <2>1, ModEqual
  <2>3. Remaining(dl, at) = 0
    BY <1>11, <1>12, <2>1, <2>2
  <2>4. ttl <= 0
    BY <1>3, <1>5, <1>6, <1>14
  <2> QED BY <1>2, <2>3, <2>4
<1> QED BY <1>13, <1>14

LEMMA RemainingOfItem ==
    ASSUME IInv, Clock, Timely, DelaysFit, NEW q \in Queues, pc[q] = "promote",
           NEW i \in DOMAIN queue[q].delayed
    PROVE  LET ttl == work[queue[q].delayed[i]].ttl
           IN  /\ RemainingOf(q, i) = 0 => ttl <= 0
               /\ RemainingOf(q, i) # 0 => RemainingOf(q, i) <= ttl + MaxLag
<1> PICK w : w = queue[q].delayed[i]
  OBVIOUS
<1>1. queue[q].delayed \in Seq(Works) /\ Items
  BY DEF IInv, Types, QueueType
<1>2. w \in Works /\ w \in Range(queue[q].delayed)
  BY <1>1 DEF Range
<1>3. "DELAYED" \in Flags(w)
  BY <1>1, <1>2 DEF Items, Matches
<1> QED BY <1>2, <1>3, RemainingIs DEF RemainingOf

(***************************************************************************)
(* Delayed work is not promoted before its delay has passed, for every     *)
(* tick range, as long as no delay plus the lag of the worker exceeds      *)
(* INT32_MAX.                                                              *)
(***************************************************************************)
THEOREM NothingIsPromotedEarly == DelaysFit => (Spec => NeverEarly)
<1> SUFFICES ASSUME DelaysFit PROVE Spec => NeverEarly
  OBVIOUS
<1> DEFINE Late == \A q \in Queues, w \in Works :
          pc[q] = "promote" /\ pc'[q] = "tick" /\ "DELAYED" \in Flags(w)
            /\ "DELAYED" \notin work'[w].flags => work[w].ttl <= 0
<1>1. ASSUME IInv, Clock, Timely, Next PROVE Late
  <2> SUFFICES ASSUME NEW q \in Queues, NEW w \in Works, pc[q] = "promote", pc'[q] = "tick",
                      "DELAYED" \in Flags(w), "DELAYED" \notin work'[w].flags
               PROVE  work[w].ttl <= 0
    OBVIOUS
  <2>1. Types /\ Items /\ ~Tick
    BY <1>1 DEF IInv, Tick
  <2>2. tick \in [Queues -> 0 .. TickMod - 1] /\ left \in [Queues -> 0 .. TickMod]
    BY <1>1 DEF Clock
  <2>3. PlaceEffect(q)
    BY <1>1, <2>1, <2>2, PlaceEffects
  <2>4. ~os_work_promote_none(q)
    BY <2>1 DEF os_work_promote_none, Types
  <2>5. os_work_promote_due(q)
    BY <2>3, <2>4 DEF PlaceEffect, Stays, Reads, Leaves
  <2> PICK i : i = First(Due(q))
    OBVIOUS
  <2> PICK x : x = queue[q].delayed[i]
    OBVIOUS
  <2>6. i \in Due(q) /\ x \in Works
    BY <2>1, <2>5, DueIsWork DEF os_work_promote_due
  <2>7. i \in DOMAIN queue[q].delayed /\ RemainingOf(q, i) = 0
    BY <2>6 DEF Due
  <2>8. work' = [work EXCEPT ![x].flags = @ \ {"DELAYED"}, ![x].ttl = 0]
    BY <2>5 DEF os_work_promote_due
  <2>9. w = x
    BY <2>1, <2>8 DEF Types, Flags
  <2> QED BY <1>1, <2>7, <2>9, RemainingOfItem
<1>2. IInv /\ Clock /\ Timely /\ [Next]_vars => [Late]_vars
  BY <1>1
<1>3. Spec => [](IInv /\ Clock /\ Timely)
  BY ClockInvariance
<1> QED BY <1>2, <1>3, PTL DEF Spec, NeverEarly
-----------------------------------------------------------------------------
(* Wake-ups                                                                *)

\* Gives and submissions come first in a call: at most one follows another,
\* and then the other is a give.
Calm(a) == \A s \in Range(a) : s.do \notin {"give", "submit"}

Orderly(t) ==
    \/ todo[t] = <<>> \/ Calm(Tail(todo[t]))
    \/ At(t, "give") /\ Tail(todo[t]) # <<>> /\ Calm(Tail(Tail(todo[t])))

LEMMA HeadTailOfMore ==
    ASSUME NEW S, NEW g \in S, NEW a \in Seq(S)
    PROVE  <<g>> \o a # <<>> /\ Head(<<g>> \o a) = g /\ Tail(<<g>> \o a) = a
<1>1. PICK h : h = <<g>>
  OBVIOUS
<1>2. h \in Seq(S) /\ Len(h) = 1 /\ h[1] = g /\ Len(a) \in Nat
  BY <1>1
<1>3. PICK b : b = h \o a
  OBVIOUS
<1>4. /\ b \in Seq(S) /\ Len(b) = 1 + Len(a)
      /\ \A i \in 1 .. 1 + Len(a) : b[i] = IF i <= 1 THEN h[i] ELSE a[i - 1]
  <2>1. /\ h \o a \in Seq(S) /\ Len(h \o a) = Len(h) + Len(a)
        /\ \A i \in 1 .. Len(h) + Len(a) : (h \o a)[i] =
               IF i <= Len(h) THEN h[i] ELSE a[i - Len(h)]
    BY <1>2, ConcatProperties
  <2> QED BY <1>2, <1>3, <2>1
<1>5. b # <<>> /\ b[1] = g
  BY <1>2, <1>4
<1>6. Head(b) = g
  BY <1>4, <1>5
<1>7. /\ Tail(b) \in Seq(S) /\ Len(Tail(b)) = Len(b) - 1
      /\ \A i \in 1 .. Len(Tail(b)) : Tail(b)[i] = b[i + 1]
  BY <1>4, <1>5, HeadTailProperties
<1>8. PICK c : c = Tail(b)
  OBVIOUS
<1>9. c \in Seq(S) /\ Len(c) = Len(a) /\ \A i \in 1 .. Len(c) : c[i] = a[i]
  BY <1>2, <1>4, <1>7, <1>8
<1>10. c = a
  BY <1>9, SeqEqual
<1> QED BY <1>1, <1>3, <1>5, <1>6, <1>8, <1>10

LEMMA TwoMoreSteps ==
    ASSUME NEW S, NEW g \in S, NEW s \in S, NEW b \in Seq(S)
    PROVE  <<g, s>> \o b = <<g>> \o (<<s>> \o b)
<1>1. PICK x, y : x = <<g>> /\ y = <<s>>
  OBVIOUS
<1>2. x \in Seq(S) /\ y \in Seq(S)
  BY <1>1
<1>3. x \o y = <<g, s>>
  BY <1>1, PairOfSteps
<1>4. (x \o y) \o b = x \o (y \o b)
  BY <1>2, ConcatAssociative
<1> QED BY <1>1, <1>3, <1>4

\* A wake-up and a submission in front of a call's other steps.
LEMMA HeadTailOfTwo ==
    ASSUME NEW S, NEW g \in S, NEW s \in S, NEW b \in Seq(S), NEW a, a = <<g, s>> \o b,
           NEW c, c = <<s>> \o b
    PROVE  /\ a # <<>> /\ Head(a) = g /\ Tail(a) = c
           /\ c # <<>> /\ Tail(c) = b
<1>1. a = <<g>> \o (<<s>> \o b)
  BY TwoMoreSteps
<1>2. a = <<g>> \o c
  BY <1>1
<1>3. c # <<>> /\ Tail(c) = b
  BY HeadTailOfMore
<1>4. <<s>> \in Seq(S)
  OBVIOUS
<1>5. c \in Seq(S)
  BY <1>4, ConcatProperties
<1>6. <<g>> \o c # <<>> /\ Head(<<g>> \o c) = g /\ Tail(<<g>> \o c) = c
  BY <1>5, HeadTailOfMore
<1> QED BY <1>2, <1>3, <1>6

LEMMA CalmParts ==
    ASSUME NEW a \in Seq(Steps), a # <<>>
    PROVE  /\ Tail(a) \in Seq(Steps) /\ Calm(a) => Calm(Tail(a))
           /\ Calm(Tail(a)) /\ Head(a).do \notin {"give", "submit"} => Calm(a)
<1>1. Tail(a) \in Seq(Steps) /\ Range(a) = {Head(a)} \cup Range(Tail(a))
  BY GetNode
<1> QED BY <1>1 DEF Calm

LEMMA OrderlyStep ==
    ASSUME Types, Types', NEW t \in Threads, CallEffect(t), Orderly(t)
    PROVE  Orderly(t)'
<1> PICK a : a = Tail(todo[t])
  OBVIOUS
<1>1. todo[t] \in Seq(Steps)
  BY DEF Types
<1>2. ASSUME NEW do, At(t, do)
      PROVE  /\ todo[t] # <<>> /\ Head(todo[t]).do = do /\ a \in Seq(Steps)
             /\ Calm(a) \/ (do = "give" /\ a # <<>> /\ Calm(Tail(a)))
  <2>1. todo[t] # <<>> /\ Head(todo[t]).do = do
    BY <1>2 DEF At
  <2> QED BY <1>1, <2>1, CalmParts DEF Orderly, At
<1>3. ASSUME todo'[t] \in Seq(Steps), Calm(todo'[t]) PROVE Orderly(t)'
  BY <1>3, CalmParts DEF Orderly
<1>4. CASE At(t, "give") /\ todo'[t] = a
  <2>1. a \in Seq(Steps) /\ (Calm(a) \/ Calm(Tail(a)))
    BY <1>2, <1>4
  <2>2. CASE Calm(a)
    BY <1>3, <1>4, <2>1, <2>2
  <2>3. CASE Calm(Tail(a))
    BY <1>4, <2>3 DEF Orderly
  <2> QED BY <2>1, <2>2, <2>3
<1>5. CASE At(t, "submit") /\ todo'[t] = a
  BY <1>2, <1>3, <1>5
<1>6. ASSUME NEW q \in Queues, At(t, "submit"), todo'[t] = <<Give(q)>> \o a PROVE Orderly(t)'
  <2>1. Give(q) \in Steps /\ a \in Seq(Steps) /\ Calm(a)
    BY <1>2, <1>6, UrgentSteps
  <2>2. Tail(<<Give(q)>> \o a) = a
    BY <2>1, HeadTailOfMore
  <2> QED BY <1>6, <2>1, <2>2 DEF Orderly
<1>7. CASE /\ ~At(t, "give") /\ ~At(t, "submit")
           /\ Range(todo'[t]) \subseteq Plain \cup Range(todo[t])
  <2>1. Calm(todo[t])
    <3>1. CASE todo[t] = <<>>
      BY <3>1, SmallRanges DEF Calm
    <3>2. CASE todo[t] # <<>>
      <4>1. Head(todo[t]).do \notin {"give", "submit"} /\ Calm(Tail(todo[t]))
        BY <1>7, <3>2 DEF At, Orderly
      <4> QED BY <1>1, <3>2, <4>1, CalmParts
    <3> QED BY <3>1, <3>2
  <2>2. Calm(todo'[t])
    BY <1>7, <2>1 DEF Calm, Plain
  <2>3. todo'[t] \in Seq(Steps)
    BY DEF Types
  <2> QED BY <1>3, <2>2, <2>3
<1>8. ASSUME NEW s \in Urgent, NEW b \in Seq(Plain), todo'[t] = <<s>> \o b PROVE Orderly(t)'
  <2>1. s \in Steps /\ b \in Seq(Steps) /\ Range(b) \subseteq Plain
    BY UrgentSteps, PlainSeq
  <2>2. Tail(<<s>> \o b) = b
    BY <2>1, HeadTailOfMore
  <2>3. Calm(b)
    BY <2>1 DEF Calm, Plain
  <2> QED BY <1>8, <2>2, <2>3 DEF Orderly
<1>9. ASSUME NEW q \in Queues, NEW s \in Urgent, NEW b \in Seq(Plain),
             todo'[t] = <<Give(q), s>> \o b
      PROVE  Orderly(t)'
  <2>1. PICK g : g = Give(q)
    OBVIOUS
  <2>2. g \in Steps /\ s \in Steps /\ b \in Seq(Steps) /\ Range(b) \subseteq Plain
    BY <2>1, UrgentSteps, PlainSeq
  <2>3. PICK d : d = todo'[t]
    OBVIOUS
  <2>4. PICK c : c = <<s>> \o b
    OBVIOUS
  <2>5. d = <<g, s>> \o b
    BY <1>9, <2>1, <2>3
  <2>6. d # <<>> /\ Head(d) = g /\ Tail(d) = c /\ c # <<>> /\ Tail(c) = b
    BY <2>2, <2>4, <2>5, HeadTailOfTwo
  <2>7. Calm(b) /\ g.do = "give"
    BY <2>1, <2>2 DEF Calm, Plain, Give, Todo
  <2> QED BY <2>3, <2>6, <2>7 DEF Orderly, At
<1> QED BY <1>4, <1>5, <1>6, <1>7, <1>8, <1>9 DEF CallEffect

LEMMA NextOrderly ==
    ASSUME IInv, Next, \A t \in Threads : Orderly(t)
    PROVE  \A t \in Threads : Orderly(t)'
<1>1. Types /\ Types'
  BY NextInv DEF IInv
<1>2. ASSUME NEW u \in Threads, todo'[u] = todo[u] PROVE Orderly(u)'
  BY <1>2 DEF Orderly, At
<1>3. ASSUME NEW t \in Threads, Moves(t), CallEffect(t), NEW u \in Threads PROVE Orderly(u)'
  <2>1. CASE u = t
    BY <1>1, <1>3, <2>1, OrderlyStep
  <2>2. CASE u # t
    BY <1>2, <1>3, <2>2 DEF Moves
  <2> QED BY <2>1, <2>2
<1> QED BY <1>2, <1>3, CallEffects

\* A wake-up that is on its way is lost only by being given.
LEMMA WakeUpIsGiven ==
    ASSUME Types, NEW t \in Threads, CallEffect(t), Orderly(t), NEW q \in Queues,
           Give(q) \in Range(todo[t]), Give(q) \notin Range(todo'[t]), Types'
    PROVE  os_sem_give_items(t) /\ Head(todo[t]).q = q
<1> PICK a : a = Tail(todo[t])
  OBVIOUS
<1>1. todo[t] \in Seq(Steps) /\ Give(q).do = "give" /\ Give(q).q = q
  BY DEF Types, Give, Todo
<1>2. todo[t] # <<>>
  BY SmallRanges
<1>3. a \in Seq(Steps) /\ Range(todo[t]) = {Head(todo[t])} \cup Range(a)
  BY <1>1, <1>2, GetNode
<1>4. ASSUME Calm(a) PROVE Head(todo[t]) = Give(q) /\ At(t, "give")
  BY <1>1, <1>2, <1>3, <1>4 DEF Calm, At
<1>5. At(t, "give")
  BY <1>2, <1>4 DEF Orderly
<1>6. os_sem_give_items(t) /\ todo'[t] = a
  <2>1. ~At(t, "submit") /\ ~At(t, "stop") /\ todo[t] # <<>>
    BY <1>2, <1>5 DEF At
  <2> QED BY <1>5, <2>1 DEF CallEffect
<1>7. Head(todo[t]) = Give(q)
  BY <1>3, <1>6
<1> QED BY <1>1, <1>6, <1>7

LEMMA WakingStep ==
    ASSUME IInv, Next, \A t \in Threads : Orderly(t), NEW q \in Queues, Counted(q),
           pc[q] = "take", queue'[q].items = 0, ~Waking(q)'
    PROVE  ~Waking(q)
<1> SUFFICES ASSUME NEW u \in Threads, Give(q) \in Range(todo[u]) PROVE FALSE
  BY MemberIsRange DEF Waking
<1>1. Types /\ Types' /\ queue[q] \in QueueType
  BY NextInv DEF IInv, Types
<1>2. Give(q) \notin Range(todo'[u])
  BY MemberIsRange DEF Waking
<1>3. PICK t \in Threads : Moves(t) /\ CallEffect(t)
  BY <1>2, CallEffects
<1>4. t = u
  BY <1>2, <1>3 DEF Moves
<1>5. os_sem_give_items(t) /\ Head(todo[t]).q = q
  BY <1>1, <1>2, <1>3, <1>4, WakeUpIsGiven
<1> PICK n : n = GivenItems(q)
  OBVIOUS
<1>6. queue' = [queue EXCEPT ![q].items = n]
  BY <1>5 DEF os_sem_give_items
<1>7. queue'[q].items = n
  BY <1>1, <1>6 DEF Types, QueueType
<1>8. queue[q].initialized
  BY DEF Counted
<1>9. queue[q].items \in Nat /\ Limit \in Nat \ {0}
  BY <1>1, BoundsAssumption DEF QueueType
<1>10. n > 0
  BY <1>8, <1>9 DEF GivenItems
<1> QED BY <1>7, <1>10

\* TimerCoversDeadlines for one queue.
Covered(q) == pc[q] = "take" /\ queue[q].items = 0 /\ ~Waking(q) =>
    \A w \in Works : "DELAYED" \in Flags(w) /\ work[w].dqueue = q =>
        left[q] <= work[w].ttl + MaxLag

LEMMA CoveredStep ==
    ASSUME IInv, Clock, Timely, DelaysFit, ~Revokes, \A t \in Threads : Orderly(t),
           NEW q \in Queues, Counted(q), Covered(q), Next
    PROVE  Covered(q)'
<1> SUFFICES ASSUME pc'[q] = "take", queue'[q].items = 0, ~Waking(q)', NEW w \in Works,
                    "DELAYED" \in work'[w].flags, work'[w].dqueue = q
             PROVE  left'[q] <= work'[w].ttl + MaxLag
  BY DEF Covered, Flags
<1>1. /\ Types /\ Items /\ left[q] \in 0 .. TickMod /\ left \in [Queues -> 0 .. TickMod]
      /\ tick \in [Queues -> 0 .. TickMod - 1] /\ work[w].ttl \in -MaxLag .. INT32_MAX
  BY DEF IInv, Clock
<1>2. MaxLag \in Nat /\ INT32_MAX \in Nat
  BY TickRange
<1>3. CASE os_work_promote_none(q)
  <2>1. UNCHANGED <<work, queue>> /\ left'[q] = Nearest(q) /\ Due(q) = {} /\ pc[q] = "promote"
    BY <1>1, <1>3 DEF os_work_promote_none, Worker
  <2>2. w \in Range(queue[q].delayed)
    BY <1>1, <2>1 DEF Items, Matches, Flags
  <2>3. PICK i \in DOMAIN queue[q].delayed : w = queue[q].delayed[i]
    BY <2>2 DEF Range
  <2>4. RemainingOf(q, i) # 0
    BY <2>1 DEF Due
  <2>5. RemainingOf(q, i) <= work[w].ttl + MaxLag
    BY <2>1, <2>3, <2>4, RemainingOfItem
  <2>6. Nearest(q) \in 0 .. TickMod /\ Nearest(q) <= RemainingOf(q, i)
    BY NearestIs
  <2>7. RemainingOf(q, i) \in Int
    <3>1. tick[q] \in Int /\ work[w].deadline \in Int
      BY <1>1 DEF Clock
    <3>2. work[w].deadline - tick[q] \in Int
      BY <3>1
    <3>3. (work[w].deadline - tick[q]) % TickMod \in Int
      BY <3>2, ModRange, TickRange
    <3> QED BY <2>3, <3>3 DEF RemainingOf, Remaining
  <2> PICK r, m : r = RemainingOf(q, i) /\ m = Nearest(q)
    OBVIOUS
  <2>8. m <= work[w].ttl + MaxLag
    BY <1>1, <1>2, <2>5, <2>6, <2>7
  <2> QED BY <2>1, <2>8
<1>4. ASSUME pc[q] = "take", queue[q].items = 0, ~Waking(q), "DELAYED" \in Flags(w),
             work[w].dqueue = q
      PROVE  left[q] <= work[w].ttl + MaxLag
  BY <1>4 DEF Covered
<1>5. CASE Tick
  <2>1. UNCHANGED <<queue, pc, todo>>
    BY <1>5 DEF Tick
  <2>2. /\ "DELAYED" \in Flags(w) /\ work[w].dqueue = q
        /\ work'[w].ttl = work[w].ttl - 1 /\ work[w].ttl > -MaxLag
    BY <1>1, <1>5, TickItem DEF Flags
  <2>3. left[q] <= work[w].ttl + MaxLag
    BY <1>4, <2>1, <2>2 DEF Waking
  <2>4. left'[q] = IF left[q] \in 1 .. INT32_MAX THEN left[q] - 1 ELSE left[q]
    BY <1>5 DEF Tick
  <2>5. work[w].ttl + MaxLag <= INT32_MAX
    BY <2>2 DEF Timely, InTime
  <2> PICK l, ttl : l = left[q] /\ ttl = work[w].ttl
    OBVIOUS
  <2>6. l \in Nat /\ ttl \in Int
    BY <1>1, TickRange
  <2> QED BY <1>2, <2>2, <2>3, <2>4, <2>5, <2>6
<1>6. CASE ~Tick /\ ~os_work_promote_none(q)
  <2>1. Stays(q)
    <3>1. PlaceEffect(q)
      BY <1>1, <1>6, PlaceEffects
    <3> QED BY <1>6, <3>1 DEF PlaceEffect, Reads, Leaves
  <2>2. pc[q] = "take" /\ left'[q] = left[q]
    BY <2>1 DEF Stays
  <2>3. queue[q].items = 0
    <3>1. queue[q].items \in Nat /\ queue[q] \in QueueType
      BY <1>1 DEF Types, QueueType
    <3>2. CASE Given(q)
      <4>1. queue'[q].items = GivenItems(q)
        BY <3>1, <3>2 DEF Given, TokensMove, SameFifo, QueueType
      <4> QED BY <3>1, <4>1 DEF GivenItems
    <3>3. CASE Kept(q) \/ Linked(q) \/ Unlinked(q)
      BY <3>3 DEF Kept, SameFifo, Linked, Unlinked, NodesMove
    <3>4. ~Taken(q) /\ ~Renewed(q)
      BY <2>2 DEF Taken, Renewed
    <3> QED BY <3>2, <3>3, <3>4, FifoEffects DEF FifoEffect
  <2>4. ~Waking(q)
    BY <2>2, WakingStep
  <2>5. ~Timed(w)
    BY MemberIsRange DEF Timed, Waking
  <2>6. SameTime(work'[w], work[w])
    BY <1>6, <2>5, TimeEffects DEF TimeEffect, Untimed
  <2>7. "DELAYED" \in Flags(w) /\ work[w].dqueue = q /\ work'[w].ttl = work[w].ttl
    BY <2>6 DEF SameTime, Flags
  <2> QED BY <1>4, <2>2, <2>3, <2>4, <2>7
<1> QED BY <1>3, <1>5, <1>6

(***************************************************************************)
(* A worker that sleeps with no wake-up on its way wakes up by itself at   *)
(* most MaxLag ticks after the nearest deadline.  Cancelling is left out:  *)
(* the token it takes back may be the wake-up of a schedule call.          *)
(***************************************************************************)
THEOREM SleepersWakeUp ==
    NeverCancels /\ DelaysFit => (Spec => []TimerCoversDeadlines)
<1> SUFFICES ASSUME NeverCancels, DelaysFit PROVE Spec => []TimerCoversDeadlines
  OBVIOUS
<1> DEFINE WInv == /\ Unrevoked /\ \A t \in Threads : Orderly(t)
                   /\ \A q \in Queues : Counted(q) /\ Covered(q)
<1>1. Init => WInv
  <2> SUFFICES ASSUME Init PROVE WInv
    OBVIOUS
  <2>1. Unrevoked /\ \A t \in Threads : Orderly(t)
    BY SmallRanges DEF Init, Unrevoked, Orderly
  <2>2. ASSUME NEW q \in Queues PROVE Counted(q) /\ Covered(q)
    <3>1. queue[q] = NewQueue /\ pc[q] = "tick" /\ 0 <= Limit
      BY BoundsAssumption DEF Init
    <3> QED BY <3>1 DEF Counted, Covered, NewQueue
  <2> QED BY <2>1, <2>2
<1>2. WInv /\ IInv /\ Clock /\ Timely /\ [Next]_vars => WInv'
  <2>1. ASSUME WInv, IInv, Clock, Timely, Next PROVE WInv'
    <3>1. ~Revokes /\ Unrevoked' /\ \A t \in Threads : Orderly(t)'
      BY <2>1, NothingRevokes, UnrevokedStep, NextOrderly
    <3>2. ASSUME NEW q \in Queues PROVE Counted(q)' /\ Covered(q)'
      <4>1. FifoEffect(q) /\ Counted(q) /\ Covered(q)
        BY <2>1, FifoEffects
      <4> QED BY <2>1, <3>1, <4>1, CountedStep, CoveredStep
    <3> QED BY <3>1, <3>2
  <2>2. ASSUME WInv, UNCHANGED vars PROVE WInv'
    BY <2>2 DEF vars, Unrevoked, Orderly, At, Counted, Covered, Waking, Flags
  <2> QED BY <2>1, <2>2
<1>3. WInv /\ IInv => TimerCoversDeadlines
  <2> SUFFICES ASSUME WInv, IInv, NEW q \in Queues, pc[q] = "take", queue[q].items = 0,
                      ~Waking(q), NEW i \in DOMAIN queue[q].delayed
               PROVE  left[q] <= work[queue[q].delayed[i]].ttl + MaxLag
    BY DEF TimerCoversDeadlines
  <2> PICK w : w = queue[q].delayed[i]
    OBVIOUS
  <2>1. queue[q].delayed \in Seq(Works) /\ Items
    BY DEF IInv, Types, QueueType
  <2>2. w \in Works /\ w \in Range(queue[q].delayed)
    BY <2>1 DEF Range
  <2>3. "DELAYED" \in Flags(w) /\ work[w].dqueue = q
    BY <2>1, <2>2 DEF Items, Matches
  <2> QED BY <2>2, <2>3 DEF Covered
<1>4. Spec => [](IInv /\ Clock /\ Timely)
  BY ClockInvariance
<1> QED BY <1>1, <1>2, <1>3, <1>4, PTL DEF Spec
=============================================================================
