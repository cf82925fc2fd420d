---------------------------- MODULE ThreadProofs ----------------------------
(***************************************************************************)
(* Proofs about the life of a thread on both ports, for any number of      *)
(* threads, callers, wait queues and priorities.                           *)
(***************************************************************************)
EXTENDS Thread, FiniteSetTheorems, WellFoundedInduction, TLAPS

\* An object's life-cycle fields.
Objects == [handle : BOOLEAN, completion_handle : BOOLEAN, completed : BOOLEAN,
            completion_signaled : BOOLEAN, completion_reaped : BOOLEAN,
            join_active : BOOLEAN, cancel_requested : BOOLEAN]

\* t has not begun to end: it is in application code or in a call of its own.
Active == {"run", "wait", "back", "reorder"} \cup AbortSteps \cup JoinSteps

\* Where the callers stand that abort, join or delete t.
LifeSteps == AbortSteps \cup JoinSteps
Steps(t)  == {pc[a] : a \in CallOn(t)} \cap LifeSteps

(***************************************************************************)
(* The types the life cycle rests on.  The pointers of the wait queues     *)
(* play no part in it.                                                     *)
(***************************************************************************)
Types == /\ pc \in [Actors -> Active \cup ExitSteps \cup {"none"}]
         /\ target \in [Actors -> Threads \cup {Null}]
         /\ \A a \in Actors : target[a] # Null <=>
               pc[a] \in {"reorder"} \cup AbortSteps \cup JoinSteps
         /\ obj \in [Threads -> Objects]
         /\ completion \in [Threads -> {"dead", "empty", "given"}]
         /\ DOMAIN wait_q = Threads /\ DOMAIN notify = Threads
         /\ disturbed \subseteq Threads

\* A thread that is not disturbed is claimed by one join or delete and ended by
\* one abort at a time, and not from within itself.
OneCall ==
    /\ \A a, b \in Actors : target[a] = target[b] /\ target[a] \notin disturbed =>
          /\ pc[a] \in JoinSteps /\ pc[b] \in JoinSteps => a = b
          /\ pc[a] \in AbortSteps /\ pc[b] \in AbortSteps => a = b
    /\ \A a \in Actors :
          /\ pc[a] \in LifeSteps /\ target[a] \notin disturbed => target[a] # a
          /\ pc[a] \in AbortSteps => target[a] # a

(***************************************************************************)
(* How the fields o and the semaphore c of a thread that is not disturbed, *)
(* its own pc p, the steps S of the calls on it and the mark b of a failed *)
(* abort agree.                                                            *)
(*                                                                         *)
(* Until the semaphore is given it is empty and nobody is past waiting for *)
(* it; from then on it holds its token until the one caller that claims    *)
(* the thread takes it or frees the semaphore.  The end of a thread is in  *)
(* one hand, its own or its aborter's, and completion_signaled is set when *)
(* that hand has let go.                                                   *)
(***************************************************************************)
Ungiven(p, S) == p \in Active \cup {"exit_give"} \/ "abort_give" \in S

Ending(o, p, S, b) ==
    /\ p \in Active => (o.completed <=> "abort_delete" \in S \/ "abort_fail" \in S)
    /\ p \in ExitSteps => /\ o.completed /\ S \cap AbortSteps = {}
                          /\ o.completion_signaled <=> p = "exit_delete"
    /\ p = "none" /\ o.handle =>
          o.completed /\ (o.completion_signaled \/ "abort_give" \in S \/ "abort_signal" \in S)
    /\ "abort_give" \in S \/ "abort_signal" \in S =>
          p = "none" /\ o.completed /\ ~o.completion_signaled
    /\ "abort_delete" \in S \/ "abort_fail" \in S => p \in Active
    /\ "abort_fail" \in S => b

Claiming(o, S) ==
    /\ o.handle <=> o.completion_handle
    /\ o.handle => ~o.completion_reaped
    /\ o.completed \/ o.completion_signaled => o.handle \/ o.completion_reaped
    /\ o.join_active => S \cap JoinSteps # {}
    /\ \A s \in S \cap JoinSteps :
          IF s \in {"join_free", "delete_free"} /\ FreeRTOS
          THEN o.completion_reaped /\ ~o.handle /\ ~o.join_active
          ELSE o.handle /\ o.join_active
    /\ "delete_reap" \in S \/ "delete_free" \in S => o.completion_signaled

Semaphore(o, c, p, S) ==
    /\ Ungiven(p, S) => /\ o.handle /\ ~o.completion_signaled /\ c = "empty"
                        /\ S \cap JoinSteps \subseteq {"join_take", "join_expired"}
    /\ o.handle /\ ~Ungiven(p, S) =>
          c = IF "join_reap" \in S THEN "empty"
              ELSE IF "join_free" \in S \/ "delete_free" \in S THEN "dead" ELSE "given"

Sound(o, c, p, S, b) == Ending(o, p, S, b) /\ Claiming(o, S) /\ Semaphore(o, c, p, S)

Sane(t)  == Sound(obj[t], completion[t], pc[t], Steps(t), t \in botched)
AllSound == \A t \in Threads \ disturbed : Sane(t)

\* A task that was overtaken by a re-creation of its object disturbs it.
NoneIsLate == /\ late \in [Threads -> {"none", "exit_give", "exit_signal"}]
              /\ \A t \in Threads \ disturbed : late[t] = "none"

\* The inductive invariant.
IInv == Types /\ OneCall /\ AllSound /\ NobodySleepsThrough

\* Before anything is created the inductive invariant holds.
LEMMA InitInv == Init => IInv
<1> SUFFICES ASSUME Init PROVE IInv
  OBVIOUS
<1> USE WaitQueueAssumption
<1>1. Types
  BY DEF Init, WaitInit, Types, Active, ExitSteps, AbortSteps, JoinSteps, Actors, Zeroed, Objects
<1>2. OneCall
  BY DEF Init, WaitInit, OneCall, Actors, LifeSteps, AbortSteps, JoinSteps
<1>3. AllSound
  <2> SUFFICES ASSUME NEW t \in Threads \ disturbed
               PROVE  Sane(t)
    BY DEF AllSound
  <2>1. Steps(t) = {}
    BY DEF Init, WaitInit, Steps, CallOn, Actors
  <2>2. pc[t] = "none" /\ obj[t] = Zeroed
    BY DEF Init, WaitInit, Actors
  <2> QED BY <2>1, <2>2 DEF Sane, Sound, Ending, Claiming, Semaphore, Ungiven, Active, ExitSteps,
             AbortSteps, JoinSteps, Zeroed
<1>4. NobodySleepsThrough
  BY DEF Init, WaitInit, NobodySleepsThrough, Actors
<1> QED BY <1>1, <1>2, <1>3, <1>4 DEF IInv
-----------------------------------------------------------------------------
(* What a step of one caller does to the steps of the calls on a thread.   *)

\* b neither is in a call on the life of u nor begins one, or stays put.
Still(b, u) == \/ pc'[b] = pc[b] /\ target'[b] = target[b]
               \/ /\ pc[b] \in LifeSteps => target[b] # u
                  /\ pc'[b] \in LifeSteps => target'[b] # u

\* Nothing changes for u if nobody is concerned with it.
LEMMA StepsOfOthers ==
    ASSUME NEW u \in Threads, \A b \in Actors : Still(b, u)
    PROVE  Steps(u)' = Steps(u)
BY DEF Steps, CallOn, Still

\* The step that a was at is replaced by the one it goes to.
LEMMA StepsOfTarget ==
    ASSUME OneCall, NEW a \in Actors, NEW t \in Threads \ disturbed,
           pc[a] \in LifeSteps, target[a] = t,
           \A b \in Actors \ {a} : Still(b, t)
    PROVE  /\ Steps(t)' = (Steps(t) \ {pc[a]})
                            \cup {s \in LifeSteps : s = pc'[a] /\ target'[a] = t}
           /\ pc[a] \in Steps(t)
           /\ pc[a] \in JoinSteps => Steps(t) \cap JoinSteps = {pc[a]}
           /\ pc[a] \in AbortSteps => Steps(t) \cap AbortSteps = {pc[a]}
<1>1. pc[a] \in Steps(t)
  BY DEF Steps, CallOn
<1>2. pc[a] \in JoinSteps => Steps(t) \cap JoinSteps = {pc[a]}
  BY DEF OneCall, Steps, CallOn, LifeSteps
<1>3. pc[a] \in AbortSteps => Steps(t) \cap AbortSteps = {pc[a]}
  BY DEF OneCall, Steps, CallOn, LifeSteps
<1>4. \A b \in Actors \ {a} : target[b] = t => pc[b] # pc[a]
  BY DEF OneCall, LifeSteps
<1>5. Steps(t)' = (Steps(t) \ {pc[a]}) \cup {s \in LifeSteps : s = pc'[a] /\ target'[a] = t}
  BY <1>4 DEF Steps, CallOn, Still
<1> QED BY <1>1, <1>2, <1>3, <1>5

\* A call that begins adds its first step.
LEMMA StepsOfNewCall ==
    ASSUME NEW a \in Actors, NEW t \in Threads,
           pc[a] \notin LifeSteps, pc'[a] \in LifeSteps, target'[a] = t,
           \A b \in Actors \ {a} : Still(b, t)
    PROVE  Steps(t)' = Steps(t) \cup {pc'[a]}
BY DEF Steps, CallOn, Still
-----------------------------------------------------------------------------
(* What a step leaves alone.                                               *)

\* A thread that moves on without being disturbed is not in the hands of an
\* aborter.
LEMMA MovesFreely ==
    ASSUME Upset, NEW u \in Threads \ disturbed', pc'[u] # pc[u], pc'[u] # "none"
    PROVE  "abort_delete" \notin Steps(u) /\ "abort_fail" \notin Steps(u)
BY DEF Upset, RanOn, Steps

\* The life of u goes on as before if u at most moves on in its own code.
LEMMA SoundFrame ==
    ASSUME NEW u \in Threads, Sane(u), port' = port,
           obj'[u] = obj[u], completion'[u] = completion[u], Steps(u)' = Steps(u),
           u \in botched => u \in botched',
           \/ pc'[u] = pc[u]
           \/ /\ pc[u] \in Active /\ pc'[u] \in Active
              /\ "abort_delete" \notin Steps(u) /\ "abort_fail" \notin Steps(u)
    PROVE  Sane(u)'
<1> USE DEF Sane, Sound
<1>1. Ending(obj[u], pc[u], Steps(u), u \in botched)'
  BY DEF Ending, Active, ExitSteps, AbortSteps, JoinSteps
<1>2. Claiming(obj[u], Steps(u))'
  BY DEF Claiming, FreeRTOS
<1>3. Semaphore(obj[u], completion[u], pc[u], Steps(u))'
  BY DEF Semaphore, Ungiven
<1> QED BY <1>1, <1>2, <1>3

\* Nobody falls asleep for good through a step that wakes nobody and dequeues
\* nobody.
LEMMA SleepFrame ==
    ASSUME NobodySleepsThrough, disturbed \subseteq disturbed',
           \A u \in Threads \ disturbed' :
              /\ pc'[u] = "wait" => pc[u] = "wait"
              /\ pc'[u] = "wait" /\ wait_q'[u] = Null /\ wait_q[u] # Null =>
                    obj'[u].completed
              /\ notify[u] # <<>> => notify'[u] # <<>> \/ pc'[u] # "wait"
              /\ obj[u].completed => \/ obj'[u].completed \/ u \in botched'
                                     \/ pc'[u] # "wait"
              /\ u \in botched => u \in botched' \/ pc'[u] # "wait"
    PROVE  NobodySleepsThrough'
BY DEF NobodySleepsThrough

(***************************************************************************)
(* A step inside a call of a on t, or its return: only t and a's own       *)
(* position change.                                                        *)
(***************************************************************************)
LEMMA CallStep ==
    ASSUME IInv, Upset, UNCHANGED <<port, wait_q, notify>>,
           NEW a \in Actors, NEW t \in Threads, target[a] = t,
           NEW to \in Active, pc' = [pc EXCEPT ![a] = to],
           \/ pc[a] \in JoinSteps /\ to \in JoinSteps /\ target' = target
           \/ pc[a] \in AbortSteps /\ to \in AbortSteps /\ target' = target
           \/ pc[a] \in LifeSteps /\ to = "run" /\ target' = [target EXCEPT ![a] = Null],
           obj' \in [Threads -> Objects],
           completion' \in [Threads -> {"dead", "empty", "given"}],
           \A u \in Threads \ {t} : obj'[u] = obj[u] /\ completion'[u] = completion[u],
           botched \subseteq botched',
           t \notin disturbed' =>
              Sane(t)' /\ (obj[t].completed => obj'[t].completed \/ t \in botched')
    PROVE  IInv'
<1>1. pc[a] \in LifeSteps /\ pc'[a] = to /\ t # Null
  BY WaitQueueAssumption DEF IInv, Types, LifeSteps
<1>2. \A b \in Actors \ {a} : pc'[b] = pc[b] /\ target'[b] = target[b]
  BY DEF IInv, Types
<1>3. disturbed \subseteq disturbed' /\ disturbed' \subseteq Threads
  BY DEF Upset, RanOn, CutOff, IInv, Types
<1>4. Types'
  <2>1. pc' \in [Actors -> Active \cup ExitSteps \cup {"none"}]
    BY DEF IInv, Types
  <2>2. target' \in [Actors -> Threads \cup {Null}]
    BY DEF IInv, Types
  <2>3. target'[a] # Null <=> to \in {"reorder"} \cup AbortSteps \cup JoinSteps
    BY <1>1 DEF IInv, Types, AbortSteps, JoinSteps
  <2> QED BY <1>1, <1>2, <1>3, <2>1, <2>2, <2>3 DEF IInv, Types
<1>5. to \in LifeSteps => target'[a] = t
  BY <1>1 DEF LifeSteps, AbortSteps, JoinSteps
<1>6. OneCall'
  <2>1. to \in JoinSteps => pc[a] \in JoinSteps
    BY DEF LifeSteps, AbortSteps, JoinSteps
  <2>2. to \in AbortSteps => pc[a] \in AbortSteps
    BY DEF LifeSteps, AbortSteps, JoinSteps
  <2> QED BY <1>1, <1>2, <1>3, <1>5, <2>1, <2>2 DEF IInv, OneCall, LifeSteps
<1>7. AllSound'
  <2> SUFFICES ASSUME NEW u \in Threads \ disturbed', u # t PROVE Sane(u)'
    BY DEF AllSound
  <2>1. Steps(u)' = Steps(u)
    BY <1>1, <1>2, <1>5, StepsOfOthers DEF Still
  <2>2. \/ pc'[u] = pc[u]
        \/ /\ pc[u] \in Active /\ pc'[u] \in Active
           /\ "abort_delete" \notin Steps(u) /\ "abort_fail" \notin Steps(u)
    <3>1. pc'[u] # pc[u] => pc[u] \in Active /\ pc'[u] \in Active /\ pc'[u] # "none"
      BY <1>1, <1>2 DEF Actors, LifeSteps, Active, AbortSteps, JoinSteps
    <3> QED BY <3>1, MovesFreely
  <2>3. u \in Threads \ disturbed
    BY <1>3
  <2> QED BY <2>1, <2>2, <2>3, SoundFrame DEF IInv, AllSound
<1>8. NobodySleepsThrough'
  <2>1. \A u \in Threads : pc'[u] = "wait" => pc[u] = "wait"
    BY <1>1, <1>2 DEF Actors, LifeSteps, AbortSteps, JoinSteps
  <2> QED BY <1>3, <2>1, SleepFrame DEF IInv
<1> QED BY <1>4, <1>6, <1>7, <1>8 DEF IInv

\* What is known inside a call of a on t that goes on to another step or returns.
LEMMA InCall ==
    ASSUME IInv, NEW a \in Actors, pc[a] \in LifeSteps, NEW t, t = target[a],
           t \notin disturbed, \A b \in Actors \ {a} : Still(b, t)
    PROVE  /\ t \in Threads /\ t # a /\ t \in Actors
           /\ Sane(t) /\ obj[t] \in Objects /\ pc[a] \in Steps(t)
           /\ pc[a] \in JoinSteps => Steps(t) \cap JoinSteps = {pc[a]}
           /\ pc[a] \in AbortSteps => Steps(t) \cap AbortSteps = {pc[a]}
           /\ target'[a] = t /\ pc'[a] \in LifeSteps =>
                 Steps(t)' = (Steps(t) \ {pc[a]}) \cup {pc'[a]}
           /\ target'[a] = Null => Steps(t)' = Steps(t) \ {pc[a]}
<1>1. t \in Threads /\ t # a /\ t # Null
  BY WaitQueueAssumption DEF IInv, Types, OneCall, LifeSteps
<1>2. /\ Steps(t)' = (Steps(t) \ {pc[a]}) \cup {s \in LifeSteps : s = pc'[a] /\ target'[a] = t}
      /\ pc[a] \in Steps(t)
      /\ pc[a] \in JoinSteps => Steps(t) \cap JoinSteps = {pc[a]}
      /\ pc[a] \in AbortSteps => Steps(t) \cap AbortSteps = {pc[a]}
  BY <1>1, StepsOfTarget DEF IInv
<1>3. target'[a] = t /\ pc'[a] \in LifeSteps => Steps(t)' = (Steps(t) \ {pc[a]}) \cup {pc'[a]}
  BY <1>2
<1>4. target'[a] = Null => Steps(t)' = Steps(t) \ {pc[a]}
  BY <1>1, <1>2
<1> QED BY <1>1, <1>2, <1>3, <1>4 DEF IInv, Types, AllSound, Actors
-----------------------------------------------------------------------------
(* os_thread_join and os_thread_delete after their first critical section. *)

\* A call on the life of a thread has one for its target, and not the caller
\* itself unless that thread is disturbed.
LEMMA Target ==
    ASSUME IInv, Upset, NEW a \in Actors, pc[a] \in LifeSteps
    PROVE  /\ target[a] \in Threads
           /\ target[a] \notin disturbed' => target[a] \notin disturbed /\ target[a] # a
BY DEF IInv, Types, OneCall, LifeSteps, Upset

\* Taking the token, timing out and giving the claim back.
LEMMA JoinInv ==
    ASSUME IInv, Upset, UNCHANGED port, NEW a \in Actors,
           \/ os_thread_join_take(a) \/ os_thread_join_expire(a) \/ os_thread_join_timeout(a)
    PROVE  IInv'
<1> PICK t : t = target[a]
  OBVIOUS
<1>0. /\ pc[a] \in JoinSteps /\ pc[a] \in LifeSteps /\ t \in Threads
      /\ t \notin disturbed' => t \notin disturbed /\ t # a
  <2>1. pc[a] \in JoinSteps /\ pc[a] \in LifeSteps
    BY DEF os_thread_join_take, os_thread_join_expire, os_thread_join_timeout, Step, Return, Goto,
       LifeSteps, JoinSteps
  <2> QED BY <2>1, Target
<1>1. CASE os_thread_join_take(a)
  <2>1. /\ pc' = [pc EXCEPT ![a] = "join_reap"] /\ target' = target /\ pc[a] = "join_take"
        /\ obj' = obj /\ botched' = botched /\ wait_q' = wait_q /\ notify' = notify
        /\ completion[t] = "given" /\ completion' = [completion EXCEPT ![t] = "empty"]
    BY <1>1 DEF os_thread_join_take, Step, Goto, wvars
  <2>2. completion'[t] = "empty" /\ completion' \in [Threads -> {"dead", "empty", "given"}]
        /\ \A u \in Threads \ {t} : completion'[u] = completion[u]
    BY <1>0, <2>1 DEF IInv, Types
  <2>3. ASSUME t \notin disturbed' PROVE Sane(t)'
    <3>1. /\ pc'[a] = "join_reap" /\ pc'[t] = pc[t] /\ \A b \in Actors \ {a} : Still(b, t)
          /\ target'[a] = t /\ pc'[a] \in LifeSteps
      BY <1>0, <2>1, <2>3 DEF IInv, Types, Actors, Still, LifeSteps, JoinSteps
    <3>2. /\ Sane(t) /\ "join_take" \in Steps(t) /\ Steps(t) \cap JoinSteps = {"join_take"}
          /\ Steps(t)' = (Steps(t) \ {"join_take"}) \cup {"join_reap"}
      BY <1>0, <2>1, <2>3, <3>1, InCall
    <3> QED BY <2>1, <2>2, <3>1, <3>2 DEF Sane, Sound, Ending, Claiming, Semaphore, Ungiven,
               FreeRTOS, JoinSteps, AbortSteps
  <2> QED BY <1>0, <2>1, <2>2, <2>3, CallStep DEF IInv, Types, Active, JoinSteps
<1>2. CASE os_thread_join_expire(a)
  <2>1. /\ pc' = [pc EXCEPT ![a] = "join_expired"] /\ target' = target /\ pc[a] = "join_take"
        /\ obj' = obj /\ completion' = completion /\ botched' = botched /\ wait_q' = wait_q
        /\ notify' = notify
    BY <1>2 DEF os_thread_join_expire, Step, Goto, wvars, tvars
  <2>2. ASSUME t \notin disturbed' PROVE Sane(t)'
    <3>1. /\ pc'[a] = "join_expired" /\ pc'[t] = pc[t] /\ \A b \in Actors \ {a} : Still(b, t)
          /\ target'[a] = t /\ pc'[a] \in LifeSteps
      BY <1>0, <2>1, <2>2 DEF IInv, Types, Actors, Still, LifeSteps, JoinSteps
    <3>2. /\ Sane(t) /\ "join_take" \in Steps(t) /\ Steps(t) \cap JoinSteps = {"join_take"}
          /\ Steps(t)' = (Steps(t) \ {"join_take"}) \cup {"join_expired"}
      BY <1>0, <2>1, <2>2, <3>1, InCall
    <3> QED BY <2>1, <3>1, <3>2 DEF Sane, Sound, Ending, Claiming, Semaphore, Ungiven, FreeRTOS,
               JoinSteps, AbortSteps
  <2> QED BY <1>0, <2>1, <2>2, CallStep DEF IInv, Types, Active, JoinSteps
<1>3. CASE os_thread_join_timeout(a)
  <2>1. /\ pc' = [pc EXCEPT ![a] = "run"] /\ target' = [target EXCEPT ![a] = Null]
        /\ pc[a] = "join_expired"
        /\ obj' = [obj EXCEPT ![t]["join_active"] = FALSE] /\ completion' = completion
        /\ botched' = botched /\ wait_q' = wait_q /\ notify' = notify
    BY <1>3 DEF os_thread_join_timeout, Return, Goto, Set, wvars
  <2>2. obj[t] \in Objects /\ obj'[t] = [obj[t] EXCEPT !.join_active = FALSE]
        /\ \A u \in Threads \ {t} : obj'[u] = obj[u]
    BY <1>0, <2>1 DEF IInv, Types
  <2>3. obj' \in [Threads -> Objects] /\ obj'[t].completed = obj[t].completed
    BY <1>0, <2>1, <2>2 DEF IInv, Types, Objects
  <2>4. ASSUME t \notin disturbed' PROVE Sane(t)'
    <3>1. /\ pc'[t] = pc[t] /\ \A b \in Actors \ {a} : Still(b, t) /\ target'[a] = Null
      BY <1>0, <2>1, <2>4 DEF IInv, Types, Actors, Still
    <3>2. /\ Sane(t) /\ "join_expired" \in Steps(t) /\ Steps(t) \cap JoinSteps = {"join_expired"}
          /\ Steps(t)' = Steps(t) \ {"join_expired"}
      BY <1>0, <2>1, <2>4, <3>1, InCall
    <3> QED BY <2>1, <2>2, <3>1, <3>2 DEF Sane, Sound, Ending, Claiming, Semaphore, Ungiven,
               FreeRTOS, JoinSteps, AbortSteps, Objects
  <2> QED BY <1>0, <2>1, <2>2, <2>3, <2>4, CallStep DEF IInv, Types, Active
<1> QED BY <1>1, <1>2, <1>3

\* The two steps of os_thread_reap, in the order of either port.
LEMMA ReapInv ==
    ASSUME IInv, Upset, UNCHANGED port, NEW a \in Actors, NEW from, NEW to,
           \/ from = "join_reap" /\ to = "join_free"
           \/ from = "delete_reap" /\ to = "delete_free",
           os_thread_reap(a, from, to) \/ os_thread_reap_end(a, to)
    PROVE  IInv'
<1> PICK t : t = target[a]
  OBVIOUS
<1>0. /\ from \in JoinSteps /\ to \in JoinSteps /\ from \in LifeSteps /\ to \in LifeSteps
      /\ to \in Active /\ "run" \in Active
  BY DEF JoinSteps, LifeSteps, Active
<1>t. t \in Threads /\ (t \notin disturbed' => t \notin disturbed /\ t # a)
  <2>1. pc[a] = from \/ pc[a] = to
    BY DEF os_thread_reap, os_thread_reap_end, Step, Return, Goto
  <2> QED BY <1>0, <2>1, Target
<1>o. obj[t] \in Objects
  BY <1>t DEF IInv, Types
<1>r. ASSUME Reaped(t)
      PROVE  /\ obj' \in [Threads -> Objects] /\ \A u \in Threads \ {t} : obj'[u] = obj[u]
             /\ ~obj'[t].handle /\ obj'[t].completion_reaped /\ ~obj'[t].join_active
             /\ ~obj'[t].completion_handle
             /\ obj'[t].completed = obj[t].completed
             /\ obj'[t].completion_signaled = obj[t].completion_signaled
  <2>1. obj[t] \in Objects /\ DOMAIN obj = Threads
    BY <1>t DEF IInv, Types
  <2>2. PICK o : o = [obj[t] EXCEPT !.completion_handle = FALSE, !.handle = FALSE,
                                    !.completion_reaped = TRUE, !.join_active = FALSE]
    OBVIOUS
  <2>3. obj' = [obj EXCEPT ![t] = o]
    BY <1>r, <2>1, <2>2 DEF Reaped
  <2>4. /\ o \in Objects /\ o.handle = FALSE /\ o.completion_reaped = TRUE
        /\ o.completion_handle = FALSE
        /\ o.join_active = FALSE /\ o.completed = obj[t].completed
        /\ o.completion_signaled = obj[t].completion_signaled
    BY <2>1, <2>2 DEF Objects
  <2> QED BY <1>t, <2>1, <2>3, <2>4 DEF IInv, Types
<1>f. ASSUME Freed(t)
      PROVE  /\ completion' \in [Threads -> {"dead", "empty", "given"}]
             /\ \A u \in Threads \ {t} : completion'[u] = completion[u]
             /\ completion'[t] = "dead"
  BY <1>f, <1>t DEF IInv, Types, Freed
<1>1. CASE os_thread_reap(a, from, to)
  <2>1. /\ pc' = [pc EXCEPT ![a] = to] /\ target' = target /\ pc[a] = from
        /\ botched' = botched /\ wait_q' = wait_q /\ notify' = notify
        /\ IF FreeRTOS THEN Reaped(t) /\ completion' = completion
                       ELSE Freed(t) /\ obj' = obj
    BY <1>1 DEF os_thread_reap, Step, Goto, wvars
  <2>2. /\ obj' \in [Threads -> Objects] /\ obj'[t].completed = obj[t].completed
        /\ completion' \in [Threads -> {"dead", "empty", "given"}]
        /\ \A u \in Threads \ {t} : obj'[u] = obj[u] /\ completion'[u] = completion[u]
    BY <1>r, <1>f, <2>1 DEF IInv, Types
  <2>3. ASSUME t \notin disturbed' PROVE Sane(t)'
    <3>1. /\ pc'[t] = pc[t] /\ Sane(t) /\ from \in Steps(t)
          /\ Steps(t) \cap JoinSteps = {from}
          /\ Steps(t)' = (Steps(t) \ {from}) \cup {to}
      <4>1. /\ \A b \in Actors \ {a} : Still(b, t)
            /\ pc'[a] = to /\ pc'[t] = pc[t] /\ target'[a] = t
        BY <1>t, <2>1, <2>3 DEF IInv, Types, Still, Actors
      <4> QED BY <1>0, <1>t, <2>1, <2>3, <4>1, InCall
    <3>2. CASE FreeRTOS
      BY <1>o, <1>r, <2>1, <3>1, <3>2 DEF Sane, Sound, Ending, Claiming, Semaphore, Ungiven,
         FreeRTOS, JoinSteps, AbortSteps, Objects
    <3>3. CASE ~FreeRTOS
      BY <1>o, <1>f, <2>1, <3>1, <3>3 DEF Sane, Sound, Ending, Claiming, Semaphore, Ungiven,
         FreeRTOS, JoinSteps, AbortSteps, Objects
    <3> QED BY <3>2, <3>3
  <2> QED BY <1>0, <1>t, <2>1, <2>2, <2>3, CallStep
<1>2. CASE os_thread_reap_end(a, to)
  <2>1. /\ pc' = [pc EXCEPT ![a] = "run"] /\ target' = [target EXCEPT ![a] = Null]
        /\ pc[a] = to /\ botched' = botched /\ wait_q' = wait_q /\ notify' = notify
        /\ IF FreeRTOS THEN Freed(t) /\ obj' = obj
                       ELSE Reaped(t) /\ completion' = completion
    BY <1>2 DEF os_thread_reap_end, Return, Goto, wvars
  <2>2. /\ obj' \in [Threads -> Objects] /\ obj'[t].completed = obj[t].completed
        /\ completion' \in [Threads -> {"dead", "empty", "given"}]
        /\ \A u \in Threads \ {t} : obj'[u] = obj[u] /\ completion'[u] = completion[u]
    BY <1>r, <1>f, <2>1 DEF IInv, Types
  <2>3. ASSUME t \notin disturbed' PROVE Sane(t)'
    <3>1. /\ pc'[t] = pc[t] /\ Sane(t) /\ to \in Steps(t)
          /\ Steps(t) \cap JoinSteps = {to}
          /\ Steps(t)' = Steps(t) \ {to}
      <4>1. /\ \A b \in Actors \ {a} : Still(b, t)
            /\ pc'[a] = "run" /\ pc'[t] = pc[t] /\ target'[a] = Null
        BY <1>t, <2>1, <2>3 DEF IInv, Types, Still, Actors
      <4> QED BY <1>0, <1>t, <2>1, <2>3, <4>1, InCall
    <3>2. CASE FreeRTOS
      BY <1>o, <1>f, <2>1, <3>1, <3>2 DEF Sane, Sound, Ending, Claiming, Semaphore, Ungiven,
         FreeRTOS, JoinSteps, AbortSteps, Objects
    <3>3. CASE ~FreeRTOS
      BY <1>o, <1>r, <2>1, <3>1, <3>3 DEF Sane, Sound, Ending, Claiming, Semaphore, Ungiven,
         FreeRTOS, JoinSteps, AbortSteps, Objects
    <3> QED BY <3>2, <3>3
  <2> QED BY <1>0, <1>t, <2>1, <2>2, <2>3, CallStep
<1> QED BY <1>1, <1>2
-----------------------------------------------------------------------------
(* Calls that begin.                                                       *)

\* A call of a on t begins; if t is not disturbed no other call of its kind is on.
LEMMA NewCall ==
    ASSUME IInv, Upset, UNCHANGED <<port, notify, completion, botched>>,
           NEW a \in Actors, NEW t \in Threads, pc[a] = "run",
           NEW to \in LifeSteps, pc' = [pc EXCEPT ![a] = to],
           target' = [target EXCEPT ![a] = t],
           to \in AbortSteps => t # a,
           obj' \in [Threads -> Objects], \A u \in Threads \ {t} : obj'[u] = obj[u],
           obj[t].completed => obj'[t].completed,
           \/ wait_q' = wait_q
           \/ wait_q' = [wait_q EXCEPT ![t] = Null] /\ obj'[t].completed,
           t \notin disturbed' =>
              /\ Sane(t)' /\ t # a
              /\ to \in JoinSteps => Steps(t) \cap JoinSteps = {}
              /\ to \in AbortSteps => Steps(t) \cap AbortSteps = {}
    PROVE  IInv'
<1>1. /\ pc'[a] = to /\ target'[a] = t /\ target[a] = Null /\ t # Null
      /\ pc[a] \notin LifeSteps /\ to \in Active /\ pc[a] \in Active
      /\ \A b \in Actors \ {a} : pc'[b] = pc[b] /\ target'[b] = target[b]
  BY WaitQueueAssumption DEF IInv, Types, LifeSteps, AbortSteps, JoinSteps, Active
<1>2. disturbed \subseteq disturbed' /\ disturbed' \subseteq Threads
  BY DEF Upset, RanOn, CutOff, IInv, Types
<1>3. Types'
  <2>1. pc' \in [Actors -> Active \cup ExitSteps \cup {"none"}]
        /\ target' \in [Actors -> Threads \cup {Null}]
    BY <1>1 DEF IInv, Types
  <2>2. DOMAIN wait_q' = Threads /\ DOMAIN notify' = Threads
    BY DEF IInv, Types
  <2>3. \A b \in Actors : target'[b] # Null <=>
            pc'[b] \in {"reorder"} \cup AbortSteps \cup JoinSteps
    BY <1>1 DEF IInv, Types, LifeSteps
  <2> QED BY <1>2, <2>1, <2>2, <2>3 DEF IInv, Types
<1>4. OneCall'
  <2>1. \A b \in Actors \ {a} : target[b] = t /\ t \notin disturbed' =>
           /\ to \in JoinSteps => pc[b] \notin JoinSteps
           /\ to \in AbortSteps => pc[b] \notin AbortSteps
    BY DEF Steps, CallOn, LifeSteps
  <2> QED BY <1>1, <1>2, <2>1 DEF IInv, OneCall, LifeSteps
<1>5. AllSound'
  <2> SUFFICES ASSUME NEW u \in Threads \ disturbed', u # t PROVE Sane(u)'
    BY DEF AllSound
  <2>1. Steps(u)' = Steps(u)
    BY <1>1, StepsOfOthers DEF Still
  <2>2. \/ pc'[u] = pc[u]
        \/ /\ pc[u] \in Active /\ pc'[u] \in Active
           /\ "abort_delete" \notin Steps(u) /\ "abort_fail" \notin Steps(u)
    <3>1. pc'[u] # pc[u] => pc[u] \in Active /\ pc'[u] \in Active /\ pc'[u] # "none"
      BY <1>1 DEF Actors, LifeSteps, AbortSteps, JoinSteps
    <3> QED BY <3>1, MovesFreely
  <2>3. u \in Threads \ disturbed
    BY <1>2
  <2> QED BY <2>1, <2>2, <2>3, SoundFrame DEF IInv, AllSound
<1>6. NobodySleepsThrough'
  <2>1. \A u \in Threads : pc'[u] = "wait" => pc[u] = "wait"
    BY <1>1 DEF Actors, LifeSteps, AbortSteps, JoinSteps
  <2>2. \A u \in Threads : wait_q'[u] = Null /\ wait_q[u] # Null => obj'[u].completed
    BY DEF IInv, Types
  <2> QED BY <1>2, <2>1, <2>2, SleepFrame DEF IInv
<1> QED BY <1>3, <1>4, <1>5, <1>6 DEF IInv

\* os_thread_join and os_thread_delete claim a thread that nobody claims.
LEMMA ClaimInv ==
    ASSUME IInv, Upset, UNCHANGED port, NEW a \in Actors, NEW t \in Threads,
           os_thread_join(a, t) \/ os_thread_delete(a, t)
    PROVE  IInv'
<1>1. PICK to \in {"join_take", "delete_reap"} :
        /\ pc' = [pc EXCEPT ![a] = to] /\ target' = [target EXCEPT ![a] = t]
        /\ pc[a] = "run" /\ MayJoin(t)
        /\ obj' = [obj EXCEPT ![t]["join_active"] = TRUE] /\ completion' = completion
        /\ botched' = botched /\ wait_q' = wait_q /\ notify' = notify
        /\ to = "join_take" => a # t
        /\ to = "delete_reap" => obj[t].completed /\ obj[t].completion_signaled
  <2>1. CASE os_thread_join(a, t)
    BY <2>1 DEF os_thread_join, Enter, Goto, Set, wvars
  <2>2. CASE os_thread_delete(a, t)
    BY <2>2 DEF os_thread_delete, MayDelete, Enter, Goto, Set, wvars
  <2> QED BY <2>1, <2>2
<1>2. obj[t] \in Objects /\ obj'[t] = [obj[t] EXCEPT !.join_active = TRUE]
  BY <1>1 DEF IInv, Types
<1>3. /\ obj' \in [Threads -> Objects] /\ \A u \in Threads \ {t} : obj'[u] = obj[u]
      /\ obj'[t].completed = obj[t].completed
  BY <1>1, <1>2 DEF IInv, Types, Objects
<1>4. to \in LifeSteps /\ to \in JoinSteps /\ to \notin AbortSteps /\ pc[a] \notin LifeSteps
  BY <1>1 DEF LifeSteps, JoinSteps, AbortSteps
<1>5. ASSUME t \notin disturbed'
      PROVE  Sane(t)' /\ t # a /\ Steps(t) \cap JoinSteps = {}
  <2>1. /\ Sane(t) /\ obj[t].completion_handle /\ ~obj[t].completion_reaped
        /\ ~obj[t].join_active
    BY <1>1, <1>5 DEF IInv, AllSound, MayJoin, Upset
  <2>2. obj[t].handle
    BY <1>2, <2>1 DEF Sane, Sound, Claiming, Objects
  <2>3. Steps(t) \cap JoinSteps = {}
    BY <2>1, <2>2 DEF Sane, Sound, Claiming
  <2>4. to = "delete_reap" => ~Ungiven(pc[t], Steps(t))
    BY <1>1, <2>1 DEF Sane, Sound, Semaphore
  <2>5. a # t
    BY <1>1, <2>4 DEF Ungiven, Active
  <2>6. Steps(t)' = Steps(t) \cup {to} /\ pc'[t] = pc[t]
    <3>1. /\ pc'[a] = to /\ pc'[t] = pc[t] /\ target'[a] = t
          /\ \A b \in Actors \ {a} : Still(b, t)
      BY <1>1, <2>5 DEF IInv, Types, Actors, Still
    <3> QED BY <1>4, <3>1, StepsOfNewCall
  <2>7. CASE to = "join_take"
    BY <1>1, <1>2, <2>1, <2>2, <2>3, <2>5, <2>6, <2>7 DEF Sane, Sound, Ending, Claiming,
       Semaphore, Ungiven, FreeRTOS, JoinSteps, AbortSteps, Objects
  <2>8. CASE to = "delete_reap"
    BY <1>1, <1>2, <2>1, <2>2, <2>3, <2>4, <2>5, <2>6, <2>8 DEF Sane, Sound, Ending, Claiming,
       Semaphore, Ungiven, FreeRTOS, JoinSteps, AbortSteps, Objects
  <2> QED BY <1>1, <2>3, <2>5, <2>7, <2>8
<1> QED BY <1>1, <1>3, <1>4, <1>5, NewCall
-----------------------------------------------------------------------------
(* os_thread_abort of another thread.                                      *)

\* The critical section takes the end of t into the hands of a.
LEMMA AbortInv ==
    ASSUME IInv, Upset, UNCHANGED port, NEW a \in Actors, NEW t \in Threads, a # t,
           os_thread_abort(a, t)
    PROVE  IInv'
<1>1. /\ pc' = [pc EXCEPT ![a] = "abort_delete"] /\ target' = [target EXCEPT ![a] = t]
      /\ pc[a] = "run" /\ obj[t].handle /\ ~obj[t].completed
      /\ obj' = [obj EXCEPT ![t].cancel_requested = TRUE, ![t].completed = TRUE]
      /\ wait_q' = [wait_q EXCEPT ![t] = Null]
      /\ notify' = notify /\ completion' = completion /\ botched' = botched
  BY DEF os_thread_abort, Enter, Goto, Dequeue
<1>2. obj[t] \in Objects /\ DOMAIN obj = Threads
  BY DEF IInv, Types
<1>3. PICK o : o = [obj[t] EXCEPT !.cancel_requested = TRUE, !.completed = TRUE]
  OBVIOUS
<1>4. obj' = [obj EXCEPT ![t] = o]
  BY <1>1, <1>2, <1>3
<1>5. /\ o \in Objects /\ o.completed = TRUE /\ o.handle = obj[t].handle
      /\ o.completion_handle = obj[t].completion_handle
      /\ o.completion_signaled = obj[t].completion_signaled
      /\ o.completion_reaped = obj[t].completion_reaped /\ o.join_active = obj[t].join_active
  BY <1>2, <1>3 DEF Objects
<1>6. /\ obj' \in [Threads -> Objects] /\ \A u \in Threads \ {t} : obj'[u] = obj[u]
      /\ obj'[t] = o
  BY <1>2, <1>4, <1>5 DEF IInv, Types
<1>7. "abort_delete" \in LifeSteps /\ "abort_delete" \notin JoinSteps /\ pc[a] \notin LifeSteps
  BY <1>1 DEF LifeSteps, JoinSteps, AbortSteps
<1>8. ASSUME t \notin disturbed'
      PROVE  Sane(t)' /\ Steps(t) \cap AbortSteps = {}
  <2>1. Sane(t)
    BY <1>8 DEF IInv, AllSound, Upset
  <2>2. pc[t] \in Active
    <3>1. pc[t] \in Active \cup ExitSteps \cup {"none"}
      BY DEF IInv, Types, Actors
    <3>2. Ending(obj[t], pc[t], Steps(t), t \in botched)
      BY <2>1 DEF Sane, Sound
    <3>3. pc[t] \notin ExitSteps
      BY <1>1, <3>2 DEF Ending
    <3>4. pc[t] # "none"
      BY <1>1, <3>2 DEF Ending
    <3> QED BY <3>1, <3>3, <3>4
  <2>3. Steps(t) \cap AbortSteps = {}
    BY <1>1, <2>1, <2>2 DEF Sane, Sound, Ending, AbortSteps
  <2>4. Steps(t)' = Steps(t) \cup {"abort_delete"} /\ pc'[t] = pc[t]
    <3>1. /\ pc'[a] = "abort_delete" /\ pc'[t] = pc[t] /\ target'[a] = t
          /\ \A b \in Actors \ {a} : Still(b, t)
      BY <1>1 DEF IInv, Types, Actors, Still
    <3> QED BY <1>7, <3>1, StepsOfNewCall
  <2>5. Sane(t)'
    BY <1>1, <1>5, <1>6, <2>1, <2>2, <2>3, <2>4 DEF Sane, Sound, Ending, Claiming, Semaphore,
       Ungiven, FreeRTOS, JoinSteps, AbortSteps, Active, ExitSteps
  <2> QED BY <2>3, <2>5
<1> QED BY <1>1, <1>5, <1>6, <1>7, <1>8, NewCall

(***************************************************************************)
(* The native task of t is deleted: its end is with a alone from here on.  *)
(* A thread that t itself was about to join, delete or abort is disturbed. *)
(***************************************************************************)
LEMMA AbortDeleteInv ==
    ASSUME IInv, Upset, UNCHANGED port, NEW a \in Actors, os_thread_abort_delete(a)
    PROVE  IInv'
<1> PICK t : t = target[a]
  OBVIOUS
<1>1. /\ pc' = [pc EXCEPT ![t] = "none", ![a] = "abort_give"] /\ pc[a] = "abort_delete"
      /\ target' = [target EXCEPT ![t] = Null]
      /\ notify' = [notify EXCEPT ![t] = <<>>] /\ botched' = botched \ {t}
      /\ wait_q' = wait_q /\ obj' = obj /\ completion' = completion
  BY DEF os_thread_abort_delete, Gone
<1>2. /\ pc[a] \in LifeSteps /\ pc[a] \in AbortSteps /\ pc[a] \in Active
      /\ "abort_give" \in LifeSteps /\ "abort_give" \in AbortSteps /\ "abort_give" \in Active
      /\ "abort_give" \notin JoinSteps /\ "none" \notin LifeSteps
      /\ "none" \notin {"reorder"} \cup AbortSteps \cup JoinSteps
  BY <1>1 DEF LifeSteps, AbortSteps, JoinSteps, Active
<1>3. t \in Threads /\ t # a /\ t \in Actors /\ t # Null
  BY <1>2, WaitQueueAssumption DEF IInv, Types, OneCall, Actors, LifeSteps
<1>4. /\ pc'[a] = "abort_give" /\ pc'[t] = "none" /\ target'[a] = t /\ target'[t] = Null
      /\ \A b \in Actors \ {a, t} : pc'[b] = pc[b] /\ target'[b] = target[b]
  BY <1>1, <1>3 DEF IInv, Types
<1>5. disturbed \subseteq disturbed' /\ disturbed' \subseteq Threads
  BY DEF Upset, RanOn, CutOff, IInv, Types
<1>6. target[t] \in Threads => target[t] \in disturbed'
  BY <1>3, <1>4 DEF Upset, CutOff, CallOn
<1>7. ASSUME NEW u \in Threads \ disturbed'
      PROVE  \A b \in Actors \ {a} : Still(b, u)
  BY <1>2, <1>4, <1>6 DEF Still
<1>8. Types'
  <2>1. pc' \in [Actors -> Active \cup ExitSteps \cup {"none"}]
    BY <1>1, <1>2 DEF IInv, Types
  <2>2. target' \in [Actors -> Threads \cup {Null}]
    BY <1>1 DEF IInv, Types
  <2>3. \A b \in Actors : target'[b] # Null <=>
            pc'[b] \in {"reorder"} \cup AbortSteps \cup JoinSteps
    BY <1>2, <1>3, <1>4 DEF IInv, Types
  <2> QED BY <1>1, <1>5, <2>1, <2>2, <2>3 DEF IInv, Types
<1>9. OneCall'
  BY <1>2, <1>3, <1>4, <1>5 DEF IInv, OneCall, LifeSteps
<1>10. AllSound'
  <2> SUFFICES ASSUME NEW u \in Threads \ disturbed' PROVE Sane(u)'
    BY DEF AllSound
  <2>1. u \in Threads \ disturbed /\ Sane(u)
    BY <1>5 DEF IInv, AllSound
  <2>2. CASE u = t
    <3>1. /\ Steps(t)' = (Steps(t) \ {"abort_delete"}) \cup {"abort_give"}
          /\ Steps(t) \cap AbortSteps = {"abort_delete"} /\ "abort_delete" \in Steps(t)
      <4>1. target'[a] = t /\ pc'[a] \in LifeSteps /\ \A b \in Actors \ {a} : Still(b, t)
        BY <1>2, <1>4, <1>7, <2>2
      <4>2. /\ Steps(t)' = (Steps(t) \ {pc[a]}) \cup {pc'[a]}
            /\ Steps(t) \cap AbortSteps = {pc[a]} /\ pc[a] \in Steps(t)
        BY <1>2, <2>1, <2>2, <4>1, InCall
      <4> QED BY <1>1, <1>4, <4>2
    <3> QED BY <1>1, <1>3, <1>4, <2>1, <2>2, <3>1 DEF Sane, Sound, Ending, Claiming, Semaphore,
               Ungiven, FreeRTOS, JoinSteps, AbortSteps, Active, ExitSteps
  <2>3. CASE u # t
    <3>1. Steps(u)' = Steps(u)
      <4>1. Still(a, u)
        BY <1>4, <2>3 DEF Still
      <4> QED BY <1>7, <4>1, StepsOfOthers
    <3>2. \/ pc'[u] = pc[u]
          \/ /\ pc[u] \in Active /\ pc'[u] \in Active
             /\ "abort_delete" \notin Steps(u) /\ "abort_fail" \notin Steps(u)
      <4>1. pc'[u] # pc[u] => pc[u] \in Active /\ pc'[u] \in Active /\ pc'[u] # "none"
        BY <1>1, <1>2, <1>4, <2>3 DEF Actors
      <4> QED BY <4>1, MovesFreely
    <3> QED BY <1>1, <2>1, <2>3, <3>1, <3>2, SoundFrame
  <2> QED BY <2>2, <2>3
<1>11. NobodySleepsThrough'
  <2>1. \A u \in Threads : pc'[u] = "wait" => pc[u] = "wait" /\ u # t
    BY <1>4 DEF Actors
  <2>2. \A u \in Threads \ {t} : notify'[u] = notify[u]
    BY <1>1 DEF IInv, Types
  <2> QED BY <1>1, <1>5, <2>1, <2>2 DEF IInv, NobodySleepsThrough
<1> QED BY <1>8, <1>9, <1>10, <1>11 DEF IInv

\* The rest of an abort: refused by the kernel, or announced.
LEMMA AbortEndInv ==
    ASSUME IInv, Upset, UNCHANGED port, NEW a \in Actors,
           \/ os_thread_abort_refused(a) \/ os_thread_abort_fail(a)
           \/ os_thread_abort_give(a) \/ os_thread_abort_signal(a)
    PROVE  IInv'
<1> PICK t : t = target[a]
  OBVIOUS
<1>0. /\ pc[a] \in AbortSteps /\ pc[a] \in LifeSteps /\ t \in Threads /\ obj[t] \in Objects
      /\ t \notin disturbed' => t \notin disturbed /\ t # a
  <2>1. pc[a] \in AbortSteps /\ pc[a] \in LifeSteps
    BY DEF os_thread_abort_refused, os_thread_abort_fail, os_thread_abort_give,
       os_thread_abort_signal, Step, Return, Goto, LifeSteps, AbortSteps
  <2> QED BY <2>1, Target DEF IInv, Types
<1>1. CASE os_thread_abort_refused(a)
  <2>1. /\ pc' = [pc EXCEPT ![a] = "abort_fail"] /\ target' = target /\ pc[a] = "abort_delete"
        /\ obj' = obj /\ completion' = completion /\ botched' = botched \cup {t}
        /\ wait_q' = wait_q /\ notify' = notify
    BY <1>1 DEF os_thread_abort_refused, Step, Goto, wvars
  <2>2. ASSUME t \notin disturbed' PROVE Sane(t)'
    <3>1. /\ pc'[a] = "abort_fail" /\ pc'[t] = pc[t] /\ \A b \in Actors \ {a} : Still(b, t)
          /\ target'[a] = t /\ pc'[a] \in LifeSteps
      BY <1>0, <2>1, <2>2 DEF IInv, Types, Actors, Still, LifeSteps, AbortSteps
    <3>2. /\ Sane(t) /\ "abort_delete" \in Steps(t)
          /\ Steps(t) \cap AbortSteps = {"abort_delete"}
          /\ Steps(t)' = (Steps(t) \ {"abort_delete"}) \cup {"abort_fail"}
      BY <1>0, <2>1, <2>2, <3>1, InCall
    <3> QED BY <2>1, <3>1, <3>2 DEF Sane, Sound, Ending, Claiming, Semaphore, Ungiven, FreeRTOS,
               JoinSteps, AbortSteps, Active, ExitSteps
  <2> QED BY <1>0, <2>1, <2>2, CallStep DEF IInv, Types, Active, AbortSteps
<1>2. CASE os_thread_abort_fail(a)
  <2>1. /\ pc' = [pc EXCEPT ![a] = "run"] /\ target' = [target EXCEPT ![a] = Null]
        /\ pc[a] = "abort_fail"
        /\ obj' = [obj EXCEPT ![t]["completed"] = FALSE] /\ completion' = completion
        /\ botched' = botched /\ wait_q' = wait_q /\ notify' = notify
    BY <1>2 DEF os_thread_abort_fail, Return, Goto, Set, wvars
  <2>2. obj'[t] = [obj[t] EXCEPT !.completed = FALSE] /\ \A u \in Threads \ {t} : obj'[u] = obj[u]
    BY <1>0, <2>1 DEF IInv, Types
  <2>3. obj' \in [Threads -> Objects]
    BY <1>0, <2>1, <2>2 DEF IInv, Types, Objects
  <2>4. ASSUME t \notin disturbed' PROVE Sane(t)' /\ t \in botched
    <3>1. /\ pc'[t] = pc[t] /\ \A b \in Actors \ {a} : Still(b, t) /\ target'[a] = Null
      BY <1>0, <2>1, <2>4 DEF IInv, Types, Actors, Still
    <3>2. /\ Sane(t) /\ "abort_fail" \in Steps(t) /\ Steps(t) \cap AbortSteps = {"abort_fail"}
          /\ Steps(t)' = Steps(t) \ {"abort_fail"}
      BY <1>0, <2>1, <2>4, <3>1, InCall
    <3>3. Sane(t)'
      BY <1>0, <2>1, <2>2, <3>1, <3>2 DEF Sane, Sound, Ending, Claiming, Semaphore, Ungiven,
         FreeRTOS, JoinSteps, AbortSteps, Objects, Active, ExitSteps
    <3> QED BY <3>2, <3>3 DEF Sane, Sound, Ending
  <2> QED BY <1>0, <2>1, <2>2, <2>3, <2>4, CallStep DEF IInv, Types, Active
<1>3. CASE os_thread_abort_give(a)
  <2>1. /\ pc' = [pc EXCEPT ![a] = "abort_signal"] /\ target' = target /\ pc[a] = "abort_give"
        /\ obj' = obj /\ completion' = Given(t) /\ botched' = botched
        /\ wait_q' = wait_q /\ notify' = notify
    BY <1>3 DEF os_thread_abort_give, Step, Goto, wvars
  <2>2. /\ completion' \in [Threads -> {"dead", "empty", "given"}]
        /\ \A u \in Threads \ {t} : completion'[u] = completion[u]
        /\ completion[t] = "empty" => completion'[t] = "given"
    BY <1>0, <2>1 DEF Given, IInv, Types
  <2>3. ASSUME t \notin disturbed' PROVE Sane(t)'
    <3>1. /\ pc'[a] = "abort_signal" /\ pc'[t] = pc[t] /\ \A b \in Actors \ {a} : Still(b, t)
          /\ target'[a] = t /\ pc'[a] \in LifeSteps
      BY <1>0, <2>1, <2>3 DEF IInv, Types, Actors, Still, LifeSteps, AbortSteps
    <3>2. /\ Sane(t) /\ "abort_give" \in Steps(t) /\ Steps(t) \cap AbortSteps = {"abort_give"}
          /\ Steps(t)' = (Steps(t) \ {"abort_give"}) \cup {"abort_signal"}
      BY <1>0, <2>1, <2>3, <3>1, InCall
    <3>3. completion'[t] = "given"
      BY <2>2, <3>2 DEF Sane, Sound, Semaphore, Ungiven
    <3> QED BY <2>1, <3>1, <3>2, <3>3 DEF Sane, Sound, Ending, Claiming, Semaphore, Ungiven,
               FreeRTOS, JoinSteps, AbortSteps, Active, ExitSteps
  <2> QED BY <1>0, <2>1, <2>2, <2>3, CallStep DEF IInv, Types, Active, AbortSteps
<1>4. CASE os_thread_abort_signal(a)
  <2>1. /\ pc' = [pc EXCEPT ![a] = "run"] /\ target' = [target EXCEPT ![a] = Null]
        /\ pc[a] = "abort_signal"
        /\ obj' = [obj EXCEPT ![t]["completion_signaled"] = TRUE] /\ completion' = completion
        /\ botched' = botched /\ wait_q' = wait_q /\ notify' = notify
    BY <1>4 DEF os_thread_abort_signal, Return, Goto, Set, wvars
  <2>2. obj'[t] = [obj[t] EXCEPT !.completion_signaled = TRUE]
        /\ \A u \in Threads \ {t} : obj'[u] = obj[u]
    BY <1>0, <2>1 DEF IInv, Types
  <2>3. obj' \in [Threads -> Objects] /\ obj'[t].completed = obj[t].completed
    BY <1>0, <2>1, <2>2 DEF IInv, Types, Objects
  <2>4. ASSUME t \notin disturbed' PROVE Sane(t)'
    <3>1. /\ pc'[t] = pc[t] /\ \A b \in Actors \ {a} : Still(b, t) /\ target'[a] = Null
      BY <1>0, <2>1, <2>4 DEF IInv, Types, Actors, Still
    <3>2. /\ Sane(t) /\ "abort_signal" \in Steps(t)
          /\ Steps(t) \cap AbortSteps = {"abort_signal"}
          /\ Steps(t)' = Steps(t) \ {"abort_signal"}
      BY <1>0, <2>1, <2>4, <3>1, InCall
    <3> QED BY <1>0, <2>1, <2>2, <3>1, <3>2 DEF Sane, Sound, Ending, Claiming, Semaphore, Ungiven,
               FreeRTOS, JoinSteps, AbortSteps, Objects, Active, ExitSteps
  <2> QED BY <1>0, <2>1, <2>2, <2>3, <2>4, CallStep DEF IInv, Types, Active
<1> QED BY <1>1, <1>2, <1>3, <1>4
-----------------------------------------------------------------------------
(* Creation, the end of a task, cancellation.                              *)

\* Nobody but t, if anybody, ceases to be disturbed.
Calmed(t) == /\ disturbed \ {t} \subseteq disturbed' /\ disturbed' \subseteq Threads
             /\ t \in disturbed /\ t \notin disturbed' => CallOn(t) = {}

\* A step that concerns t alone, outside of its calls on other threads.
LEMMA OwnStep ==
    ASSUME IInv, UNCHANGED <<port, target>>, NEW t \in Threads, Calmed(t),
           pc[t] \in ExitSteps \cup {"run", "none"},
           NEW to \in ExitSteps \cup {"run", "none"}, pc' = [pc EXCEPT ![t] = to],
           obj' \in [Threads -> Objects],
           completion' \in [Threads -> {"dead", "empty", "given"}],
           DOMAIN wait_q' = Threads, DOMAIN notify' = Threads,
           \A u \in Threads \ {t} :
              /\ obj'[u] = obj[u] /\ completion'[u] = completion[u]
              /\ wait_q'[u] = wait_q[u] /\ notify'[u] = notify[u]
              /\ u \in botched => u \in botched',
           t \notin disturbed' /\ Steps(t)' = Steps(t) => Sane(t)'
    PROVE  IInv'
<1>1. /\ to \notin LifeSteps /\ pc[t] \notin LifeSteps /\ to \notin {"wait", "reorder"}
      /\ pc[t] \notin {"wait", "reorder"} /\ t \in Actors
      /\ to \in Active \cup ExitSteps \cup {"none"}
  BY DEF LifeSteps, AbortSteps, JoinSteps, ExitSteps, Actors, Active
<1>2. pc'[t] = to /\ \A b \in Actors \ {t} : pc'[b] = pc[b]
  BY <1>1 DEF IInv, Types
<1>c. disturbed \ {t} \subseteq disturbed' /\ disturbed' \subseteq Threads
  BY DEF Calmed
<1>3. Types'
  <2>1. pc' \in [Actors -> Active \cup ExitSteps \cup {"none"}]
    BY <1>1 DEF IInv, Types
  <2> QED BY <1>1, <1>2, <1>c, <2>1 DEF IInv, Types, LifeSteps
<1>4. OneCall'
  <2>1. \A b \in Actors : target[b] # Null /\ target[b] \notin disturbed' =>
           target[b] \notin disturbed
    BY <1>c DEF IInv, Types, Calmed, CallOn
  <2>2. \A b \in Actors : pc'[b] \in LifeSteps => pc'[b] = pc[b] /\ target[b] # Null
    BY <1>1, <1>2 DEF IInv, Types, LifeSteps
  <2> QED BY <2>1, <2>2 DEF IInv, OneCall, LifeSteps
<1>5. \A u \in Threads : Steps(u)' = Steps(u)
  <2>1. \A u \in Threads : \A b \in Actors : Still(b, u)
    BY <1>1, <1>2 DEF Still
  <2> QED BY <2>1, StepsOfOthers
<1>6. AllSound'
  <2> SUFFICES ASSUME NEW u \in Threads \ disturbed', u # t PROVE Sane(u)'
    BY <1>5 DEF AllSound
  <2>1. u \in Threads \ disturbed
    BY <1>c
  <2> QED BY <1>2, <1>5, <2>1, SoundFrame DEF IInv, AllSound, Actors
<1>7. NobodySleepsThrough'
  BY <1>1, <1>2, <1>c DEF IInv, NobodySleepsThrough, Actors
<1> QED BY <1>3, <1>4, <1>6, <1>7 DEF IInv

\* What Upset says of a step of t alone.
LEMMA UpsetCalms ==
    ASSUME IInv, Upset, NEW t \in Threads
    PROVE  Calmed(t) /\ (t \notin disturbed' => Sane(t))
BY DEF Calmed, Upset, RanOn, CutOff, IInv, Types, AllSound

(***************************************************************************)
(* An object is set up.  It starts sound if nobody is left inside an       *)
(* operation on it and the creation leaves both handles or none; otherwise *)
(* it is disturbed from the start.                                         *)
(***************************************************************************)
LEMMA CreateInv ==
    ASSUME IInv, UNCHANGED port, NEW a \in Actors, NEW t \in Threads, Create(a, t)
    PROVE  IInv'
<1>1. PICK h \in BOOLEAN, s \in BOOLEAN, c \in {"dead", "empty"}, to \in {"run", pc[t]} :
        /\ Zero(t, h, s) /\ Unused(t) /\ completion' = [completion EXCEPT ![t] = c]
        /\ pc' = [pc EXCEPT ![t] = to]
        /\ DOMAIN notify' = Threads /\ \A u \in Threads \ {t} : notify'[u] = notify[u]
        /\ \A u \in Threads \ {t} : u \in botched => u \in botched'
        /\ \/ to = "run" /\ c = "empty" /\ h /\ s
           \/ to = pc[t] /\ c = "dead" /\ ~h
  <2>1. CASE \E p \in Priorities : os_thread_create(a, t, p)
    BY <2>1 DEF os_thread_create, IInv, Types
  <2>2. CASE os_thread_create_fail(a, t)
    <3>1. pc' = [pc EXCEPT ![t] = pc[t]]
      BY <2>2 DEF os_thread_create_fail, IInv, Types, Actors
    <3> QED BY <2>2, <3>1 DEF os_thread_create_fail, IInv, Types
  <2> QED BY <2>1, <2>2 DEF Create
<1>2. PICK o : o = [Zeroed EXCEPT !.handle = h, !.completion_handle = s]
  OBVIOUS
<1>3. /\ o \in Objects /\ ~o.completed /\ ~o.completion_signaled /\ ~o.completion_reaped
      /\ ~o.join_active /\ o.handle = h /\ o.completion_handle = s
  BY <1>2 DEF Zeroed, Objects
<1>4. /\ obj' = [obj EXCEPT ![t] = o] /\ wait_q' = [wait_q EXCEPT ![t] = Null]
      /\ target' = target
      /\ disturbed' = IF Idle(t) /\ h = s THEN disturbed \ {t} ELSE disturbed \cup {t}
  BY <1>1, <1>2 DEF Zero
<1>5. /\ obj' \in [Threads -> Objects] /\ obj'[t] = o /\ completion'[t] = c /\ pc'[t] = to
      /\ completion' \in [Threads -> {"dead", "empty", "given"}]
      /\ DOMAIN wait_q' = Threads
      /\ \A u \in Threads \ {t} : /\ obj'[u] = obj[u] /\ completion'[u] = completion[u]
                                   /\ wait_q'[u] = wait_q[u]
  BY <1>1, <1>3, <1>4 DEF IInv, Types, Actors
<1>6. t \notin disturbed' => pc[t] = "none" /\ CallOn(t) = {} /\ Steps(t) = {} /\ h = s
  BY <1>4 DEF Idle, Steps
<1>7. Calmed(t)
  BY <1>4, <1>6 DEF Calmed, IInv, Types
<1>8. t \notin disturbed' /\ Steps(t)' = Steps(t) => Sane(t)'
  BY <1>1, <1>3, <1>5, <1>6 DEF Sane, Sound, Ending, Claiming, Semaphore, Ungiven, FreeRTOS,
     JoinSteps, AbortSteps, Active, ExitSteps
<1>9. pc[t] \in ExitSteps \cup {"run", "none"} /\ to \in ExitSteps \cup {"run", "none"}
  BY <1>1 DEF Unused
<1> QED BY <1>1, <1>4, <1>5, <1>7, <1>8, <1>9, OwnStep

\* The end of a task, by its return or by aborting itself.
LEMMA ExitInv ==
    ASSUME IInv, Upset, UNCHANGED port, NEW t \in Threads,
           \/ os_task_entry_completed(t) \/ os_task_entry_give(t) \/ os_task_entry_signal(t)
           \/ os_task_entry_delete(t) \/ os_thread_abort(t, t)
    PROVE  IInv'
<1>0. obj[t] \in Objects /\ DOMAIN obj = Threads /\ DOMAIN wait_q = Threads
      /\ DOMAIN notify = Threads
  BY DEF IInv, Types
<1>u. Calmed(t) /\ (t \notin disturbed' => Sane(t))
  BY UpsetCalms
<1>1. CASE os_task_entry_completed(t) \/ os_thread_abort(t, t)
  <2>1. /\ pc[t] = "run" /\ pc' = [pc EXCEPT ![t] = "exit_give"] /\ target' = target
        /\ completion' = completion /\ notify' = notify /\ botched' = botched
        /\ wait_q' = wait_q \/ wait_q' = [wait_q EXCEPT ![t] = Null]
    BY <1>1 DEF os_task_entry_completed, os_thread_abort, Step, Goto, Dequeue, wvars
  <2>2. PICK o \in Objects :
          /\ obj' = [obj EXCEPT ![t] = o] /\ o.completed
          /\ o.handle = obj[t].handle /\ o.completion_handle = obj[t].completion_handle
          /\ o.completion_signaled = obj[t].completion_signaled
          /\ o.completion_reaped = obj[t].completion_reaped /\ o.join_active = obj[t].join_active
    <3>1. CASE os_task_entry_completed(t)
      <4>1. PICK o : o = [obj[t] EXCEPT !.completed = TRUE]
        OBVIOUS
      <4>2. obj' = [obj EXCEPT ![t] = o]
        BY <1>0, <3>1, <4>1 DEF os_task_entry_completed, Set
      <4>3. /\ o \in Objects /\ o.completed
            /\ o.handle = obj[t].handle /\ o.completion_handle = obj[t].completion_handle
            /\ o.completion_signaled = obj[t].completion_signaled
            /\ o.completion_reaped = obj[t].completion_reaped
            /\ o.join_active = obj[t].join_active
        BY <1>0, <4>1 DEF Objects
      <4> QED BY <4>2, <4>3
    <3>2. CASE os_thread_abort(t, t)
      <4>1. PICK o : o = [obj[t] EXCEPT !.cancel_requested = TRUE, !.completed = TRUE]
        OBVIOUS
      <4>2. obj' = [obj EXCEPT ![t] = o]
        BY <1>0, <3>2, <4>1 DEF os_thread_abort
      <4>3. /\ o \in Objects /\ o.completed
            /\ o.handle = obj[t].handle /\ o.completion_handle = obj[t].completion_handle
            /\ o.completion_signaled = obj[t].completion_signaled
            /\ o.completion_reaped = obj[t].completion_reaped
            /\ o.join_active = obj[t].join_active
        BY <1>0, <4>1 DEF Objects
      <4> QED BY <4>2, <4>3
    <3> QED BY <1>1, <3>1, <3>2
  <2>3. obj'[t] = o /\ pc'[t] = "exit_give" /\ obj' \in [Threads -> Objects]
        /\ \A u \in Threads \ {t} : obj'[u] = obj[u] /\ wait_q'[u] = wait_q[u]
    BY <1>0, <2>1, <2>2 DEF IInv, Types, Actors
  <2>4. t \notin disturbed' => "abort_delete" \notin Steps(t) /\ "abort_fail" \notin Steps(t)
    BY <2>1, <2>3, MovesFreely
  <2>5. t \notin disturbed' /\ Steps(t)' = Steps(t) => Sane(t)'
    BY <1>0, <1>u, <2>1, <2>2, <2>3, <2>4 DEF Sane, Sound, Ending, Claiming, Semaphore, Ungiven,
       FreeRTOS, JoinSteps, AbortSteps, Active, ExitSteps
  <2> QED BY <1>0, <1>u, <2>1, <2>3, <2>5, OwnStep DEF IInv, Types, ExitSteps
<1>2. CASE os_task_entry_give(t)
  <2>1. /\ pc[t] = "exit_give" /\ pc' = [pc EXCEPT ![t] = "exit_signal"] /\ target' = target
        /\ obj' = obj /\ wait_q' = wait_q /\ notify' = notify /\ botched' = botched
        /\ completion' = Given(t)
    BY <1>2 DEF os_task_entry_give, Step, Goto, wvars
  <2>2. /\ completion' \in [Threads -> {"dead", "empty", "given"}] /\ pc'[t] = "exit_signal"
        /\ \A u \in Threads \ {t} : completion'[u] = completion[u]
        /\ completion[t] = "empty" => completion'[t] = "given"
    BY <2>1 DEF Given, IInv, Types, Actors
  <2>3. t \notin disturbed' => completion'[t] = "given"
    BY <1>u, <2>1, <2>2 DEF Sane, Sound, Semaphore, Ungiven
  <2>4. t \notin disturbed' /\ Steps(t)' = Steps(t) => Sane(t)'
    BY <1>0, <1>u, <2>1, <2>2, <2>3 DEF Sane, Sound, Ending, Claiming, Semaphore, Ungiven,
       FreeRTOS, JoinSteps, AbortSteps, Active, ExitSteps
  <2> QED BY <1>0, <1>u, <2>1, <2>2, <2>4, OwnStep DEF IInv, Types, ExitSteps
<1>3. CASE os_task_entry_signal(t)
  <2>1. /\ pc[t] = "exit_signal" /\ pc' = [pc EXCEPT ![t] = "exit_delete"] /\ target' = target
        /\ completion' = completion /\ wait_q' = wait_q /\ notify' = notify /\ botched' = botched
        /\ obj' = [obj EXCEPT ![t]["completion_signaled"] = TRUE]
    BY <1>3 DEF os_task_entry_signal, Step, Goto, Set, wvars
  <2>2. obj'[t] = [obj[t] EXCEPT !.completion_signaled = TRUE] /\ pc'[t] = "exit_delete"
        /\ \A u \in Threads \ {t} : obj'[u] = obj[u]
    BY <1>0, <2>1 DEF IInv, Types, Actors
  <2>3. obj' \in [Threads -> Objects]
    BY <1>0, <2>1, <2>2 DEF IInv, Types, Objects
  <2>4. t \notin disturbed' /\ Steps(t)' = Steps(t) => Sane(t)'
    BY <1>0, <1>u, <2>1, <2>2 DEF Sane, Sound, Ending, Claiming, Semaphore, Ungiven, FreeRTOS,
       JoinSteps, AbortSteps, Active, ExitSteps, Objects
  <2> QED BY <1>0, <1>u, <2>1, <2>2, <2>3, <2>4, OwnStep DEF IInv, Types, ExitSteps
<1>4. CASE os_task_entry_delete(t)
  <2>1. /\ pc[t] = "exit_delete" /\ pc' = [pc EXCEPT ![t] = "none"] /\ target' = target
        /\ obj' = obj /\ completion' = completion /\ wait_q' = wait_q
        /\ notify' = [notify EXCEPT ![t] = <<>>] /\ botched' = botched \ {t}
    BY <1>4 DEF os_task_entry_delete, Step, Goto, Gone
  <2>2. pc'[t] = "none"
    BY <2>1 DEF IInv, Types, Actors
  <2>3. t \notin disturbed' /\ Steps(t)' = Steps(t) => Sane(t)'
    BY <1>0, <1>u, <2>1, <2>2 DEF Sane, Sound, Ending, Claiming, Semaphore, Ungiven, FreeRTOS,
       JoinSteps, AbortSteps, Active, ExitSteps
  <2> QED BY <1>0, <1>u, <2>1, <2>3, OwnStep DEF IInv, Types, ExitSteps
<1> QED BY <1>1, <1>2, <1>3, <1>4

\* A task whose object was created anew writes to a disturbed thread.
LEMMA LateInv ==
    ASSUME IInv, NoneIsLate, Upset, UNCHANGED port, NEW t \in Threads,
           os_task_entry_late_give(t) \/ os_task_entry_late_signal(t)
    PROVE  IInv'
<1>1. t \in disturbed /\ disturbed \subseteq disturbed' /\ disturbed' \subseteq Threads
  BY DEF os_task_entry_late_give, os_task_entry_late_signal, NoneIsLate, Upset, RanOn, CutOff,
     IInv, Types
<1>2. /\ pc' = pc /\ target' = target /\ wait_q' = wait_q /\ notify' = notify
      /\ botched' = botched
  BY DEF os_task_entry_late_give, os_task_entry_late_signal, wvars
<1>3. /\ obj' \in [Threads -> Objects] /\ completion' \in [Threads -> {"dead", "empty", "given"}]
      /\ \A u \in Threads \ {t} : obj'[u] = obj[u] /\ completion'[u] = completion[u]
  <2>1. CASE os_task_entry_late_give(t)
    BY <2>1 DEF os_task_entry_late_give, Given, IInv, Types
  <2>2. CASE os_task_entry_late_signal(t)
    <3>1. obj' = [obj EXCEPT ![t]["completion_signaled"] = TRUE] /\ completion' = completion
      BY <2>2 DEF os_task_entry_late_signal, Set
    <3> QED BY <3>1 DEF IInv, Types, Objects
  <2> QED BY <2>1, <2>2
<1>4. Types' /\ OneCall' /\ NobodySleepsThrough'
  BY <1>1, <1>2, <1>3 DEF IInv, Types, OneCall, NobodySleepsThrough
<1>5. AllSound'
  <2> SUFFICES ASSUME NEW u \in Threads \ disturbed' PROVE Sane(u)'
    BY DEF AllSound
  <2>1. u \in Threads \ disturbed /\ u # t
    BY <1>1
  <2>2. Steps(u)' = Steps(u)
    BY <1>2 DEF Steps, CallOn
  <2> QED BY <1>2, <1>3, <2>1, <2>2, SoundFrame DEF IInv, AllSound
<1> QED BY <1>4, <1>5 DEF IInv

\* A cancellation request changes nothing that the life cycle depends on.
LEMMA CancelInv ==
    ASSUME IInv, Upset, UNCHANGED port, NEW a \in Actors, NEW t \in Threads,
           os_thread_cancel(a, t)
    PROVE  IInv'
<1>0. disturbed \subseteq disturbed' /\ disturbed' \subseteq Threads
  BY DEF Upset, RanOn, CutOff, IInv, Types
<1>1. /\ obj' = [obj EXCEPT ![t]["cancel_requested"] = TRUE] /\ pc' = pc /\ target' = target
      /\ completion' = completion /\ wait_q' = wait_q /\ notify' = notify /\ botched' = botched
  BY DEF os_thread_cancel, Set, wvars
<1>2. obj'[t] = [obj[t] EXCEPT !.cancel_requested = TRUE] /\ obj[t] \in Objects
      /\ \A u \in Threads \ {t} : obj'[u] = obj[u]
  BY <1>1 DEF IInv, Types
<1>3. /\ obj' \in [Threads -> Objects] /\ obj'[t].completed = obj[t].completed
      /\ obj'[t].handle = obj[t].handle
      /\ obj'[t].completion_handle = obj[t].completion_handle
      /\ obj'[t].completion_signaled = obj[t].completion_signaled
      /\ obj'[t].completion_reaped = obj[t].completion_reaped
      /\ obj'[t].join_active = obj[t].join_active
  BY <1>1, <1>2 DEF IInv, Types, Objects
<1>4. \A u \in Threads : Steps(u)' = Steps(u)
  BY <1>1 DEF Steps, CallOn
<1>5. AllSound'
  <2> SUFFICES ASSUME NEW u \in Threads \ disturbed' PROVE Sane(u)'
    BY DEF AllSound
  <2>0. u \in Threads \ disturbed
    BY <1>0
  <2>1. CASE u = t
    BY <1>1, <1>3, <1>4, <2>0, <2>1 DEF IInv, AllSound, Sane, Sound, Ending, Claiming, Semaphore,
       Ungiven, FreeRTOS
  <2>2. CASE u # t
    BY <1>1, <1>2, <1>4, <2>0, <2>2, SoundFrame DEF IInv, AllSound
  <2> QED BY <2>1, <2>2
<1>6. Types' /\ OneCall'
  BY <1>0, <1>1, <1>3 DEF IInv, Types, OneCall
<1>7. NobodySleepsThrough'
  BY <1>0, <1>1, <1>2, <1>3 DEF IInv, NobodySleepsThrough
<1> QED BY <1>5, <1>6, <1>7 DEF IInv
-----------------------------------------------------------------------------
(* The wait queues and priority changes.                                   *)

\* In application code, in os_waitq_block or in os_thread_set_priority.
Waiting == {"run", "wait", "back", "reorder"}

\* A step of module WaitQueue moves a thread among those places.
LEMMA WaitFrame ==
    ASSUME IInv, Upset, UNCHANGED <<port, tvars>>, NEW a \in Actors, pc[a] \in Waiting,
           NEW to \in Waiting, pc' = [pc EXCEPT ![a] = to],
           NEW tg \in Threads \cup {Null}, target' = [target EXCEPT ![a] = tg],
           tg # Null <=> to = "reorder",
           DOMAIN wait_q' = Threads, DOMAIN notify' = Threads
    PROVE  Types' /\ OneCall' /\ AllSound'
<1>1. /\ to \notin LifeSteps /\ pc[a] \notin LifeSteps
      /\ pc[a] \in Active /\ to \in Active
      /\ to \in {"reorder"} \cup AbortSteps \cup JoinSteps <=> to = "reorder"
  BY DEF Waiting, LifeSteps, AbortSteps, JoinSteps, Active
<1>2. /\ pc'[a] = to /\ target'[a] = tg
      /\ \A b \in Actors \ {a} : pc'[b] = pc[b] /\ target'[b] = target[b]
      /\ obj' = obj /\ completion' = completion /\ botched' = botched
      /\ disturbed \subseteq disturbed' /\ disturbed' \subseteq Threads
  BY DEF IInv, Types, tvars, Upset, RanOn, CutOff
<1>3. Types'
  <2>1. pc' \in [Actors -> Active \cup ExitSteps \cup {"none"}]
        /\ target' \in [Actors -> Threads \cup {Null}]
    BY <1>1 DEF IInv, Types
  <2>2. \A b \in Actors : target'[b] # Null <=>
            pc'[b] \in {"reorder"} \cup AbortSteps \cup JoinSteps
    BY <1>1, <1>2 DEF IInv, Types
  <2> QED BY <1>2, <2>1, <2>2 DEF IInv, Types
<1>4. OneCall'
  BY <1>1, <1>2 DEF IInv, OneCall, LifeSteps
<1>5. AllSound'
  <2> SUFFICES ASSUME NEW u \in Threads \ disturbed' PROVE Sane(u)'
    BY DEF AllSound
  <2>1. Steps(u)' = Steps(u)
    BY <1>1, <1>2, StepsOfOthers DEF Still
  <2>2. \/ pc'[u] = pc[u]
        \/ /\ pc[u] \in Active /\ pc'[u] \in Active
           /\ "abort_delete" \notin Steps(u) /\ "abort_fail" \notin Steps(u)
    <3>1. pc'[u] # pc[u] => pc[u] \in Active /\ pc'[u] \in Active /\ pc'[u] # "none"
      BY <1>1, <1>2 DEF Actors, Waiting
    <3> QED BY <3>1, MovesFreely
  <2>3. u \in Threads \ disturbed
    BY <1>2
  <2> QED BY <1>2, <2>1, <2>2, <2>3, SoundFrame DEF IInv, AllSound
<1> QED BY <1>3, <1>4, <1>5

\* Blocking, waking, timing out and changing priorities.
LEMMA WaitInv ==
    ASSUME IInv, WaitQueueNext, Upset
    PROVE  IInv'
<1>0. /\ obj' = obj /\ completion' = completion /\ botched' = botched /\ port' = port
      /\ UNCHANGED <<port, tvars>>
      /\ disturbed \subseteq disturbed' /\ disturbed' \subseteq Threads
  BY DEF WaitQueueNext, WaitNext, tvars, Upset, RanOn, CutOff, IInv, Types
<1>a. ASSUME NEW t \in Threads,
             \/ WaitStep(t) \/ os_waitq_block_expired(t)
             \/ \E q \in Queues : os_waitq_block(t, q)
      PROVE  IInv'
  <2>1. PICK from \in Waiting, to \in Waiting :
          /\ pc[t] = from /\ pc' = [pc EXCEPT ![t] = to] /\ target' = target
          /\ from # to /\ to # "reorder" /\ from # "reorder"
          /\ DOMAIN wait_q' = Threads /\ DOMAIN notify' = Threads
          /\ \A u \in Threads \ {t} : wait_q'[u] = wait_q[u] /\ notify'[u] = notify[u]
          /\ to = "wait" => wait_q'[t] # Null
    BY <1>a, WaitQueueAssumption DEF WaitStep, os_waitq_block_notified, os_waitq_block_return,
       os_waitq_block_expired, os_waitq_block, Goto, Waiting, IInv, Types
  <2>2. t \in Actors /\ pc'[t] = to /\ \A b \in Actors \ {t} : pc'[b] = pc[b]
    BY <1>a, <2>1 DEF IInv, Types, Actors
  <2>3. target[t] = Null /\ target' = [target EXCEPT ![t] = Null]
    BY <2>1, <2>2 DEF IInv, Types, Waiting, AbortSteps, JoinSteps
  <2>4. Types' /\ OneCall' /\ AllSound'
    <3>1. /\ pc[t] \in Waiting /\ pc' = [pc EXCEPT ![t] = to] /\ Null \in Threads \cup {Null}
          /\ ~(to = "reorder") /\ DOMAIN wait_q' = Threads /\ DOMAIN notify' = Threads
      BY <2>1
    <3> QED BY <1>0, <2>2, <2>3, <3>1, WaitFrame
  <2>5. NobodySleepsThrough'
    BY <1>0, <2>1, <2>2 DEF IInv, NobodySleepsThrough, Actors
  <2> QED BY <2>4, <2>5 DEF IInv
<1>b. ASSUME NEW q \in Queues, NEW r \in Reasons,
             os_waitq_wake_one(q, r) \/ os_waitq_wake_all(q, r)
      PROVE  IInv'
  <2>1. PICK woken : Wake(woken, r)
    BY <1>b DEF os_waitq_wake_one, os_waitq_wake_all
  <2>2. /\ pc' = pc /\ target' = target /\ DOMAIN wait_q' = Threads /\ DOMAIN notify' = Threads
        /\ \A u \in Threads :
              \/ u \in woken /\ notify'[u] # <<>>
              \/ u \notin woken /\ wait_q'[u] = wait_q[u] /\ notify'[u] = notify[u]
    BY <2>1 DEF Wake, os_waitq_notify_thread_locked, Notified
  <2>3. \A u \in Threads : Steps(u)' = Steps(u)
    BY <2>2 DEF Steps, CallOn
  <2>4. AllSound'
    <3> SUFFICES ASSUME NEW u \in Threads \ disturbed' PROVE Sane(u)'
      BY DEF AllSound
    <3>1. u \in Threads \ disturbed
      BY <1>0
    <3> QED BY <1>0, <2>2, <2>3, <3>1, SoundFrame DEF IInv, AllSound
  <2>5. Types' /\ OneCall'
    BY <1>0, <2>2 DEF IInv, Types, OneCall
  <2>6. NobodySleepsThrough'
    BY <1>0, <2>2 DEF IInv, NobodySleepsThrough
  <2> QED BY <2>4, <2>5, <2>6 DEF IInv
<1>c. ASSUME NEW a \in Actors, os_thread_set_priority_reorder(a)
      PROVE  IInv'
  <2>1. /\ pc[a] = "reorder" /\ pc' = [pc EXCEPT ![a] = "run"]
        /\ target' = [target EXCEPT ![a] = Null] /\ wait_q' = wait_q /\ notify' = notify
    BY <1>c DEF os_thread_set_priority_reorder, Goto
  <2>2. pc'[a] = "run" /\ \A b \in Actors \ {a} : pc'[b] = pc[b]
    BY <2>1 DEF IInv, Types
  <2>3. Types' /\ OneCall' /\ AllSound'
    <3>1. /\ "run" \in Waiting /\ pc[a] \in Waiting /\ DOMAIN wait_q' = Threads
          /\ DOMAIN notify' = Threads
      BY <2>1 DEF Waiting, IInv, Types
    <3> QED BY <1>0, <2>1, <2>2, <3>1, WaitFrame
  <2>4. NobodySleepsThrough'
    BY <1>0, <2>1, <2>2 DEF IInv, NobodySleepsThrough, Actors
  <2> QED BY <2>3, <2>4 DEF IInv
<1>d. ASSUME NEW a \in Actors, NEW t \in Threads, NEW p \in Priorities,
             os_thread_set_priority(a, t, p)
      PROVE  IInv'
  <2>1. /\ pc[a] = "run" /\ wait_q' = wait_q /\ notify' = notify
        /\ \/ pc' = pc /\ target' = target
           \/ pc' = [pc EXCEPT ![a] = "reorder"] /\ target' = [target EXCEPT ![a] = t]
    BY <1>d DEF os_thread_set_priority, Goto
  <2>2. target[a] = Null /\ t # Null
    BY <2>1, WaitQueueAssumption DEF IInv, Types, AbortSteps, JoinSteps
  <2>3. CASE pc' = pc /\ target' = target
    <3>1. pc' = [pc EXCEPT ![a] = "run"] /\ target' = [target EXCEPT ![a] = Null]
      BY <2>1, <2>2, <2>3 DEF IInv, Types
    <3>2. Types' /\ OneCall' /\ AllSound'
      BY <1>0, <1>d, <2>1, <3>1, WaitFrame DEF Waiting, IInv, Types
    <3>3. NobodySleepsThrough'
      BY <1>0, <2>1, <2>3 DEF IInv, NobodySleepsThrough
    <3> QED BY <3>2, <3>3 DEF IInv
  <2>4. CASE pc' = [pc EXCEPT ![a] = "reorder"] /\ target' = [target EXCEPT ![a] = t]
    <3>1. Types' /\ OneCall' /\ AllSound'
      BY <1>0, <1>d, <2>1, <2>2, <2>4, WaitFrame DEF Waiting, IInv, Types
    <3>2. NobodySleepsThrough'
      BY <1>0, <2>1, <2>4 DEF IInv, Types, NobodySleepsThrough, Actors
    <3> QED BY <3>1, <3>2 DEF IInv
  <2> QED BY <2>1, <2>3, <2>4
<1> QED BY <1>a, <1>b, <1>c, <1>d DEF WaitQueueNext, WaitNext
-----------------------------------------------------------------------------
(* Every step of a thread, a caller or the wait queues.                    *)

\* A task is overtaken by a re-creation of its object only if that disturbs it.
LEMMA NextLate == IInv /\ NoneIsLate /\ [Next]_vars => NoneIsLate'
<1> SUFFICES ASSUME IInv, NoneIsLate, [Next]_vars PROVE NoneIsLate'
  OBVIOUS
<1>1. CASE Upset /\ late' = late
  BY <1>1 DEF NoneIsLate, Upset
<1>2. CASE WaitQueueNext /\ Upset
  BY <1>1, <1>2 DEF WaitQueueNext, tvars
<1>3. ASSUME NEW a \in Actors, NEW t \in Threads, Create(a, t)
      PROVE  NoneIsLate'
  <2>1. CASE \E p \in Priorities : os_thread_create(a, t, p)
    <3>1. /\ late' = [late EXCEPT ![t] = IF pc[t] = "exit_delete" THEN "none" ELSE pc[t]]
          /\ pc[t] \in {"none"} \cup ExitSteps
          /\ disturbed \ {t} \subseteq disturbed' /\ (t \notin disturbed' => pc[t] = "none")
      BY <2>1 DEF os_thread_create, Zero, Unused, Idle
    <3> QED BY <3>1 DEF NoneIsLate, ExitSteps
  <2>2. CASE os_thread_create_fail(a, t)
    <3>1. /\ late' = late /\ disturbed \ {t} \subseteq disturbed'
          /\ (t \notin disturbed' => late[t] = "none")
      BY <2>2 DEF os_thread_create_fail, Zero, Idle
    <3> QED BY <3>1 DEF NoneIsLate
  <2> QED BY <1>3, <2>1, <2>2 DEF Create
<1>4. ASSUME NEW a \in Actors, Call(a), Upset
      PROVE  NoneIsLate'
  <2>1. late' = late
    BY <1>4 DEF Call, os_thread_join, os_thread_delete, os_thread_cancel, os_thread_abort
  <2> QED BY <1>1, <1>4, <2>1
<1>5. ASSUME NEW t \in Threads, Upset, os_task_entry_late_give(t) \/ os_task_entry_late_signal(t)
      PROVE  NoneIsLate'
  <2>1. /\ t \in disturbed /\ disturbed \subseteq disturbed'
        /\ \/ late' = [late EXCEPT ![t] = "exit_signal"]
           \/ late' = [late EXCEPT ![t] = "none"]
    BY <1>5 DEF os_task_entry_late_give, os_task_entry_late_signal, NoneIsLate, Upset
  <2> QED BY <2>1 DEF NoneIsLate
<1>6. ASSUME NEW a \in Actors, Continue(a), Upset
      PROVE  NoneIsLate'
  <2>1. CASE a \in Threads /\ (os_task_entry_late_give(a) \/ os_task_entry_late_signal(a))
    BY <1>5, <1>6, <2>1
  <2>2. CASE ~(a \in Threads /\ (os_task_entry_late_give(a) \/ os_task_entry_late_signal(a)))
    <3>1. late' = late
      BY <1>6, <2>2 DEF Continue, os_task_entry_give, os_task_entry_signal, os_task_entry_delete,
         os_thread_join_take, os_thread_join_timeout, os_thread_reap, os_thread_reap_end,
         os_thread_abort_delete, os_thread_abort_fail, os_thread_abort_give,
         os_thread_abort_signal, tvars
    <3> QED BY <1>1, <1>6, <3>1
  <2> QED BY <2>1, <2>2
<1>7. ASSUME NEW a \in Actors, Upset,
             \/ os_thread_join_expire(a) \/ os_thread_abort_refused(a)
             \/ a \in Threads /\ os_task_entry_completed(a)
      PROVE  NoneIsLate'
  <2>1. late' = late
    BY <1>7 DEF os_thread_join_expire, os_thread_abort_refused, os_task_entry_completed, tvars
  <2> QED BY <1>1, <1>7, <2>1
<1>8. CASE UNCHANGED vars
  BY <1>8 DEF vars, tvars, NoneIsLate
<1> QED BY <1>2, <1>3, <1>4, <1>6, <1>7, <1>8 DEF Next

\* The inductive invariant is preserved.
LEMMA NextInv == IInv /\ NoneIsLate /\ [Next]_vars => IInv'
<1> SUFFICES ASSUME IInv, NoneIsLate, [Next]_vars PROVE IInv'
  OBVIOUS
<1>1. CASE WaitQueueNext /\ Upset
  BY <1>1, WaitInv
<1>2. ASSUME UNCHANGED port, NEW a \in Actors, \E t \in Threads : Create(a, t)
      PROVE  IInv'
  BY <1>2, CreateInv
<1>3. ASSUME UNCHANGED port, NEW a \in Actors, Call(a), Upset
      PROVE  IInv'
  <2>1. PICK t \in Threads :
          \/ os_thread_join(a, t) \/ os_thread_delete(a, t)
          \/ os_thread_cancel(a, t) \/ os_thread_abort(a, t)
    BY <1>3 DEF Call
  <2>2. CASE os_thread_join(a, t) \/ os_thread_delete(a, t)
    BY <1>3, <2>2, ClaimInv
  <2>3. CASE os_thread_cancel(a, t)
    BY <1>3, <2>3, CancelInv
  <2>4. CASE os_thread_abort(a, t)
    BY <1>3, <2>4, AbortInv, ExitInv
  <2> QED BY <2>1, <2>2, <2>3, <2>4
<1>4. ASSUME UNCHANGED port, NEW a \in Actors, Continue(a), Upset
      PROVE  IInv'
  BY <1>4, ExitInv, LateInv, JoinInv, ReapInv, AbortDeleteInv, AbortEndInv DEF Continue
<1>5. ASSUME UNCHANGED port, NEW a \in Actors, Upset,
             \/ os_thread_join_expire(a) \/ os_thread_abort_refused(a)
             \/ a \in Threads /\ os_task_entry_completed(a)
      PROVE  IInv'
  BY <1>5, ExitInv, JoinInv, AbortEndInv
<1>6. CASE UNCHANGED vars
  <2>1. \A u \in Threads : Steps(u)' = Steps(u)
    BY <1>6 DEF vars, Steps, CallOn
  <2>2. AllSound'
    BY <1>6, <2>1, SoundFrame DEF vars, tvars, IInv, AllSound
  <2>3. Types' /\ OneCall' /\ NobodySleepsThrough'
    BY <1>6 DEF vars, wvars, tvars, IInv, Types, OneCall, NobodySleepsThrough
  <2> QED BY <2>2, <2>3 DEF IInv
<1> QED BY <1>1, <1>2, <1>3, <1>4, <1>5, <1>6 DEF Next

\* The inductive invariant implies the life-cycle invariants.
LEMMA IInvImplies ==
    IInv /\ NoneIsLate =>
            /\ SemaphoreIsAlive /\ ReapedIsTerminated /\ DeletedIsUntouched
            /\ EndedIsReapable
<1> SUFFICES ASSUME IInv, NoneIsLate, NEW t \in Threads \ disturbed
             PROVE  /\ \/ pc[t] = "exit_give"
                       \/ \E a \in CallOn(t) : pc[a] \in {"join_take", "abort_give"}
                       => completion[t] # "dead"
                    /\ \/ obj[t].completion_reaped
                       \/ \E a \in CallOn(t) :
                             pc[a] \in {"join_reap", "join_free", "delete_reap"}
                       => pc[t] \in {"none", "exit_signal", "exit_delete"}
                    /\ \/ obj[t].completion_signaled
                       \/ \E a \in CallOn(t) : pc[a] \in {"delete_reap", "delete_free"}
                       => ~Unsignaled(t)
                    /\ obj[t].completion_signaled /\ ~obj[t].completion_reaped =>
                          IF obj[t].join_active THEN \E a \in CallOn(t) : pc[a] \in JoinSteps
                          ELSE completion[t] = "given"
  BY DEF SemaphoreIsAlive, ReapedIsTerminated, DeletedIsUntouched, EndedIsReapable
<1>1. Sane(t) /\ pc[t] \in Active \cup ExitSteps \cup {"none"} /\ late[t] = "none"
  BY DEF IInv, NoneIsLate, AllSound, Types, Actors
<1>2. \A s \in LifeSteps : s \in Steps(t) <=> \E a \in CallOn(t) : pc[a] = s
  BY DEF Steps
<1>3. \A s \in Steps(t) : \A r \in Steps(t) : s \in JoinSteps /\ r \in JoinSteps => s = r
  BY DEF IInv, OneCall, Steps, CallOn
<1>4. /\ pc[t] = "exit_give" \/ (\E a \in CallOn(t) : pc[a] \in {"join_take", "abort_give"}) =>
           completion[t] # "dead"
  <2>1. pc[t] = "exit_give" \/ "join_take" \in Steps(t) \/ "abort_give" \in Steps(t) =>
           completion[t] # "dead"
    BY <1>1, <1>3 DEF Sane, Sound, Claiming, Semaphore, Ungiven, JoinSteps
  <2> QED BY <1>2, <2>1 DEF LifeSteps, JoinSteps, AbortSteps
<1>5. /\ \/ obj[t].completion_reaped
         \/ \E a \in CallOn(t) : pc[a] \in {"join_reap", "join_free", "delete_reap"}
         => pc[t] \in {"none", "exit_signal", "exit_delete"}
  <2>1. \/ obj[t].completion_reaped \/ "join_reap" \in Steps(t) \/ "join_free" \in Steps(t)
        \/ "delete_reap" \in Steps(t)
        => pc[t] \in {"none", "exit_signal", "exit_delete"}
    BY <1>1 DEF Sane, Sound, Claiming, Semaphore, Ungiven, JoinSteps, ExitSteps
  <2> QED BY <1>2, <2>1 DEF LifeSteps, JoinSteps, AbortSteps
<1>6. /\ \/ obj[t].completion_signaled
         \/ \E a \in CallOn(t) : pc[a] \in {"delete_reap", "delete_free"}
         => ~Unsignaled(t)
  <2>1. "delete_reap" \in Steps(t) \/ "delete_free" \in Steps(t) => obj[t].completion_signaled
    BY <1>1 DEF Sane, Sound, Claiming
  <2>2. obj[t].completion_signaled => /\ pc[t] \notin {"exit_give", "exit_signal"}
                                      /\ Steps(t) \cap AbortSteps = {}
    BY <1>1 DEF Sane, Sound, Ending, Semaphore, Ungiven, ExitSteps, Active, AbortSteps
  <2>3. Unsignaled(t) => \/ pc[t] \in {"exit_give", "exit_signal"}
                         \/ Steps(t) \cap AbortSteps # {}
    BY <1>1, <1>2 DEF Unsignaled, LifeSteps
  <2> QED BY <1>2, <2>1, <2>2, <2>3 DEF LifeSteps, JoinSteps, AbortSteps
<1>7. obj[t].completion_signaled /\ ~obj[t].completion_reaped =>
         IF obj[t].join_active THEN \E a \in CallOn(t) : pc[a] \in JoinSteps
         ELSE completion[t] = "given"
  <2>1. obj[t].completion_signaled /\ ~obj[t].completion_reaped =>
           IF obj[t].join_active THEN Steps(t) \cap JoinSteps # {} ELSE completion[t] = "given"
    BY <1>1 DEF Sane, Sound, Claiming, Semaphore, JoinSteps
  <2> QED BY <1>2, <2>1 DEF LifeSteps
<1> QED BY <1>4, <1>5, <1>6, <1>7

\* The inductive invariant holds in every reachable state.
LEMMA Invariance == Spec => [](IInv /\ NoneIsLate)
<1>1. Init => NoneIsLate
  BY DEF Init, NoneIsLate
<1> QED BY <1>1, InitInv, NextInv, NextLate, PTL DEF Spec
-----------------------------------------------------------------------------
(* Induction up to a bound, over sets                                      *)

\* A set of numbers has a least one.
LEMMA LeastNumber ==
    ASSUME NEW T, T \subseteq Nat, T # {}
    PROVE  Min(T) \in T /\ \A y \in T : Min(T) <= y
<1> PICK R : R = {ss \in Nat \X Nat : ss[1] < ss[2]}
  OBVIOUS
<1>1. IsWellFoundedOn(R, Nat)
  BY NatLessThanWellFounded DEF OpToRel
<1>2. PICK x \in T : \A y \in T : <<y, x>> \notin R
  BY <1>1, WFMin
<1>3. ASSUME NEW y \in T PROVE x <= y
  <2>1. y \in Nat /\ x \in Nat /\ ~(y < x)
    BY <1>2
  <2> QED BY <2>1
<1> QED BY <1>3 DEF Min

\* A set that holds 0 and the successor of each of its numbers below n.
LEMMA InductionTo ==
    ASSUME NEW n \in Nat, NEW P, 0 \in P, \A k \in 1 .. n : k - 1 \in P => k \in P
    PROVE  \A k \in 0 .. n : k \in P
<1> SUFFICES ASSUME NEW j \in 0 .. n, j \notin P PROVE FALSE
  OBVIOUS
<1>1. PICK T : T = {k \in 0 .. n : k \notin P}
  OBVIOUS
<1>2. T \subseteq Nat /\ T # {}
  BY <1>1
<1>3. PICK k \in T : \A y \in T : k <= y
  BY <1>2, LeastNumber
<1>4. k \in 1 .. n /\ k - 1 \in 0 .. n /\ k - 1 \notin T
  BY <1>1, <1>3
<1> QED BY <1>1, <1>3, <1>4
-----------------------------------------------------------------------------
(* Rings of pointers                                                       *)

Nodes    == Queues \cup Threads
Pointers == [next : Nodes \cup {Null}, prev : Nodes \cup {Null}]
Unlinked == [next |-> Null, prev |-> Null]

(***************************************************************************)
(* The list q of memory m holds c[1] to c[n] in this order; c[0] and       *)
(* c[n + 1] are its head.                                                  *)
(***************************************************************************)
Ring(m, q, n, c) ==
    /\ n \in Nat /\ c \in [0 .. n + 1 -> Nodes] /\ c[0] = q /\ c[n + 1] = q
    /\ \A i \in 1 .. n : c[i] \in Threads
    /\ \A i \in 1 .. n : \A j \in 1 .. n : c[i] = c[j] => i = j
    /\ \A i \in 0 .. n : m[c[i]].next = c[i + 1] /\ m[c[i + 1]].prev = c[i]

\* Its places are distinct, but that the head is at both ends.
Apart(q, n, c) ==
    /\ \A i \in 1 .. n : c[i] # q /\ c[i] # Null
    /\ \A i \in 0 .. n : \A j \in 0 .. n : c[i] = c[j] => i = j
    /\ \A i \in 1 .. n + 1 : \A j \in 1 .. n + 1 : c[i] = c[j] => i = j

LEMMA RingFacts ==
    ASSUME NEW m, NEW q \in Queues, NEW n, NEW c, Ring(m, q, n, c)
    PROVE  Apart(q, n, c)
<1>1. n \in Nat /\ \A i \in 1 .. n : c[i] # q /\ c[i] # Null
  BY WaitQueueAssumption DEF Ring
<1>2. ASSUME NEW i \in 0 .. n, NEW j \in 0 .. n, c[i] = c[j] PROVE i = j
  <2>1. i \in 1 .. n \/ i = 0
    BY <1>1
  <2>2. j \in 1 .. n \/ j = 0
    BY <1>1
  <2> QED BY <1>1, <1>2, <2>1, <2>2 DEF Ring
<1>3. ASSUME NEW i \in 1 .. n + 1, NEW j \in 1 .. n + 1, c[i] = c[j] PROVE i = j
  <2>1. i \in 1 .. n \/ i = n + 1
    BY <1>1
  <2>2. j \in 1 .. n \/ j = n + 1
    BY <1>1
  <2> QED BY <1>1, <1>3, <2>1, <2>2 DEF Ring
<1> QED BY <1>1, <1>2, <1>3 DEF Apart

\* A list whose nodes are not written to stays as it is.
LEMMA RingFrame ==
    ASSUME NEW m, NEW r, NEW q, NEW n, NEW c, Ring(m, q, n, c),
           \A i \in 0 .. n + 1 : r[c[i]] = m[c[i]]
    PROVE  Ring(r, q, n, c)
<1>1. ASSUME NEW i \in 0 .. n PROVE r[c[i]].next = c[i + 1] /\ r[c[i + 1]].prev = c[i]
  <2>1. i \in 0 .. n + 1 /\ i + 1 \in 0 .. n + 1
    BY DEF Ring
  <2> QED BY <2>1 DEF Ring
<1> QED BY <1>1 DEF Ring

\* A list is no longer than there are nodes.
LEMMA RingLength ==
    ASSUME NEW m, NEW q \in Queues, NEW n, NEW c, Ring(m, q, n, c)
    PROVE  n <= Cardinality(Nodes) /\ Cardinality(Nodes) \in Nat
<1>1. IsFiniteSet(Nodes) /\ n \in Nat
  BY WaitQueueAssumption DEF Ring, Nodes
<1>2. PICK f : f = [i \in 1 .. n |-> c[i]]
  OBVIOUS
<1>3. f \in [1 .. n -> Nodes] /\ \A i, j \in DOMAIN f : f[i] = f[j] => i = j
  BY <1>1, <1>2 DEF Ring, Nodes
<1>4. f \in Injection(1 .. n, Nodes)
  BY <1>3 DEF Injection, IsInjective
<1>5. Cardinality(1 .. n) <= Cardinality(Nodes)
  BY <1>1, <1>4, FS_Injection
<1>6. Cardinality(1 .. n) = n
  BY <1>1, FS_Interval
<1>7. Cardinality(Nodes) \in Nat
  BY <1>1, FS_CardinalityType
<1> QED BY <1>5, <1>6, <1>7

\* What the traversal has at hand after k steps.
Visited(m, q, N) ==
    CHOOSE v : v = [k \in 1 .. N |-> IF k = 1 THEN sys_dlist_peek_head(m, q)
                                     ELSE sys_dlist_peek_next(m, q, v[k - 1])]

LEMMA VisitedIs ==
    ASSUME NEW m, NEW q \in Queues, NEW n, NEW c, Ring(m, q, n, c), NEW N \in Nat
    PROVE  Visited(m, q, N) = [k \in 1 .. N |-> IF k <= n THEN c[k] ELSE Null]
<1> n \in Nat
  BY DEF Ring
<1>0. Apart(q, n, c)
  BY RingFacts
<1> DEFINE G(v) == [k \in 1 .. N |-> IF k = 1 THEN sys_dlist_peek_head(m, q)
                                     ELSE sys_dlist_peek_next(m, q, v[k - 1])]
<1>1. PICK f : f = [k \in 1 .. N |-> IF k <= n THEN c[k] ELSE Null]
  OBVIOUS
<1>2. ASSUME NEW k \in 1 .. N
      PROVE  f[k] = IF k = 1 THEN sys_dlist_peek_head(m, q)
                    ELSE sys_dlist_peek_next(m, q, f[k - 1])
  <2>1. m[q].next = c[1] /\ m[q].prev = c[n]
    BY DEF Ring
  <2>2. CASE k = 1
    <3>1. CASE n = 0
      BY <1>1, <2>1, <2>2, <3>1 DEF sys_dlist_peek_head, sys_dlist_is_empty, Ring
    <3>2. CASE n # 0
      <4>1. 1 \in 1 .. n /\ c[1] # q
        BY <1>0, <3>2 DEF Apart
      <4> QED BY <1>1, <2>1, <2>2, <4>1 DEF sys_dlist_peek_head, sys_dlist_is_empty
    <3> QED BY <3>1, <3>2
  <2>3. CASE k # 1 /\ k - 1 <= n
    <3>1. k - 1 \in 1 .. n /\ k - 1 \in 1 .. N /\ f[k - 1] = c[k - 1]
      BY <1>1, <2>3
    <3>4. n \in 1 .. n
      BY <3>1
    <3>2. c[k - 1] # Null /\ (c[k - 1] = c[n] => k - 1 = n)
      BY <1>0, <3>1, <3>4 DEF Apart
    <3>3. m[c[k - 1]].next = c[(k - 1) + 1] /\ (k - 1) + 1 = k
      BY <3>1 DEF Ring
    <3> QED BY <1>1, <2>1, <2>3, <3>1, <3>2, <3>3 DEF sys_dlist_peek_next
  <2>4. CASE k # 1 /\ ~(k - 1 <= n)
    <3>1. k - 1 \in 1 .. N /\ f[k - 1] = Null /\ f[k] = Null
      BY <1>1, <2>4
    <3> QED BY <2>4, <3>1 DEF sys_dlist_peek_next
  <2> QED BY <2>2, <2>3, <2>4
<1>3. f = G(f)
  BY <1>1, <1>2
<1>4. PICK h : h = Visited(m, q, N)
  OBVIOUS
<1>5. h = G(h)
  <2>1. \E v : v = G(v)
    BY <1>3
  <2> QED BY <1>4, <2>1 DEF Visited
<1> HIDE DEF G
<1>6. DOMAIN h = 1 .. N /\ \A k \in 1 .. N :
         h[k] = IF k = 1 THEN sys_dlist_peek_head(m, q) ELSE sys_dlist_peek_next(m, q, h[k - 1])
  BY <1>5 DEF G
<1>7. h = [k \in 1 .. N |-> h[k]]
  BY <1>5 DEF G
<1>8. PICK P : P = {k \in 0 .. N : k = 0 \/ h[k] = f[k]}
  OBVIOUS
<1>9. ASSUME NEW k \in 1 .. N, k - 1 \in P PROVE k \in P
  <2>1. CASE k = 1
    BY <1>2, <1>6, <1>8, <2>1
  <2>2. CASE k # 1
    <3>1. h[k - 1] = f[k - 1]
      BY <1>8, <1>9, <2>2
    <3> QED BY <1>2, <1>6, <1>8, <2>2, <3>1
  <2> QED BY <2>1, <2>2
<1>10. 0 \in P
  BY <1>8
<1>11. \A k \in 0 .. N : k \in P
  BY <1>9, <1>10, InductionTo
<1>12. \A k \in 1 .. N : h[k] = f[k]
  BY <1>8, <1>11
<1>13. f = [k \in 1 .. N |-> f[k]]
  BY <1>1
<1>14. h = f
  BY <1>7, <1>12, <1>13
<1> QED BY <1>1, <1>4, <1>14

\* SYS_DLIST_FOR_EACH_NODE meets the nodes of the list.
LEMMA Walked ==
    ASSUME NEW m \in [Nodes -> Pointers], NEW q \in Queues, NEW n, NEW c, Ring(m, q, n, c)
    PROVE  ForEachNode(m, q) = [i \in 1 .. n |-> c[i]]
<1>1. PICK N : N = Cardinality(DOMAIN m)
  OBVIOUS
<1>2. DOMAIN m = Nodes
  OBVIOUS
<1>3. n \in Nat /\ N \in Nat /\ n <= N
  <2>1. n <= Cardinality(Nodes) /\ Cardinality(Nodes) \in Nat
    BY RingLength
  <2>2. n \in Nat
    BY DEF Ring
  <2> QED BY <1>1, <1>2, <2>1, <2>2
<1>4. PICK v : v = Visited(m, q, N)
  OBVIOUS
<1>5. v = [k \in 1 .. N |-> IF k <= n THEN c[k] ELSE Null]
  <2>1. Visited(m, q, N) = [k \in 1 .. N |-> IF k <= n THEN c[k] ELSE Null]
    BY <1>3, VisitedIs
  <2> QED BY <1>4, <2>1
<1>6. ForEachNode(m, q) = [k \in 1 .. Cardinality({j \in DOMAIN v : v[j] # Null}) |-> v[k]]
  BY <1>1, <1>4 DEF ForEachNode, Visited
<1>7. \A k \in 1 .. n : c[k] # Null
  <2>1. Apart(q, n, c)
    BY RingFacts
  <2> QED BY <2>1 DEF Apart
<1>8. {j \in DOMAIN v : v[j] # Null} = 1 .. n
  BY <1>3, <1>5, <1>7
<1>9. Cardinality(1 .. n) = n
  BY <1>3, FS_Interval
<1> QED BY <1>3, <1>5, <1>6, <1>8, <1>9
-----------------------------------------------------------------------------
(* Unlinking and linking a node                                            *)

\* What sys_dlist_remove writes.
LEMMA RemoveWrites ==
    ASSUME NEW m \in [Nodes -> Pointers], NEW t \in Nodes, m[t].prev \in Nodes,
           m[t].next \in Nodes
    PROVE  /\ sys_dlist_remove(m, t) \in [Nodes -> Pointers]
           /\ sys_dlist_remove(m, t)[t] = Unlinked
           /\ \A x \in Nodes : x # t =>
                 /\ sys_dlist_remove(m, t)[x].next =
                       IF x = m[t].prev THEN m[t].next ELSE m[x].next
                 /\ sys_dlist_remove(m, t)[x].prev =
                       IF x = m[t].next THEN m[t].prev ELSE m[x].prev
                 /\ x # m[t].prev /\ x # m[t].next => sys_dlist_remove(m, t)[x] = m[x]
<1>1. PICK p : p = m[t].prev
  OBVIOUS
<1>2. PICK s : s = m[t].next
  OBVIOUS
<1>3. PICK w : w = [m EXCEPT ![p].next = s]
  OBVIOUS
<1>4. PICK v : v = [w EXCEPT ![s].prev = p]
  OBVIOUS
<1>5. PICK r : r = [v EXCEPT ![t] = Unlinked]
  OBVIOUS
<1>6. p \in Nodes /\ s \in Nodes
  BY <1>1, <1>2
<1>7. \A x \in Nodes : m[x] \in Pointers
  OBVIOUS
<1>8. w \in [Nodes -> Pointers] /\ \A x \in Nodes :
         /\ w[x].next = (IF x = p THEN s ELSE m[x].next) /\ w[x].prev = m[x].prev
         /\ x # p => w[x] = m[x]
  BY <1>3, <1>6, <1>7 DEF Pointers
<1>9. v \in [Nodes -> Pointers] /\ \A x \in Nodes :
         /\ v[x].next = w[x].next /\ v[x].prev = IF x = s THEN p ELSE w[x].prev
         /\ x # s => v[x] = w[x]
  BY <1>4, <1>6, <1>8 DEF Pointers
<1>10. r \in [Nodes -> Pointers] /\ r[t] = Unlinked /\ \A x \in Nodes : x # t => r[x] = v[x]
  BY <1>5, <1>9 DEF Pointers, Unlinked
<1>11. r = sys_dlist_remove(m, t)
  BY <1>1, <1>2, <1>3, <1>4, <1>5 DEF sys_dlist_remove, sys_dnode_init, Unlinked
<1> QED BY <1>1, <1>2, <1>8, <1>9, <1>10, <1>11

\* What sys_dlist_insert writes.
LEMMA InsertWrites ==
    ASSUME NEW m \in [Nodes -> Pointers], NEW s \in Nodes, NEW t \in Nodes,
           m[s].prev \in Nodes, t # s, t # m[s].prev
    PROVE  /\ sys_dlist_insert(m, s, t) \in [Nodes -> Pointers]
           /\ sys_dlist_insert(m, s, t)[t] = [next |-> s, prev |-> m[s].prev]
           /\ \A x \in Nodes : x # t =>
                 /\ sys_dlist_insert(m, s, t)[x].next = IF x = m[s].prev THEN t ELSE m[x].next
                 /\ sys_dlist_insert(m, s, t)[x].prev = IF x = s THEN t ELSE m[x].prev
                 /\ x # m[s].prev /\ x # s => sys_dlist_insert(m, s, t)[x] = m[x]
<1>1. PICK p : p = m[s].prev
  OBVIOUS
<1>3. PICK w : w = [m EXCEPT ![t] = [next |-> s, prev |-> p]]
  OBVIOUS
<1>4. PICK v : v = [w EXCEPT ![p].next = t]
  OBVIOUS
<1>5. PICK r : r = [v EXCEPT ![s].prev = t]
  OBVIOUS
<1>6. p \in Nodes /\ t # p
  BY <1>1
<1>7. \A x \in Nodes : m[x] \in Pointers
  OBVIOUS
<1>8. w \in [Nodes -> Pointers] /\ w[t] = [next |-> s, prev |-> p]
         /\ \A x \in Nodes : x # t => w[x] = m[x]
  BY <1>3, <1>6, <1>7 DEF Pointers
<1>9. v \in [Nodes -> Pointers] /\ \A x \in Nodes :
         /\ v[x].next = (IF x = p THEN t ELSE w[x].next) /\ v[x].prev = w[x].prev
         /\ x # p => v[x] = w[x]
  BY <1>4, <1>6, <1>8 DEF Pointers
<1>10. r \in [Nodes -> Pointers] /\ \A x \in Nodes :
         /\ r[x].next = v[x].next /\ r[x].prev = IF x = s THEN t ELSE v[x].prev
         /\ x # s => r[x] = v[x]
  BY <1>5, <1>9 DEF Pointers
<1>11. r = sys_dlist_insert(m, s, t)
  BY <1>1, <1>3, <1>4, <1>5 DEF sys_dlist_insert
<1> QED BY <1>1, <1>6, <1>8, <1>9, <1>10, <1>11

\* From memory m to r nothing is written but to t and the list c.
Unwritten(m, r, n, c, t) ==
    \A x \in Nodes : x # t /\ (\A j \in 0 .. n : x # c[j]) => r[x] = m[x]

\* The list c without its place i, and with t in front of it.
Without(n, c, i) == [j \in 0 .. n |-> IF j < i THEN c[j] ELSE c[j + 1]]
With(n, c, i, t) == [j \in 0 .. n + 2 |-> IF j < i THEN c[j] ELSE IF j = i THEN t ELSE c[j - 1]]

\* The node at place i leaves the list, and no other list notices.
LEMMA RemoveFromRing ==
    ASSUME NEW m \in [Nodes -> Pointers], NEW q \in Queues, NEW n, NEW c, Ring(m, q, n, c),
           NEW i \in 1 .. n, NEW r, r = sys_dlist_remove(m, c[i]), NEW d,
           d = Without(n, c, i)
    PROVE  /\ r \in [Nodes -> Pointers] /\ Ring(r, q, n - 1, d) /\ r[c[i]] = Unlinked
           /\ Unwritten(m, r, n, c, c[i])
<1> USE DEF Without
<1>1. n \in Nat /\ i \in Nat /\ i - 1 \in 0 .. n /\ i + 1 \in 1 .. n + 1 /\ i \in 0 .. n
  BY DEF Ring
<1>2. /\ c \in [0 .. n + 1 -> Nodes] /\ c[0] = q /\ c[n + 1] = q
      /\ \A j \in 1 .. n : c[j] \in Threads
      /\ \A j \in 0 .. n : m[c[j]].next = c[j + 1] /\ m[c[j + 1]].prev = c[j]
  BY DEF Ring
<1>3. /\ \A j \in 1 .. n : c[j] # q /\ c[j] # Null
      /\ \A j \in 0 .. n : \A k \in 0 .. n : c[j] = c[k] => j = k
      /\ \A j \in 1 .. n + 1 : \A k \in 1 .. n + 1 : c[j] = c[k] => j = k
  <2>1. Apart(q, n, c)
    BY RingFacts
  <2> QED BY <2>1 DEF Apart
<1>4. PICK t : t = c[i]
  OBVIOUS
<1>5. PICK p : p = c[i - 1]
  OBVIOUS
<1>6. PICK s : s = c[i + 1]
  OBVIOUS
<1>7. t \in Nodes /\ p \in Nodes /\ s \in Nodes
  BY <1>1, <1>2, <1>4, <1>5, <1>6
<1>8. m[t].prev = p /\ m[t].next = s
  <2>1. (i - 1) + 1 = i
    BY <1>1
  <2> QED BY <1>1, <1>2, <1>4, <1>5, <1>6, <2>1
<1>9. /\ r \in [Nodes -> Pointers] /\ r[t] = Unlinked
      /\ \A x \in Nodes : x # t =>
            /\ r[x].next = IF x = p THEN s ELSE m[x].next
            /\ r[x].prev = IF x = s THEN p ELSE m[x].prev
            /\ x # p /\ x # s => r[x] = m[x]
  BY <1>4, <1>7, <1>8, RemoveWrites
<1>10. ASSUME NEW j \in 0 .. n - 1 PROVE r[d[j]].next = d[j + 1] /\ r[d[j + 1]].prev = d[j]
  <2>1. j \in 0 .. n /\ j + 1 \in 0 .. n /\ j \in Nat
    BY <1>1
  <2>2. CASE j < i - 1
    <3>1. d[j] = c[j] /\ d[j + 1] = c[j + 1] /\ j + 1 \in 1 .. n + 1
      BY <1>1, <2>1, <2>2
    <3>2. c[j] # t /\ c[j] # p /\ c[j + 1] # t /\ c[j + 1] # s
      BY <1>1, <1>3, <1>4, <1>5, <1>6, <2>1, <2>2, <3>1
    <3>3. c[j] \in Nodes /\ c[j + 1] \in Nodes
      BY <1>1, <1>2, <2>1, <3>1
    <3>4. r[c[j]].next = m[c[j]].next /\ r[c[j + 1]].prev = m[c[j + 1]].prev
      BY <1>9, <3>2, <3>3
    <3> QED BY <1>2, <2>1, <3>1, <3>4
  <2>3. CASE j = i - 1
    <3>1. d[j] = p /\ d[j + 1] = s
      BY <1>1, <1>5, <1>6, <2>1, <2>3
    <3>2. p # t
      BY <1>1, <1>3, <1>4, <1>5
    <3>3. s # t
      BY <1>1, <1>3, <1>4, <1>6
    <3> QED BY <1>7, <1>9, <3>1, <3>2, <3>3
  <2>4. CASE j > i - 1
    <3>1. d[j] = c[j + 1] /\ d[j + 1] = c[(j + 1) + 1] /\ j + 1 \in 1 .. n + 1
          /\ (j + 1) + 1 \in 1 .. n + 1
      BY <1>1, <2>1, <2>4
    <3>2. c[j + 1] # t /\ c[j + 1] # p
      BY <1>1, <1>3, <1>4, <1>5, <2>1, <2>4, <3>1
    <3>3. c[(j + 1) + 1] # t /\ c[(j + 1) + 1] # s
      BY <1>1, <1>3, <1>4, <1>6, <2>1, <2>4, <3>1
    <3>4. c[j + 1] \in Nodes /\ c[(j + 1) + 1] \in Nodes
      BY <1>2, <2>1, <3>1
    <3>5. /\ r[c[j + 1]].next = m[c[j + 1]].next
          /\ r[c[(j + 1) + 1]].prev = m[c[(j + 1) + 1]].prev
      BY <1>9, <3>2, <3>3, <3>4
    <3> QED BY <1>2, <2>1, <3>1, <3>5
  <2> QED BY <1>1, <2>1, <2>2, <2>3, <2>4
<1>11. d \in [0 .. (n - 1) + 1 -> Nodes] /\ d[0] = q /\ d[(n - 1) + 1] = q /\ n - 1 \in Nat
  BY <1>1, <1>2
<1>12. ASSUME NEW j \in 1 .. n - 1
       PROVE  d[j] \in Threads /\ \A k \in 1 .. n - 1 : d[j] = d[k] => j = k
  BY <1>1, <1>2, <1>3
<1>13. Ring(r, q, n - 1, d)
  BY <1>10, <1>11, <1>12 DEF Ring
<1>14. ASSUME NEW x \in Nodes, \A j \in 0 .. n : x # c[j] PROVE r[x] = m[x]
  <2>1. s = c[0] \/ i + 1 \in 0 .. n
    BY <1>1, <1>2, <1>6
  <2>2. x # t /\ x # p /\ x # s
    BY <1>1, <1>4, <1>5, <1>6, <1>14, <2>1
  <2> QED BY <1>9, <2>2
<1> QED BY <1>4, <1>9, <1>13, <1>14 DEF Unwritten

\* A node that is on no list comes in front of place i.
LEMMA InsertIntoRing ==
    ASSUME NEW m \in [Nodes -> Pointers], NEW q \in Queues, NEW n, NEW c, Ring(m, q, n, c),
           NEW i \in 1 .. n + 1, NEW t \in Threads, \A j \in 1 .. n : c[j] # t,
           NEW r, r = sys_dlist_insert(m, c[i], t), NEW d, d = With(n, c, i, t)
    PROVE  /\ r \in [Nodes -> Pointers] /\ Ring(r, q, n + 1, d)
           /\ Unwritten(m, r, n, c, t)
<1> USE DEF With
<1>1. n \in Nat /\ i \in Nat /\ i - 1 \in 0 .. n /\ i \in 1 .. n + 1 /\ i \in 0 .. n + 1
  BY DEF Ring
<1>2. /\ c \in [0 .. n + 1 -> Nodes] /\ c[0] = q /\ c[n + 1] = q
      /\ \A j \in 1 .. n : c[j] \in Threads
      /\ \A j \in 0 .. n : m[c[j]].next = c[j + 1] /\ m[c[j + 1]].prev = c[j]
  BY DEF Ring
<1>3. /\ \A j \in 1 .. n : c[j] # q /\ c[j] # Null
      /\ \A j \in 0 .. n : \A k \in 0 .. n : c[j] = c[k] => j = k
      /\ \A j \in 1 .. n + 1 : \A k \in 1 .. n + 1 : c[j] = c[k] => j = k
  <2>1. Apart(q, n, c)
    BY RingFacts
  <2> QED BY <2>1 DEF Apart
<1>4. t \in Nodes /\ t # q
  BY WaitQueueAssumption DEF Nodes
<1>15. \A j \in 0 .. n + 1 : c[j] # t
  BY <1>1, <1>2, <1>4
<1>5. PICK p : p = c[i - 1]
  OBVIOUS
<1>6. PICK s : s = c[i]
  OBVIOUS
<1>7. p \in Nodes /\ s \in Nodes /\ t # p /\ t # s
  BY <1>1, <1>2, <1>15, <1>5, <1>6
<1>8. m[s].prev = p
  <2>1. (i - 1) + 1 = i
    BY <1>1
  <2> QED BY <1>1, <1>2, <1>5, <1>6, <2>1
<1>9. /\ r \in [Nodes -> Pointers] /\ r[t] = [next |-> s, prev |-> p]
      /\ \A x \in Nodes : x # t =>
            /\ r[x].next = IF x = p THEN t ELSE m[x].next
            /\ r[x].prev = IF x = s THEN t ELSE m[x].prev
            /\ x # p /\ x # s => r[x] = m[x]
  BY <1>4, <1>6, <1>7, <1>8, InsertWrites
<1>10. ASSUME NEW j \in 0 .. n + 1 PROVE r[d[j]].next = d[j + 1] /\ r[d[j + 1]].prev = d[j]
  <2>1. j \in 0 .. n + 1 /\ j + 1 \in 0 .. n + 2 /\ j \in 0 .. n + 2 /\ j \in Nat
    BY <1>1
  <2>2. CASE j < i - 1
    <3>1. d[j] = c[j] /\ d[j + 1] = c[j + 1] /\ j + 1 \in 1 .. n + 1 /\ j \in 0 .. n
      BY <1>1, <2>1, <2>2
    <3>2. c[j] # t /\ c[j] # p /\ c[j + 1] # t /\ c[j + 1] # s
      BY <1>1, <1>3, <1>15, <1>5, <1>6, <2>1, <2>2, <3>1
    <3>3. c[j] \in Nodes /\ c[j + 1] \in Nodes
      BY <1>1, <1>2, <2>1, <3>1
    <3>4. r[c[j]].next = m[c[j]].next /\ r[c[j + 1]].prev = m[c[j + 1]].prev
      BY <1>9, <3>2, <3>3
    <3> QED BY <1>2, <3>1, <3>4
  <2>3. CASE j = i - 1
    <3>1. d[j] = p /\ d[j + 1] = t
      BY <1>1, <1>5, <2>1, <2>3
    <3> QED BY <1>7, <1>9, <3>1
  <2>4. CASE j = i
    <3>1. d[j] = t /\ d[j + 1] = s
      BY <1>1, <1>6, <2>1, <2>4
    <3> QED BY <1>7, <1>9, <3>1
  <2>5. CASE j > i
    <3>1. d[j] = c[j - 1] /\ d[j + 1] = c[(j - 1) + 1] /\ (j - 1) + 1 \in 1 .. n + 1
          /\ j - 1 \in 0 .. n
      BY <1>1, <2>1, <2>5
    <3>2. c[j - 1] # t /\ c[j - 1] # p /\ c[(j - 1) + 1] # t /\ c[(j - 1) + 1] # s
      BY <1>1, <1>3, <1>15, <1>5, <1>6, <2>1, <2>5, <3>1
    <3>4. c[j - 1] \in Nodes /\ c[(j - 1) + 1] \in Nodes
      BY <1>1, <1>2, <2>1, <3>1
    <3>5. /\ r[c[j - 1]].next = m[c[j - 1]].next
          /\ r[c[(j - 1) + 1]].prev = m[c[(j - 1) + 1]].prev
      BY <1>9, <3>2, <3>4
    <3> QED BY <1>2, <3>1, <3>5
  <2> QED BY <1>1, <2>1, <2>2, <2>3, <2>4, <2>5
<1>11. d \in [0 .. (n + 1) + 1 -> Nodes] /\ d[0] = q /\ d[(n + 1) + 1] = q /\ n + 1 \in Nat
  <2>1. ASSUME NEW j \in 0 .. n + 2 PROVE d[j] \in Nodes
    <3>1. j < i \/ j = i \/ j - 1 \in 0 .. n + 1
      BY <1>1
    <3>2. j < i => j \in 0 .. n + 1
      BY <1>1
    <3> QED BY <1>2, <1>4, <3>1, <3>2
  <2>2. (n + 1) + 1 = n + 2 /\ n + 2 \in 0 .. n + 2 /\ 0 \in 0 .. n + 2 /\ ~(n + 2 < i)
        /\ n + 2 # i /\ (n + 2) - 1 = n + 1 /\ n + 1 \in Nat /\ 0 < i
    BY <1>1
  <2>3. d[0] = q /\ d[n + 2] = q
    BY <1>2, <2>2
  <2>4. d \in [0 .. n + 2 -> Nodes]
    BY <2>1
  <2> QED BY <2>2, <2>3, <2>4
<1>12. ASSUME NEW j \in 1 .. n + 1 PROVE d[j] \in Threads
  <2>1. j \in 0 .. n + 2 /\ (j < i => j \in 1 .. n) /\ (j > i => j - 1 \in 1 .. n)
    BY <1>1
  <2>2. j < i \/ j = i \/ j > i
    BY <1>1
  <2> QED BY <1>1, <1>2, <2>1, <2>2
<1>16. ASSUME NEW j \in 1 .. n + 1, NEW k \in 1 .. n + 1, d[j] = d[k] PROVE j = k
  <2>1. j \in 0 .. n + 2 /\ (j < i => j \in 1 .. n) /\ (j > i => j - 1 \in 1 .. n)
    BY <1>1
  <2>2. k \in 0 .. n + 2 /\ (k < i => k \in 1 .. n) /\ (k > i => k - 1 \in 1 .. n)
    BY <1>1
  <2>3. /\ j < i => d[j] = c[j] /\ d[j] # t
        /\ j > i => d[j] = c[j - 1] /\ d[j] # t
        /\ j = i => d[j] = t
    BY <1>1, <2>1
  <2>4. /\ k < i => d[k] = c[k] /\ d[k] # t
        /\ k > i => d[k] = c[k - 1] /\ d[k] # t
        /\ k = i => d[k] = t
    BY <1>1, <2>2
  <2>5. \A x, y \in 1 .. n : c[x] = c[y] => x = y
    BY <1>1, <1>3
  <2> QED BY <1>1, <1>16, <2>1, <2>2, <2>3, <2>4, <2>5
<1>13. Ring(r, q, n + 1, d)
  BY <1>10, <1>11, <1>12, <1>16 DEF Ring
<1>14. ASSUME NEW x \in Nodes, x # t, \A j \in 0 .. n : x # c[j] PROVE r[x] = m[x]
  <2>1. s = c[0] \/ i \in 0 .. n
    BY <1>1, <1>2, <1>6
  <2>2. x # p /\ x # s
    BY <1>1, <1>5, <1>6, <1>14, <2>1
  <2> QED BY <1>9, <1>14, <2>2
<1> QED BY <1>9, <1>13, <1>14 DEF Unwritten
-----------------------------------------------------------------------------
(* The wait queues                                                         *)

WaitTypes(w, pri) == w \in [Threads -> Queues \cup {Null}] /\ pri \in [Threads -> Nat]

\* The list c of queue q holds the threads whose wait_q, w, names it; if ord
\* holds, by descending priority.
Holds(q, n, c, w)   == \A t \in Threads : w[t] = q <=> \E i \in 1 .. n : c[i] = t
Sorted(n, c, pri)   == \A i, j \in 1 .. n : i < j => pri[c[i]] >= pri[c[j]]
List(m, q, n, c, w, pri, ord) ==
    Ring(m, q, n, c) /\ Holds(q, n, c, w) /\ (ord => Sorted(n, c, pri))

HasList(m, q, w, pri, ord) == \E n, c : List(m, q, n, c, w, pri, ord)

Linked(m, w, pri, ord) ==
    /\ m \in [Nodes -> Pointers]
    /\ \A q \in Queues : HasList(m, q, w, pri, ord)
    /\ \A t \in Threads : w[t] = Null => m[t] = Unlinked

\* All but queue q and thread t are linked.
OthersLinked(m, w, v, pri, ord, q, t) ==
    /\ \A p \in Queues : p # q => HasList(m, p, v, pri, ord)
    /\ \A u \in Threads : u # t /\ w[u] = Null => m[u] = Unlinked

\* What is written to one list and to a thread t that enters or leaves it does
\* not disturb the others.
LEMMA OtherLists ==
    ASSUME NEW m, NEW w, NEW pri, NEW ord \in BOOLEAN, Linked(m, w, pri, ord),
           WaitTypes(w, pri), NEW q \in Queues, NEW n, NEW c, List(m, q, n, c, w, pri, ord),
           NEW t \in Threads, w[t] = q \/ w[t] = Null, NEW z, z = q \/ z = Null, NEW v,
           v = [w EXCEPT ![t] = z], NEW r, Unwritten(m, r, n, c, t)
    PROVE  OthersLinked(r, w, v, pri, ord, q, t)
<1> USE DEF Unwritten
<1>1. n \in Nat /\ c[0] = q /\ \A j \in 1 .. n : c[j] \in Threads /\ w[c[j]] = q
  BY DEF List, Ring, Holds
<1>2. ASSUME NEW u \in Threads, u # t, w[u] # q PROVE r[u] = m[u]
  <2>1. u \in Nodes /\ u # q
    BY WaitQueueAssumption DEF Nodes
  <2>2. ASSUME NEW j \in 0 .. n PROVE u # c[j]
    <3>1. j = 0 \/ j \in 1 .. n
      BY <1>1
    <3> QED BY <1>1, <1>2, <2>1, <3>1
  <2> QED BY <1>2, <2>1, <2>2
<1>3. ASSUME NEW p \in Queues, p # q PROVE HasList(r, p, v, pri, ord)
  <2>1. PICK k, d : List(m, p, k, d, w, pri, ord)
    BY DEF Linked, HasList
  <2>2. k \in Nat /\ d[0] = p /\ d[k + 1] = p /\ \A j \in 1 .. k : d[j] \in Threads /\ w[d[j]] = p
    BY <2>1 DEF List, Ring, Holds
  <2>3. p # Null /\ q # Null
    BY WaitQueueAssumption
  <2>4. r[p] = m[p]
    <3>1. p \in Nodes /\ p # t
      BY WaitQueueAssumption DEF Nodes
    <3>2. ASSUME NEW j \in 0 .. n PROVE p # c[j]
      <4>1. j = 0 \/ j \in 1 .. n
        BY <1>1
      <4>2. p \notin Threads
        BY WaitQueueAssumption
      <4> QED BY <1>1, <1>3, <4>1, <4>2
    <3> QED BY <3>1, <3>2
  <2>5. ASSUME NEW j \in 0 .. k + 1 PROVE r[d[j]] = m[d[j]]
    <3>1. j = 0 \/ j = k + 1 \/ j \in 1 .. k
      BY <2>2
    <3>2. CASE j \in 1 .. k
      <4>1. d[j] \in Threads /\ w[d[j]] = p /\ d[j] # t
        BY <2>2, <2>3, <1>3, <3>2
      <4> QED BY <1>2, <1>3, <4>1
    <3> QED BY <2>2, <2>4, <3>1, <3>2
  <2>6. Ring(r, p, k, d)
    <3>1. Ring(m, p, k, d)
      BY <2>1 DEF List
    <3> QED BY <2>5, <3>1, RingFrame
  <2>7. Holds(p, k, d, v)
    <3>1. \A u \in Threads : v[u] = p <=> w[u] = p
      BY <1>3, <2>3 DEF WaitTypes
    <3>2. Holds(p, k, d, w)
      BY <2>1 DEF List
    <3> QED BY <3>1, <3>2 DEF Holds
  <2>8. List(r, p, k, d, v, pri, ord)
    BY <2>1, <2>6, <2>7 DEF List
  <2> QED BY <2>8 DEF HasList
<1>4. ASSUME NEW u \in Threads, u # t, w[u] = Null PROVE r[u] = Unlinked
  <2>1. w[u] # q
    BY <1>4, WaitQueueAssumption
  <2> QED BY <1>2, <1>4, <2>1 DEF Linked
<1> QED BY <1>3, <1>4 DEF OthersLinked

\* A thread leaves the queue it waits in.
LEMMA Leaves ==
    ASSUME NEW m, NEW w, NEW pri, NEW ord \in BOOLEAN, Linked(m, w, pri, ord),
           WaitTypes(w, pri), NEW t \in Threads, w[t] # Null
    PROVE  Linked(sys_dlist_remove(m, t), [w EXCEPT ![t] = Null], pri, ord)
<1>1. PICK q : q = w[t]
  OBVIOUS
<1>2. q \in Queues /\ q # Null
  BY <1>1 DEF WaitTypes
<1>3. PICK n, c : List(m, q, n, c, w, pri, ord)
  BY <1>2 DEF Linked, HasList
<1>4. n \in Nat /\ c \in [0 .. n + 1 -> Nodes] /\ Ring(m, q, n, c) /\ Holds(q, n, c, w)
  BY <1>3 DEF List, Ring
<1>5. PICK i \in 1 .. n : c[i] = t
  BY <1>1, <1>4 DEF Holds
<1>6. PICK r : r = sys_dlist_remove(m, t)
  OBVIOUS
<1>7. PICK d : d = Without(n, c, i)
  OBVIOUS
<1>8. m \in [Nodes -> Pointers] /\ r = sys_dlist_remove(m, c[i])
  BY <1>5, <1>6 DEF Linked
<1>9. /\ r \in [Nodes -> Pointers] /\ Ring(r, q, n - 1, d) /\ r[c[i]] = Unlinked
      /\ Unwritten(m, r, n, c, c[i])
  BY <1>2, <1>4, <1>7, <1>8, RemoveFromRing
<1> USE DEF Without
<1>10. PICK v : v = [w EXCEPT ![t] = Null]
  OBVIOUS
<1>11. v \in [Threads -> Queues \cup {Null}] /\ v[t] = Null
       /\ \A u \in Threads : u # t => v[u] = w[u]
  BY <1>10 DEF WaitTypes
<1>12. \A j \in 1 .. n : c[j] = t => j = i
  BY <1>4, <1>5 DEF Ring
<1>13. Holds(q, n - 1, d, v)
  <2>1. ASSUME NEW u \in Threads, v[u] = q PROVE \E j \in 1 .. n - 1 : d[j] = u
    <3>1. u # t /\ w[u] = q
      BY <1>2, <1>11, <2>1
    <3>2. PICK j \in 1 .. n : c[j] = u
      BY <1>4, <3>1 DEF Holds
    <3>3. j # i
      BY <1>5, <3>1, <3>2
    <3>4. CASE j < i
      <4>1. j \in 1 .. n - 1 /\ j \in 0 .. n /\ d[j] = c[j]
        BY <1>4, <1>7, <3>4
      <4> QED BY <3>2, <4>1
    <3>5. CASE j > i
      <4>1. j - 1 \in 1 .. n - 1 /\ j - 1 \in 0 .. n /\ ~(j - 1 < i) /\ (j - 1) + 1 = j
        BY <1>4, <3>5
      <4>2. d[j - 1] = c[j]
        BY <1>7, <4>1
      <4> QED BY <3>2, <4>1, <4>2
    <3> QED BY <1>4, <3>3, <3>4, <3>5
  <2>2. ASSUME NEW u \in Threads, NEW j \in 1 .. n - 1, d[j] = u PROVE v[u] = q
    <3>1. PICK k \in 1 .. n : k # i /\ c[k] = u
      <4>1. j < i => j \in 1 .. n /\ j # i /\ d[j] = c[j]
        BY <1>4, <1>7
      <4>2. ~(j < i) => j + 1 \in 1 .. n /\ j + 1 # i /\ d[j] = c[j + 1]
        BY <1>4, <1>7
      <4> QED BY <2>2, <4>1, <4>2
    <3>2. u # t
      BY <1>12, <3>1
    <3> QED BY <1>4, <1>11, <3>1, <3>2 DEF Holds
  <2> QED BY <2>1, <2>2 DEF Holds
<1>14. ord => Sorted(n - 1, d, pri)
  <2>1. SUFFICES ASSUME ord, NEW j \in 1 .. n - 1, NEW k \in 1 .. n - 1, j < k
                 PROVE  pri[d[j]] >= pri[d[k]]
    BY DEF Sorted
  <2>2. \A x, y \in 1 .. n : x < y => pri[c[x]] >= pri[c[y]]
    BY <1>3, <2>1 DEF List, Sorted
  <2>3. j \in 0 .. n /\ k \in 0 .. n /\ j \in 1 .. n /\ k \in 1 .. n /\ j + 1 \in 1 .. n
        /\ k + 1 \in 1 .. n
    BY <1>4
  <2>4. PICK x \in 1 .. n : d[j] = c[x] /\ x = IF j < i THEN j ELSE j + 1
    BY <1>7, <2>3
  <2>5. PICK y \in 1 .. n : d[k] = c[y] /\ y = IF k < i THEN k ELSE k + 1
    BY <1>7, <2>3
  <2>6. x < y
    BY <1>4, <2>1, <2>3, <2>4, <2>5
  <2> QED BY <2>2, <2>4, <2>5, <2>6
<1>15. HasList(r, q, v, pri, ord)
  BY <1>9, <1>13, <1>14 DEF List, HasList
<1>16. OthersLinked(r, w, v, pri, ord, q, t)
  <2>1. w[t] = q \/ w[t] = Null
    BY <1>1
  <2>2. Unwritten(m, r, n, c, t)
    BY <1>5, <1>9
  <2> QED BY <1>2, <1>3, <1>10, <2>1, <2>2, OtherLists
<1>17. Linked(r, v, pri, ord)
  BY <1>5, <1>9, <1>11, <1>15, <1>16 DEF Linked, OthersLinked
<1> QED BY <1>6, <1>10, <1>17

\* os_waitq_insert_priority_locked puts t behind all waiters of its priority or a
\* higher one, up to the first that has a lower one.
LEMMA InsertPlace ==
    ASSUME NEW m \in [Nodes -> Pointers], NEW q \in Queues, NEW n, NEW c, Ring(m, q, n, c),
           NEW t \in Threads, NEW pri \in [Threads -> Nat]
    PROVE  \E i \in 1 .. n + 1 :
              /\ os_waitq_insert_priority_locked(m, q, t, pri) = sys_dlist_insert(m, c[i], t)
              /\ \A j \in 1 .. n : j < i => pri[c[j]] >= pri[t]
              /\ i <= n => pri[t] > pri[c[i]]
<1>1. PICK s : s = [i \in 1 .. n |-> c[i]]
  OBVIOUS
<1>2. ForEachNode(m, q) = s
  BY <1>1, Walked
<1>3. n \in Nat /\ c[n + 1] = q /\ \A j \in 1 .. n : c[j] \in Threads
  BY DEF Ring
<1>4. PICK L : L = {i \in DOMAIN s : pri[t] > pri[s[i]]}
  OBVIOUS
<1>5. L = {i \in 1 .. n : pri[t] > pri[c[i]]}
  BY <1>1, <1>4
<1>6. pri[t] \in Nat /\ \A j \in 1 .. n : pri[c[j]] \in Nat
  BY <1>3
<1>7. os_waitq_insert_priority_locked(m, q, t, pri) =
         IF L = {} THEN sys_dlist_append(m, q, t) ELSE sys_dlist_insert(m, s[Min(L)], t)
  BY <1>2, <1>4 DEF os_waitq_insert_priority_locked
<1>8. CASE L = {}
  <2>1. os_waitq_insert_priority_locked(m, q, t, pri) = sys_dlist_insert(m, c[n + 1], t)
    BY <1>3, <1>7, <1>8 DEF sys_dlist_append, sys_dlist_insert
  <2>2. \A j \in 1 .. n : pri[c[j]] >= pri[t]
    BY <1>5, <1>6, <1>8
  <2>3. n + 1 \in 1 .. n + 1 /\ ~(n + 1 <= n)
    BY <1>3
  <2> QED BY <2>1, <2>2, <2>3
<1>9. CASE L # {}
  <2>1. L \subseteq Nat
    BY <1>3, <1>5
  <2>2. PICK i : i = Min(L)
    OBVIOUS
  <2>3. i \in L /\ \A y \in L : i <= y
    BY <1>9, <2>1, <2>2, LeastNumber
  <2>4. i \in 1 .. n /\ i \in 1 .. n + 1 /\ pri[t] > pri[c[i]] /\ s[i] = c[i]
    BY <1>1, <1>3, <1>5, <2>3
  <2>5. os_waitq_insert_priority_locked(m, q, t, pri) = sys_dlist_insert(m, c[i], t)
    BY <1>7, <1>9, <2>2, <2>4
  <2>6. ASSUME NEW j \in 1 .. n, j < i PROVE pri[c[j]] >= pri[t]
    <3>1. j \notin L
      BY <1>3, <2>3, <2>4, <2>6
    <3> QED BY <1>5, <1>6, <3>1
  <2> QED BY <2>4, <2>5, <2>6
<1> QED BY <1>8, <1>9

\* A thread that waits nowhere joins a queue.
LEMMA Joins ==
    ASSUME NEW m, NEW w, NEW pri, NEW ord \in BOOLEAN, Linked(m, w, pri, ord),
           WaitTypes(w, pri), NEW t \in Threads, w[t] = Null, NEW q \in Queues
    PROVE  Linked(os_waitq_insert_priority_locked(m, q, t, pri), [w EXCEPT ![t] = q], pri, ord)
<1>2. q # Null /\ m \in [Nodes -> Pointers] /\ pri \in [Threads -> Nat]
  BY WaitQueueAssumption DEF Linked, WaitTypes
<1>3. PICK n, c : List(m, q, n, c, w, pri, ord)
  BY DEF Linked, HasList
<1>4. n \in Nat /\ c \in [0 .. n + 1 -> Nodes] /\ Ring(m, q, n, c) /\ Holds(q, n, c, w)
      /\ \A j \in 1 .. n : c[j] \in Threads
  BY <1>3 DEF List, Ring
<1>5. PICK i \in 1 .. n + 1 :
          /\ os_waitq_insert_priority_locked(m, q, t, pri) = sys_dlist_insert(m, c[i], t)
          /\ \A j \in 1 .. n : j < i => pri[c[j]] >= pri[t]
          /\ i <= n => pri[t] > pri[c[i]]
  BY <1>2, <1>4, InsertPlace
<1>6. PICK r : r = sys_dlist_insert(m, c[i], t)
  OBVIOUS
<1>7. PICK d : d = With(n, c, i, t)
  OBVIOUS
<1>8. \A j \in 1 .. n : c[j] # t
  BY <1>2, <1>4 DEF Holds
<1>9. /\ r \in [Nodes -> Pointers] /\ Ring(r, q, n + 1, d)
      /\ Unwritten(m, r, n, c, t)
  BY <1>2, <1>4, <1>6, <1>7, <1>8, InsertIntoRing
<1>10. PICK v : v = [w EXCEPT ![t] = q]
  OBVIOUS
<1>11. v \in [Threads -> Queues \cup {Null}] /\ v[t] = q
       /\ \A u \in Threads : u # t => v[u] = w[u]
  BY <1>10 DEF WaitTypes
<1>12. i \in Nat /\ i \in 0 .. n + 2 /\ d[i] = t
  BY <1>4, <1>7 DEF With
<1>13. Holds(q, n + 1, d, v)
  <2>1. ASSUME NEW u \in Threads, v[u] = q PROVE \E j \in 1 .. n + 1 : d[j] = u
    <3>1. CASE u = t
      BY <1>12, <3>1
    <3>2. CASE u # t
      <4>1. PICK j \in 1 .. n : c[j] = u
        BY <1>4, <1>11, <2>1, <3>2 DEF Holds
      <4>2. CASE j < i
        <5>1. j \in 1 .. n + 1 /\ j \in 0 .. n + 2 /\ d[j] = c[j]
          BY <1>4, <1>7, <4>2 DEF With
        <5> QED BY <4>1, <5>1
      <4>3. CASE ~(j < i)
        <5>1. j + 1 \in 1 .. n + 1 /\ j + 1 \in 0 .. n + 2 /\ ~(j + 1 < i) /\ j + 1 # i
              /\ (j + 1) - 1 = j
          BY <1>4, <1>12, <4>3
        <5>2. d[j + 1] = c[j]
          BY <1>7, <5>1 DEF With
        <5> QED BY <4>1, <5>1, <5>2
      <4> QED BY <4>2, <4>3
    <3> QED BY <3>1, <3>2
  <2>2. ASSUME NEW u \in Threads, NEW j \in 1 .. n + 1, d[j] = u PROVE v[u] = q
    <3>1. CASE j = i
      BY <1>11, <1>12, <2>2, <3>1
    <3>2. CASE j # i
      <4>1. PICK k \in 1 .. n : c[k] = u
        <5>1. j < i => j \in 1 .. n /\ d[j] = c[j]
          BY <1>4, <1>7 DEF With
        <5>2. ~(j < i) => j - 1 \in 1 .. n /\ d[j] = c[j - 1]
          BY <1>4, <1>7, <1>12, <3>2 DEF With
        <5> QED BY <2>2, <5>1, <5>2
      <4>2. u # t
        BY <1>8, <4>1
      <4> QED BY <1>4, <1>11, <4>1, <4>2 DEF Holds
    <3> QED BY <3>1, <3>2
  <2> QED BY <2>1, <2>2 DEF Holds
<1>14. ord => Sorted(n + 1, d, pri)
  <2>1. SUFFICES ASSUME ord, NEW j \in 1 .. n + 1, NEW k \in 1 .. n + 1, j < k
                 PROVE  pri[d[j]] >= pri[d[k]]
    BY DEF Sorted
  <2>2. \A x, y \in 1 .. n : x < y => pri[c[x]] >= pri[c[y]]
    BY <1>3, <2>1 DEF List, Sorted
  <2>3. pri[t] \in Nat /\ \A x \in 1 .. n : pri[c[x]] \in Nat
    BY <1>2, <1>4
  <2>4. /\ j < i => j \in 1 .. n /\ d[j] = c[j]
        /\ j > i => j - 1 \in 1 .. n /\ d[j] = c[j - 1]
        /\ j = i => d[j] = t
    BY <1>4, <1>7, <1>12 DEF With
  <2>5. /\ k < i => k \in 1 .. n /\ d[k] = c[k]
        /\ k > i => k - 1 \in 1 .. n /\ d[k] = c[k - 1]
        /\ k = i => d[k] = t
    BY <1>4, <1>7, <1>12 DEF With
  <2>6. CASE j < i /\ k < i
    BY <2>1, <2>2, <2>4, <2>5, <2>6
  <2>7. CASE j < i /\ k = i
    BY <1>5, <2>4, <2>5, <2>7
  <2>8. CASE j < i /\ k > i
    <3>1. j < k - 1
      BY <1>12, <2>8
    <3> QED BY <2>2, <2>4, <2>5, <2>8, <3>1
  <2>9. CASE j = i
    <3>1. k > i /\ k - 1 \in 1 .. n /\ d[k] = c[k - 1] /\ d[j] = t
      BY <1>12, <2>1, <2>4, <2>5, <2>9
    <3>2. i <= k - 1 /\ i \in 1 .. n /\ i <= n
      BY <1>4, <1>12, <3>1
    <3>3. pri[t] > pri[c[i]]
      BY <1>5, <3>2
    <3>4. pri[c[i]] >= pri[c[k - 1]]
      <4>1. i = k - 1 \/ i < k - 1
        BY <1>12, <3>2
      <4> QED BY <2>2, <2>3, <3>1, <3>2, <4>1
    <3>5. pri[t] >= pri[c[k - 1]]
      BY <2>3, <3>1, <3>2, <3>3, <3>4
    <3> QED BY <3>1, <3>5
  <2>10. CASE j > i
    <3>1. k > i /\ j - 1 < k - 1
      BY <1>12, <2>1, <2>10
    <3> QED BY <2>2, <2>4, <2>5, <2>10, <3>1
  <2> QED BY <1>12, <2>1, <2>6, <2>7, <2>8, <2>9, <2>10
<1>15. HasList(r, q, v, pri, ord)
  BY <1>9, <1>13, <1>14 DEF List, HasList
<1>16. OthersLinked(r, w, v, pri, ord, q, t)
  <2>1. Unwritten(m, r, n, c, t)
    BY <1>9
  <2> QED BY <1>3, <1>10, <2>1, OtherLists
<1>17. Linked(r, v, pri, ord)
  BY <1>2, <1>9, <1>11, <1>15, <1>16 DEF Linked, OthersLinked
<1> QED BY <1>5, <1>6, <1>10, <1>17

\* The priority of a thread that waits nowhere does not matter.
LEMMA FreeToChange ==
    ASSUME NEW m, NEW w, NEW pri, NEW pri2, NEW ord \in BOOLEAN, Linked(m, w, pri, ord),
           ord => \A t \in Threads : w[t] # Null => pri2[t] = pri[t]
    PROVE  Linked(m, w, pri2, ord)
<1>1. ASSUME NEW q \in Queues PROVE HasList(m, q, w, pri2, ord)
  <2>1. PICK n, c : List(m, q, n, c, w, pri, ord)
    BY DEF Linked, HasList
  <2>2. q # Null /\ \A i \in 1 .. n : c[i] \in Threads /\ w[c[i]] = q
    BY <2>1, WaitQueueAssumption DEF List, Ring, Holds
  <2>3. ord => \A i \in 1 .. n : pri2[c[i]] = pri[c[i]]
    BY <2>2
  <2>4. ord => Sorted(n, c, pri2)
    BY <2>1, <2>3 DEF List, Sorted
  <2> QED BY <2>1, <2>4 DEF List, HasList
<1> QED BY <1>1 DEF Linked

\* sys_dlist_get takes the first waiter off the queue, if there is one.
LEMMA Gets ==
    ASSUME NEW m, NEW w, NEW pri, NEW ord \in BOOLEAN, Linked(m, w, pri, ord),
           WaitTypes(w, pri), NEW q \in Queues
    PROVE  IF sys_dlist_is_empty(m, q)
           THEN sys_dlist_get(m, q) = m /\ \A t \in Threads : w[t] # q
           ELSE /\ m[q].next \in Threads /\ w[m[q].next] = q
                /\ Linked(sys_dlist_get(m, q), [w EXCEPT ![m[q].next] = Null], pri, ord)
<1>1. PICK n, c : List(m, q, n, c, w, pri, ord)
  BY DEF Linked, HasList
<1>2. n \in Nat /\ m[q].next = c[1] /\ Ring(m, q, n, c) /\ Holds(q, n, c, w)
      /\ c[n + 1] = q /\ \A j \in 1 .. n : c[j] \in Threads
  BY <1>1 DEF List, Ring
<1>3. CASE n = 0
  <2>1. sys_dlist_is_empty(m, q)
    BY <1>2, <1>3 DEF sys_dlist_is_empty
  <2>2. \A t \in Threads : w[t] # q
    BY <1>2, <1>3 DEF Holds
  <2> QED BY <2>1, <2>2 DEF sys_dlist_get
<1>4. CASE n # 0
  <2>1. 1 \in 1 .. n
    BY <1>2, <1>4
  <2>2. PICK t : t = c[1]
    OBVIOUS
  <2>3. t \in Threads /\ w[t] = q /\ t # q /\ q # Null
    BY <1>2, <2>1, <2>2, WaitQueueAssumption DEF Holds
  <2>4. m[q].next = t /\ ~sys_dlist_is_empty(m, q)
    BY <1>2, <2>2, <2>3 DEF sys_dlist_is_empty
  <2>5. sys_dlist_get(m, q) = sys_dlist_remove(m, t)
    BY <2>4 DEF sys_dlist_get
  <2>6. Linked(sys_dlist_remove(m, t), [w EXCEPT ![t] = Null], pri, ord)
    BY <2>3, Leaves
  <2> QED BY <2>3, <2>4, <2>5, <2>6
<1> QED BY <1>3, <1>4

\* The memory after k waiters were taken off queue q.
Taken(m, q, n) ==
    CHOOSE f : f = [k \in 0 .. n |-> IF k = 0 THEN m ELSE sys_dlist_get(f[k - 1], q)]

LEMMA TakenIs ==
    ASSUME NEW m, NEW q, NEW n \in Nat, NEW h, h = Taken(m, q, n)
    PROVE  h[0] = m /\ \A k \in 1 .. n : h[k] = sys_dlist_get(h[k - 1], q)
<1> DEFINE G(f, k) == [j \in 0 .. k |-> IF j = 0 THEN m ELSE sys_dlist_get(f[j - 1], q)]
<1>1. PICK P : P = {k \in 0 .. n : \E f : f = G(f, k)}
  OBVIOUS
<1>2. 0 \in P
  <2>1. PICK f : f = [j \in 0 .. 0 |-> m]
    OBVIOUS
  <2>2. f = G(f, 0)
    BY <2>1
  <2> QED BY <1>1, <2>2
<1>3. ASSUME NEW k \in 1 .. n, k - 1 \in P PROVE k \in P
  <2>1. PICK f : f = G(f, k - 1)
    BY <1>1, <1>3
  <2>2. PICK g : g = [j \in 0 .. k |-> IF j = k THEN sys_dlist_get(f[k - 1], q) ELSE f[j]]
    OBVIOUS
  <2>3. ASSUME NEW j \in 0 .. k
        PROVE  g[j] = IF j = 0 THEN m ELSE sys_dlist_get(g[j - 1], q)
    <3>1. CASE j = k
      <4>1. k - 1 \in 0 .. k /\ k - 1 # k /\ j # 0
        BY <3>1
      <4> QED BY <2>2, <3>1, <4>1
    <3>2. CASE j # k
      <4>1. j \in 0 .. k - 1 /\ g[j] = f[j]
        BY <2>2, <3>2
      <4>2. f[j] = IF j = 0 THEN m ELSE sys_dlist_get(f[j - 1], q)
        BY <2>1, <4>1
      <4>3. j # 0 => j - 1 \in 0 .. k /\ j - 1 # k
        BY <4>1
      <4>4. j # 0 => g[j - 1] = f[j - 1]
        BY <2>2, <4>3
      <4> QED BY <4>1, <4>2, <4>4
    <3> QED BY <3>1, <3>2
  <2>4. g = G(g, k)
    BY <2>2, <2>3
  <2> QED BY <1>1, <2>4
<1>4. n \in P
  BY <1>2, <1>3, InductionTo
<1>5. \E f : f = G(f, n)
  BY <1>1, <1>4
<1>6. h = G(h, n)
  BY <1>5 DEF Taken
<1>7. PICK g : g = G(h, n)
  OBVIOUS
<1>8. g[0] = m /\ \A k \in 1 .. n : g[k] = sys_dlist_get(h[k - 1], q)
  BY <1>7
<1>9. h = g
  BY <1>6, <1>7
<1> QED BY <1>8, <1>9

(***************************************************************************)
(* The memory r in which k waiters of queue q, or all, were taken off: v   *)
(* is then the queue each thread waits in.                                 *)
(***************************************************************************)
Drained(r, v, w, pri, ord, q, k) ==
    /\ Linked(r, v, pri, ord) /\ WaitTypes(v, pri)
    /\ \A t \in Threads : v[t] = w[t] \/ (w[t] = q /\ v[t] = Null)
    /\ Cardinality({t \in Threads : v[t] = q}) + k <= Cardinality(Threads)

\* The loop of os_waitq_wake_all empties the queue.
LEMMA Drains ==
    ASSUME NEW m, NEW w, NEW pri, NEW ord \in BOOLEAN, Linked(m, w, pri, ord),
           WaitTypes(w, pri), NEW q \in Queues
    PROVE  Linked(Taken(m, q, Cardinality(Threads))[Cardinality(Threads)],
                  [t \in Threads |-> IF w[t] = q THEN Null ELSE w[t]], pri, ord)
<1>1. PICK N : N = Cardinality(Threads)
  OBVIOUS
<1>2. IsFiniteSet(Threads) /\ N \in Nat
  <2>1. IsFiniteSet(Threads)
    BY WaitQueueAssumption, FS_Subset
  <2> QED BY <1>1, <2>1, FS_CardinalityType
<1>3. PICK h : h = Taken(m, q, N)
  OBVIOUS
<1>4. h[0] = m /\ \A k \in 1 .. N : h[k] = sys_dlist_get(h[k - 1], q)
  BY <1>2, <1>3, TakenIs
<1>5. \A v : /\ IsFiniteSet({t \in Threads : v[t] = q})
             /\ Cardinality({t \in Threads : v[t] = q}) \in Nat
             /\ Cardinality({t \in Threads : v[t] = q}) <= N
  <2> TAKE v
  <2>1. {t \in Threads : v[t] = q} \subseteq Threads
    OBVIOUS
  <2>2. /\ IsFiniteSet({t \in Threads : v[t] = q})
        /\ Cardinality({t \in Threads : v[t] = q}) <= N
    BY <1>1, <1>2, <2>1, FS_Subset
  <2> QED BY <2>2, FS_CardinalityType
<1>6. PICK P : P = {k \in 0 .. N : \E v : Drained(h[k], v, w, pri, ord, q, k)}
  OBVIOUS
<1>7. 0 \in P
  <2>1. Cardinality({t \in Threads : w[t] = q}) + 0 <= Cardinality(Threads)
    <3>1. /\ Cardinality({t \in Threads : w[t] = q}) \in Nat
          /\ Cardinality({t \in Threads : w[t] = q}) <= N
      BY <1>5
    <3> QED BY <1>1, <1>2, <3>1
  <2>2. Drained(h[0], w, w, pri, ord, q, 0)
    BY <1>4, <2>1 DEF Drained
  <2> QED BY <1>2, <1>6, <2>2
<1>8. ASSUME NEW k \in 1 .. N, k - 1 \in P PROVE k \in P
  <2>1. PICK v : Drained(h[k - 1], v, w, pri, ord, q, k - 1)
    BY <1>6, <1>8
  <2>2. PICK g : g = h[k - 1]
    OBVIOUS
  <2>3. /\ Linked(g, v, pri, ord) /\ WaitTypes(v, pri)
        /\ \A t \in Threads : v[t] = w[t] \/ (w[t] = q /\ v[t] = Null)
    BY <2>1, <2>2 DEF Drained
  <2>4. Cardinality({t \in Threads : v[t] = q}) + (k - 1) <= N
    BY <1>1, <2>1 DEF Drained
  <2>5. IF sys_dlist_is_empty(g, q)
        THEN sys_dlist_get(g, q) = g /\ \A t \in Threads : v[t] # q
        ELSE /\ g[q].next \in Threads /\ v[g[q].next] = q
             /\ Linked(sys_dlist_get(g, q), [v EXCEPT ![g[q].next] = Null], pri, ord)
    BY <2>3, Gets
  <2>6. h[k] = sys_dlist_get(g, q)
    BY <1>4, <2>2
  <2>7. CASE sys_dlist_is_empty(g, q)
    <3>1. {t \in Threads : v[t] = q} = {}
      BY <2>5, <2>7
    <3>2. Cardinality({t \in Threads : v[t] = q}) + k <= Cardinality(Threads)
      BY <1>1, <1>2, <3>1, FS_EmptySet
    <3>3. Drained(h[k], v, w, pri, ord, q, k)
      BY <2>3, <2>5, <2>6, <2>7, <3>2 DEF Drained
    <3> QED BY <1>6, <3>3
  <2>8. CASE ~sys_dlist_is_empty(g, q)
    <3>1. PICK u : u = g[q].next
      OBVIOUS
    <3>2. u \in Threads /\ v[u] = q /\ Linked(h[k], [v EXCEPT ![u] = Null], pri, ord)
      BY <2>5, <2>6, <2>8, <3>1
    <3>3. PICK x : x = [v EXCEPT ![u] = Null]
      OBVIOUS
    <3>4. q # Null
      BY WaitQueueAssumption
    <3>5. WaitTypes(x, pri) /\ x[u] = Null /\ \A t \in Threads : t # u => x[t] = v[t]
      BY <2>3, <3>2, <3>3 DEF WaitTypes
    <3>6. {t \in Threads : x[t] = q} = {t \in Threads : v[t] = q} \ {u}
      BY <3>2, <3>4, <3>5
    <3>7. Cardinality({t \in Threads : x[t] = q}) = Cardinality({t \in Threads : v[t] = q}) - 1
      <4>1. u \in {t \in Threads : v[t] = q}
        BY <3>2
      <4>2. IsFiniteSet({t \in Threads : v[t] = q})
        BY <1>5
      <4> QED BY <3>6, <4>1, <4>2, FS_RemoveElement
    <3>8. Cardinality({t \in Threads : x[t] = q}) + k <= Cardinality(Threads)
      <4>1. Cardinality({t \in Threads : v[t] = q}) \in Nat
        BY <1>5
      <4> QED BY <1>1, <1>2, <2>4, <3>7, <4>1
    <3>9. \A t \in Threads : x[t] = w[t] \/ (w[t] = q /\ x[t] = Null)
      BY <2>3, <3>2, <3>4, <3>5
    <3>10. Drained(h[k], x, w, pri, ord, q, k)
      BY <3>2, <3>3, <3>5, <3>8, <3>9 DEF Drained
    <3> QED BY <1>6, <3>10
  <2> QED BY <2>7, <2>8
<1>9. N \in P
  BY <1>2, <1>7, <1>8, InductionTo
<1>10. PICK v : Drained(h[N], v, w, pri, ord, q, N)
  BY <1>6, <1>9
<1>11. {t \in Threads : v[t] = q} = {}
  <2>1. Cardinality({t \in Threads : v[t] = q}) + N <= N
    BY <1>1, <1>10 DEF Drained
  <2>2. Cardinality({t \in Threads : v[t] = q}) = 0
    BY <1>2, <1>5, <2>1
  <2> QED BY <1>5, <2>2, FS_EmptySet
<1>12. v = [t \in Threads |-> IF w[t] = q THEN Null ELSE w[t]]
  BY <1>10, <1>11 DEF Drained, WaitTypes
<1>13. Linked(h[N], v, pri, ord)
  BY <1>10 DEF Drained
<1> QED BY <1>1, <1>3, <1>12, <1>13
-----------------------------------------------------------------------------
(* The wait queues under every step of the threads                         *)

\* A waiting thread is put back where its new priority belongs.
LEMMA Requeues ==
    ASSUME NEW m, NEW w, NEW pri, NEW ord \in BOOLEAN, Linked(m, w, pri, ord),
           WaitTypes(w, pri), NEW t \in Threads, w[t] # Null, NEW pri2,
           WaitTypes(w, pri2), \A u \in Threads : u # t => pri2[u] = pri[u]
    PROVE  Linked(os_waitq_insert_priority_locked(sys_dlist_remove(m, t), w[t], t, pri2),
                  w, pri2, ord)
<1>1. PICK r : r = sys_dlist_remove(m, t)
  OBVIOUS
<1>2. PICK v : v = [w EXCEPT ![t] = Null]
  OBVIOUS
<1>3. PICK q : q = w[t]
  OBVIOUS
<1>4. q \in Queues
  BY <1>3 DEF WaitTypes
<1>5. Linked(r, v, pri, ord)
  BY <1>1, <1>2, Leaves
<1>6. v[t] = Null /\ WaitTypes(v, pri2)
  BY <1>2 DEF WaitTypes
<1>7. ord => \A u \in Threads : v[u] # Null => pri2[u] = pri[u]
  BY <1>6
<1>8. Linked(r, v, pri2, ord)
  BY <1>5, <1>7, FreeToChange
<1>9. Linked(os_waitq_insert_priority_locked(r, q, t, pri2), [v EXCEPT ![t] = q], pri2, ord)
  BY <1>4, <1>6, <1>8, Joins
<1>10. [v EXCEPT ![t] = q] = w
  BY <1>2, <1>3 DEF WaitTypes
<1> QED BY <1>1, <1>3, <1>9, <1>10

(***************************************************************************)
(* The inductive invariant of the wait queues: until a linked node is      *)
(* zeroed, the pointers form a ring through the waiters of every queue.    *)
(* Whoever is on a queue is inside os_waitq_block or was deleted there,    *)
(* and if it is not disturbed has neither ended nor been aborted.          *)
(***************************************************************************)
InBlock ==
    \A t \in Threads : wait_q[t] # Null =>
        /\ pc[t] \in {"wait", "back", "none"}
        /\ t \notin disturbed => pc[t] # "none" /\ ~obj[t].completed

QInv == /\ WaitTypes(wait_q, priority) /\ InBlock
        /\ ~overwritten => Linked(mem, wait_q, priority, FreeRTOS)

LEMMA Bool == FreeRTOS \in BOOLEAN
BY DEF FreeRTOS

LEMMA LowestPriority == Min(Priorities) \in Nat
BY LeastNumber, WaitQueueAssumption

LEMMA InitQ == Init => QInv
<1> SUFFICES ASSUME Init PROVE QInv
  OBVIOUS
<1>1. /\ wait_q = [t \in Threads |-> Null]
      /\ priority = [t \in Threads |-> Min(Priorities)]
      /\ mem = [x \in Nodes |-> IF x \in Queues THEN [next |-> x, prev |-> x] ELSE Unlinked]
  BY DEF Init, WaitInit, Nodes, Unlinked
<1>2. WaitTypes(wait_q, priority) /\ InBlock
  BY <1>1, LowestPriority DEF WaitTypes, InBlock
<1>3. mem \in [Nodes -> Pointers] /\ \A t \in Threads : mem[t] = Unlinked
  BY <1>1, WaitQueueAssumption DEF Nodes, Pointers, Unlinked
<1>4. ASSUME NEW q \in Queues PROVE HasList(mem, q, wait_q, priority, FreeRTOS)
  <2>1. PICK c : c = [i \in 0 .. 1 |-> q]
    OBVIOUS
  <2>2. q \in Nodes /\ q # Null /\ mem[q].next = q /\ mem[q].prev = q
    BY <1>1, WaitQueueAssumption DEF Nodes
  <2>3. Ring(mem, q, 0, c)
    <3>1. 0 \in Nat /\ c \in [0 .. 0 + 1 -> Nodes] /\ c[0] = q /\ c[0 + 1] = q
      BY <2>1, <2>2
    <3>2. \A i \in 0 .. 0 : mem[c[i]].next = c[i + 1] /\ mem[c[i + 1]].prev = c[i]
      BY <2>1, <2>2
    <3>3. 1 .. 0 = {}
      OBVIOUS
    <3> QED BY <3>1, <3>2, <3>3 DEF Ring
  <2>4. Holds(q, 0, c, wait_q)
    BY <1>1, <2>2 DEF Holds
  <2>5. Sorted(0, c, priority)
    BY DEF Sorted
  <2> QED BY <2>3, <2>4, <2>5 DEF HasList, List
<1>5. Linked(mem, wait_q, priority, FreeRTOS)
  BY <1>3, <1>4 DEF Linked
<1> QED BY <1>2, <1>5 DEF QInv

\* A step that leaves the queues alone, and moves and ends no thread on one.
LEMMA QFrame ==
    ASSUME QInv, port' = port, mem' = mem, wait_q' = wait_q, priority' = priority,
           ~overwritten' => ~overwritten, InBlock'
    PROVE  QInv'
BY DEF QInv, FreeRTOS

\* A step that changes the priority of a thread t on no queue.
LEMMA QPriority ==
    ASSUME QInv, ~overwritten, port' = port, mem' = mem, wait_q' = wait_q, InBlock',
           NEW t \in Threads, wait_q[t] = Null, NEW p \in Nat,
           priority' = [priority EXCEPT ![t] = p]
    PROVE  QInv'
<1>1. FreeRTOS => \A u \in Threads : wait_q[u] # Null => priority'[u] = priority[u]
  BY DEF QInv, WaitTypes
<1>2. Linked(mem, wait_q, priority', FreeRTOS)
  BY <1>1, Bool, FreeToChange DEF QInv
<1>3. WaitTypes(wait_q, priority')
  BY DEF QInv, WaitTypes
<1> QED BY <1>2, <1>3 DEF QInv, FreeRTOS

\* A caller's step, or a step of a thread in application code or at its end.
LEMMA QCall ==
    ASSUME IInv, QInv, Upset, port' = port, mem' = mem, wait_q' = wait_q,
           priority' = priority, NEW a \in Actors, NEW to,
           \/ pc' = pc
           \/ pc[a] \notin {"wait", "back", "none"} /\ pc' = [pc EXCEPT ![a] = to],
           \A t \in Threads : wait_q[t] = Null \/ (obj'[t].completed => obj[t].completed)
    PROVE  QInv'
<1>1. InBlock'
  <2>1. \A t \in Threads : wait_q[t] # Null => pc'[t] = pc[t]
    BY DEF QInv, InBlock, IInv, Types, Actors
  <2>2. disturbed \subseteq disturbed'
    BY DEF Upset
  <2> QED BY <2>1, <2>2 DEF QInv, InBlock
<1> QED BY <1>1, QFrame DEF Upset

LEMMA QSimple ==
    ASSUME IInv, QInv, Upset, UNCHANGED port, NEW a \in Actors,
           \/ a \in Threads /\ (\/ os_task_entry_completed(a) \/ os_task_entry_give(a)
                                \/ os_task_entry_signal(a) \/ os_task_entry_late_give(a)
                                \/ os_task_entry_late_signal(a))
           \/ os_thread_join_take(a) \/ os_thread_join_expire(a) \/ os_thread_join_timeout(a)
           \/ os_thread_reap(a, "join_reap", "join_free") \/ os_thread_reap_end(a, "join_free")
           \/ os_thread_reap(a, "delete_reap", "delete_free")
           \/ os_thread_reap_end(a, "delete_free")
           \/ os_thread_abort_refused(a) \/ os_thread_abort_fail(a)
           \/ os_thread_abort_give(a) \/ os_thread_abort_signal(a)
           \/ \E t \in Threads : os_thread_join(a, t) \/ os_thread_delete(a, t)
                                   \/ os_thread_cancel(a, t)
    PROVE  QInv'
<1>1. mem' = mem /\ wait_q' = wait_q /\ priority' = priority
  BY DEF wvars, os_task_entry_completed, os_task_entry_give, os_task_entry_signal,
     os_task_entry_late_give, os_task_entry_late_signal,
     os_thread_join_take, os_thread_join_expire, os_thread_join_timeout, os_thread_reap,
     os_thread_reap_end, os_thread_abort_refused, os_thread_abort_fail, os_thread_abort_give,
     os_thread_abort_signal, os_thread_join, os_thread_delete, os_thread_cancel
<1>2. PICK to : \/ pc' = pc
                \/ pc[a] \notin {"wait", "back", "none"} /\ pc' = [pc EXCEPT ![a] = to]
  BY DEF Step, Return, Enter, Goto,
     os_task_entry_completed, os_task_entry_give, os_task_entry_signal,
     os_task_entry_late_give, os_task_entry_late_signal,
     os_thread_join_take, os_thread_join_expire, os_thread_join_timeout, os_thread_reap,
     os_thread_reap_end, os_thread_abort_refused, os_thread_abort_fail, os_thread_abort_give,
     os_thread_abort_signal, os_thread_join, os_thread_delete, os_thread_cancel
<1>3. \A t \in Threads : wait_q[t] = Null \/ (obj'[t].completed => obj[t].completed)
  <2>1. obj \in [Threads -> Objects]
    BY DEF IInv, Types
  <2>2. CASE a \in Threads /\ os_task_entry_completed(a)
    <3>1. wait_q[a] = Null
      BY <2>2 DEF os_task_entry_completed, Step, Goto, QInv, InBlock
    <3>2. \A t \in Threads \ {a} : obj'[t] = obj[t]
      BY <2>1, <2>2 DEF os_task_entry_completed, Set
    <3> QED BY <3>1, <3>2
  <2>3. CASE obj' = obj
    BY <2>3
  <2>4. CASE \E x : Reaped(x)
    BY <2>1, <2>4 DEF Reaped, Objects
  <2>5. CASE \E x : \/ Set(x, "completion_signaled", TRUE) \/ Set(x, "join_active", TRUE)
                    \/ Set(x, "join_active", FALSE) \/ Set(x, "cancel_requested", TRUE)
                    \/ Set(x, "completed", FALSE)
    BY <2>1, <2>5 DEF Set, Objects
  <2> QED BY <2>2, <2>3, <2>4, <2>5 DEF tvars, os_task_entry_give, os_task_entry_signal,
     os_task_entry_late_give, os_task_entry_late_signal,
     os_thread_join_take, os_thread_join_expire, os_thread_join_timeout, os_thread_reap,
     os_thread_reap_end, os_thread_abort_refused, os_thread_abort_fail, os_thread_abort_give,
     os_thread_abort_signal, os_thread_join, os_thread_delete, os_thread_cancel
<1> QED BY <1>1, <1>2, <1>3, QCall

(***************************************************************************)
(* A task goes.  A thread that is not disturbed is on no queue then.       *)
(***************************************************************************)
LEMMA QEnd ==
    ASSUME IInv, QInv, ~overwritten, Upset, UNCHANGED port, NEW a \in Actors,
           (a \in Threads /\ os_task_entry_delete(a)) \/ os_thread_abort_delete(a)
    PROVE  QInv'
<1>u. disturbed \subseteq disturbed' /\ overwritten' = overwritten
  BY DEF Upset
<1>1. CASE a \in Threads /\ os_task_entry_delete(a)
  <2>1. /\ pc[a] = "exit_delete" /\ pc' = [pc EXCEPT ![a] = "none"]
        /\ mem' = mem /\ obj' = obj /\ wait_q' = wait_q
        /\ wait_q[a] = Null => priority' = [priority EXCEPT ![a] = Min(Priorities)]
    BY <1>1 DEF os_task_entry_delete, Step, Goto, Gone
  <2>2. wait_q[a] = Null
    BY <1>1, <2>1 DEF QInv, InBlock
  <2>3. InBlock'
    BY <1>1, <1>u, <2>1, <2>2 DEF QInv, InBlock, IInv, Types, Actors
  <2> QED BY <1>1, <1>u, <2>1, <2>2, <2>3, LowestPriority, QPriority
<1>2. CASE os_thread_abort_delete(a)
  <2>1. PICK t : t = target[a]
    OBVIOUS
  <2>2. /\ pc[a] = "abort_delete" /\ pc' = [pc EXCEPT ![t] = "none", ![a] = "abort_give"]
        /\ mem' = mem /\ obj' = obj /\ wait_q' = wait_q
        /\ priority' = IF wait_q[t] # Null THEN priority
                       ELSE [priority EXCEPT ![t] = Min(Priorities)]
    BY <1>2, <2>1 DEF os_thread_abort_delete, Gone
  <2>3. t \in Threads
    BY <2>1, <2>2, WaitQueueAssumption DEF IInv, Types, AbortSteps
  <2>4. "abort_delete" \in Steps(t)
    BY <2>1, <2>2 DEF Steps, CallOn, LifeSteps, AbortSteps
  <2>5. wait_q[t] = Null \/ t \in disturbed
    <3> SUFFICES ASSUME t \notin disturbed PROVE wait_q[t] = Null
      OBVIOUS
    <3>1. Ending(obj[t], pc[t], Steps(t), t \in botched)
      BY <2>3 DEF IInv, AllSound, Sane, Sound
    <3>2. pc[t] \in Active => obj[t].completed
      BY <2>4, <3>1 DEF Ending
    <3>3. wait_q[t] # Null => pc[t] \in Active /\ ~obj[t].completed
      BY <2>3 DEF QInv, InBlock, Active
    <3> QED BY <3>2, <3>3
  <2>6. InBlock'
    <3>1. a \in Threads => wait_q[a] = Null
      BY <2>2 DEF QInv, InBlock
    <3>2. \A u \in Threads \ {a, t} : pc'[u] = pc[u]
      BY <2>2 DEF IInv, Types, Actors
    <3>3. t # a => pc'[t] = "none"
      BY <2>2, <2>3 DEF IInv, Types, Actors
    <3> QED BY <1>u, <2>2, <2>5, <3>1, <3>2, <3>3 DEF QInv, InBlock
  <2>7. CASE wait_q[t] = Null
    BY <1>u, <2>2, <2>3, <2>6, <2>7, LowestPriority, QPriority
  <2>8. CASE wait_q[t] # Null
    BY <1>u, <2>2, <2>6, <2>8, QFrame
  <2> QED BY <2>7, <2>8
<1> QED BY <1>1, <1>2

(***************************************************************************)
(* The wait_node of an object that is created anew is initialised, which   *)
(* writes nothing if it is on no queue.                                    *)
(***************************************************************************)
LEMMA QCreate ==
    ASSUME IInv, QInv, ~overwritten, UNCHANGED port, NEW a \in Actors, NEW t \in Threads,
           Create(a, t)
    PROVE  QInv'
<1>1. /\ mem' = sys_dnode_init(mem, t)
      /\ wait_q' = [wait_q EXCEPT ![t] = Null] /\ overwritten' = (wait_q[t] # Null)
      /\ pc' = [pc EXCEPT ![t] = "run"] \/ pc' = pc
      /\ \A u \in Threads : u # t => obj'[u] = obj[u]
      /\ disturbed \ {t} \subseteq disturbed'
      /\ \/ priority' = priority
         \/ \E p \in Priorities : priority' = [priority EXCEPT ![t] = p]
  <2>1. PICK h, s : Zero(t, h, s)
    BY DEF Create, os_thread_create, os_thread_create_fail
  <2>2. PICK o : obj' = [obj EXCEPT ![t] = o]
    BY <2>1 DEF Zero
  <2>3. \A u \in Threads : u # t => obj'[u] = obj[u]
    BY <2>2 DEF IInv, Types
  <2>4. /\ mem' = sys_dnode_init(mem, t) /\ wait_q' = [wait_q EXCEPT ![t] = Null]
        /\ overwritten' = (wait_q[t] # Null) /\ disturbed \ {t} \subseteq disturbed'
    BY <2>1 DEF Zero
  <2>5. /\ pc' = [pc EXCEPT ![t] = "run"] \/ pc' = pc
        /\ \/ priority' = priority
           \/ \E p \in Priorities : priority' = [priority EXCEPT ![t] = p]
    BY DEF Create, os_thread_create, os_thread_create_fail
  <2> QED BY <2>3, <2>4, <2>5
<1>2. InBlock'
  <2>1. \A u \in Threads : wait_q'[u] # Null => u # t /\ wait_q[u] # Null
    BY <1>1 DEF QInv, WaitTypes
  <2>2. \A u \in Threads : u # t => pc'[u] = pc[u]
    BY <1>1 DEF IInv, Types, Actors
  <2> QED BY <1>1, <2>1, <2>2 DEF QInv, InBlock
<1>3. \E p \in Nat : priority' = priority \/ priority' = [priority EXCEPT ![t] = p]
  BY <1>1, WaitQueueAssumption
<1>4. CASE wait_q[t] # Null
  <2>1. WaitTypes(wait_q', priority')
    BY <1>1, <1>3 DEF QInv, WaitTypes
  <2> QED BY <1>1, <1>2, <1>4, <2>1 DEF QInv
<1>5. CASE wait_q[t] = Null
  <2>1. mem' = mem
    <3>1. mem[t] = Unlinked /\ mem \in [Nodes -> Pointers] /\ t \in Nodes
      BY <1>5 DEF QInv, Linked, Nodes
    <3>2. [mem EXCEPT ![t] = Unlinked] = mem
      BY <3>1
    <3> QED BY <1>1, <3>2 DEF sys_dnode_init, Unlinked
  <2>2. wait_q' = wait_q
    BY <1>1, <1>5 DEF QInv, WaitTypes
  <2>3. CASE priority' = priority
    BY <1>2, <2>1, <2>2, <2>3, QFrame
  <2>4. ASSUME NEW p \in Nat, priority' = [priority EXCEPT ![t] = p] PROVE QInv'
    BY <1>2, <1>5, <2>1, <2>2, <2>4, QPriority
  <2> QED BY <1>3, <2>3, <2>4
<1> QED BY <1>4, <1>5

\* A thread that is or may be on a queue leaves it.
LEMMA QDequeue ==
    ASSUME IInv, QInv, ~overwritten, Upset, UNCHANGED port, priority' = priority,
           NEW t \in Threads, Dequeue(t),
           NEW a \in Actors, NEW to, pc' = [pc EXCEPT ![a] = to],
           a = t \/ pc[a] \notin {"wait", "back", "none"},
           \A u \in Threads : u = t \/ (obj'[u].completed => obj[u].completed)
    PROVE  QInv'
<1>1. wait_q' = [wait_q EXCEPT ![t] = Null]
      /\ mem' = IF wait_q[t] = Null THEN mem ELSE sys_dlist_remove(mem, t)
  BY DEF Dequeue
<1>2. WaitTypes(wait_q', priority)
  BY <1>1 DEF QInv, WaitTypes
<1>3. InBlock'
  <2>1. \A u \in Threads : wait_q'[u] # Null => u # t /\ wait_q[u] # Null
    BY <1>1 DEF QInv, WaitTypes
  <2>2. \A u \in Threads : wait_q'[u] # Null => u # a /\ pc'[u] = pc[u]
    BY <2>1 DEF QInv, InBlock, IInv, Types, Actors
  <2>3. disturbed \subseteq disturbed'
    BY DEF Upset
  <2> QED BY <2>1, <2>2, <2>3 DEF QInv, InBlock
<1>4. Linked(mem', wait_q', priority, FreeRTOS)
  <2>1. CASE wait_q[t] = Null
    <3>1. wait_q' = wait_q /\ mem' = mem
      BY <1>1, <2>1 DEF QInv, WaitTypes
    <3> QED BY <3>1 DEF QInv
  <2>2. CASE wait_q[t] # Null
    <3>1. Linked(sys_dlist_remove(mem, t), [wait_q EXCEPT ![t] = Null], priority, FreeRTOS)
      BY <2>2, Bool, Leaves DEF QInv
    <3> QED BY <1>1, <2>2, <3>1
  <2> QED BY <2>1, <2>2
<1> QED BY <1>2, <1>3, <1>4 DEF QInv, FreeRTOS

LEMMA QAbort ==
    ASSUME IInv, QInv, ~overwritten, Upset, UNCHANGED port, NEW a \in Actors,
           NEW t \in Threads, os_thread_abort(a, t)
    PROVE  QInv'
<1>1. /\ Dequeue(t) /\ priority' = priority /\ pc[a] = "run"
      /\ \A u \in Threads : u = t \/ (obj'[u].completed => obj[u].completed)
  BY DEF os_thread_abort, Step, Enter, Goto, IInv, Types
<1>2. PICK to : pc' = [pc EXCEPT ![a] = to]
  BY DEF os_thread_abort, Step, Enter, Goto
<1> QED BY <1>1, <1>2, QDequeue
-----------------------------------------------------------------------------
\* Blocking and returning.
LEMMA QBlock ==
    ASSUME IInv, QInv, ~overwritten, Upset, UNCHANGED port, UNCHANGED tvars,
           NEW t \in Threads,
           \/ WaitStep(t) \/ os_waitq_block_expired(t)
           \/ \E q \in Queues : os_waitq_block(t, q)
    PROVE  QInv'
<1>0. obj' = obj /\ t \in Actors /\ disturbed \subseteq disturbed' /\ overwritten' = overwritten
  BY DEF tvars, Actors, Upset
<1>1. CASE os_waitq_block_notified(t) \/ os_waitq_block_expired(t)
  <2>1. pc[t] = "wait" /\ pc' = [pc EXCEPT ![t] = "back"] /\ mem' = mem /\ wait_q' = wait_q
        /\ priority' = priority
    BY <1>1 DEF os_waitq_block_notified, os_waitq_block_expired, Goto
  <2>2. InBlock'
    BY <1>0, <2>1 DEF QInv, InBlock, IInv, Types
  <2> QED BY <1>0, <2>1, <2>2, QFrame
<1>2. CASE os_waitq_block_return(t)
  <2>1. pc' = [pc EXCEPT ![t] = "run"] /\ Dequeue(t) /\ priority' = priority
    BY <1>2 DEF os_waitq_block_return, Goto, Dequeue
  <2> QED BY <1>0, <2>1, QDequeue
<1>3. ASSUME NEW q \in Queues, os_waitq_block(t, q) PROVE QInv'
  <2>1. /\ pc[t] = "run" /\ pc' = [pc EXCEPT ![t] = "wait"] /\ priority' = priority
        /\ wait_q' = [wait_q EXCEPT ![t] = q]
        /\ mem' = os_waitq_insert_priority_locked(mem, q, t, priority)
    BY <1>3 DEF os_waitq_block, Goto
  <2>2. wait_q[t] = Null
    BY <2>1 DEF QInv, InBlock
  <2>3. t \notin disturbed' => ~obj[t].completed
    <3> SUFFICES ASSUME t \notin disturbed' PROVE ~obj[t].completed
      OBVIOUS
    <3>1. pc'[t] = "wait" /\ t \notin disturbed
      BY <1>0, <2>1 DEF IInv, Types
    <3>2. "abort_delete" \notin Steps(t) /\ "abort_fail" \notin Steps(t)
      BY <2>1, <3>1, MovesFreely
    <3>3. Ending(obj[t], pc[t], Steps(t), t \in botched)
      BY <3>1 DEF IInv, AllSound, Sane, Sound
    <3> QED BY <2>1, <3>2, <3>3 DEF Ending, Active
  <2>4. InBlock'
    BY <1>0, <2>1, <2>3 DEF QInv, InBlock, IInv, Types, WaitTypes, Actors
  <2>5. WaitTypes(wait_q', priority)
    BY <2>1 DEF QInv, WaitTypes
  <2>6. Linked(os_waitq_insert_priority_locked(mem, q, t, priority),
               [wait_q EXCEPT ![t] = q], priority, FreeRTOS)
    BY <2>2, Bool, Joins DEF QInv
  <2> QED BY <1>0, <2>1, <2>4, <2>5, <2>6 DEF QInv, FreeRTOS
<1> QED BY <1>1, <1>2, <1>3 DEF WaitStep

\* What ForEachNode and the pointers say of a queue.
LEMMA QueueFacts ==
    ASSUME QInv, ~overwritten, NEW q \in Queues
    PROVE  \E n, c : /\ List(mem, q, n, c, wait_q, priority, FreeRTOS)
                     /\ ForEachNode(mem, q) = [i \in 1 .. n |-> c[i]]
                     /\ ToSet(ForEachNode(mem, q)) = {t \in Threads : wait_q[t] = q}
<1>1. PICK n, c : List(mem, q, n, c, wait_q, priority, FreeRTOS)
  BY DEF QInv, Linked, HasList
<1>2. mem \in [Nodes -> Pointers] /\ Ring(mem, q, n, c) /\ Holds(q, n, c, wait_q)
  BY <1>1 DEF QInv, Linked, List
<1>3. ForEachNode(mem, q) = [i \in 1 .. n |-> c[i]]
  BY <1>2, Walked
<1>4. \A i \in 1 .. n : c[i] \in Threads
  BY <1>2 DEF Ring
<1>5. ToSet(ForEachNode(mem, q)) = {t \in Threads : wait_q[t] = q}
  BY <1>2, <1>3, <1>4 DEF ToSet, Holds
<1> QED BY <1>1, <1>3, <1>5

\* Waking.
LEMMA QWake ==
    ASSUME IInv, QInv, ~overwritten, Upset, UNCHANGED port, UNCHANGED tvars,
           NEW q \in Queues, NEW r,
           os_waitq_wake_one(q, r) \/ os_waitq_wake_all(q, r)
    PROVE  QInv'
<1>0. obj' = obj /\ disturbed \subseteq disturbed'
  BY DEF tvars, Upset
<1>1. ASSUME NEW woken, Wake(woken, r), Linked(mem', wait_q', priority, FreeRTOS) PROVE QInv'
  <2>1. wait_q' = [t \in Threads |-> IF t \in woken THEN Null ELSE wait_q[t]]
        /\ priority' = priority /\ pc' = pc
    BY <1>1 DEF Wake
  <2>2. WaitTypes(wait_q', priority) /\ InBlock'
    BY <1>0, <2>1 DEF QInv, WaitTypes, InBlock
  <2> QED BY <1>1, <2>1, <2>2 DEF QInv, FreeRTOS
<1>2. CASE os_waitq_wake_one(q, r)
  <2>1. PICK u : u = mem[q].next
    OBVIOUS
  <2>2. ~sys_dlist_is_empty(mem, q) /\ mem' = sys_dlist_get(mem, q) /\ Wake({u}, r)
    BY <1>2, <2>1 DEF os_waitq_wake_one, sys_dlist_peek_head
  <2>3. /\ u \in Threads
        /\ Linked(sys_dlist_get(mem, q), [wait_q EXCEPT ![u] = Null], priority, FreeRTOS)
    <3>1. Linked(mem, wait_q, priority, FreeRTOS) /\ WaitTypes(wait_q, priority)
      BY DEF QInv
    <3>2. IF sys_dlist_is_empty(mem, q)
          THEN sys_dlist_get(mem, q) = mem /\ \A t \in Threads : wait_q[t] # q
          ELSE /\ mem[q].next \in Threads /\ wait_q[mem[q].next] = q
               /\ Linked(sys_dlist_get(mem, q), [wait_q EXCEPT ![mem[q].next] = Null],
                         priority, FreeRTOS)
      BY <3>1, Bool, Gets
    <3> QED BY <2>1, <2>2, <3>2
  <2>4. wait_q' = [wait_q EXCEPT ![u] = Null]
    BY <2>2, <2>3 DEF Wake, QInv, WaitTypes
  <2> QED BY <1>1, <2>2, <2>3, <2>4
<1>3. CASE os_waitq_wake_all(q, r)
  <2>1. PICK W : W = ToSet(ForEachNode(mem, q))
    OBVIOUS
  <2>2. mem' = Taken(mem, q, Cardinality(Threads))[Cardinality(Threads)] /\ Wake(W, r)
    BY <1>3, <2>1 DEF os_waitq_wake_all, Taken
  <2>3. W = {t \in Threads : wait_q[t] = q}
    BY <2>1, QueueFacts
  <2>4. wait_q' = [t \in Threads |-> IF wait_q[t] = q THEN Null ELSE wait_q[t]]
    BY <2>2, <2>3 DEF Wake
  <2>5. Linked(Taken(mem, q, Cardinality(Threads))[Cardinality(Threads)],
               [t \in Threads |-> IF wait_q[t] = q THEN Null ELSE wait_q[t]],
               priority, FreeRTOS)
    BY Bool, Drains DEF QInv
  <2> QED BY <1>1, <2>2, <2>4, <2>5
<1> QED BY <1>2, <1>3

\* Changing priorities.
LEMMA QSetPriority ==
    ASSUME IInv, QInv, ~overwritten, Upset, UNCHANGED port, UNCHANGED tvars, NEW a \in Actors,
           \/ os_thread_set_priority_reorder(a)
           \/ \E t \in Threads, p \in Priorities : os_thread_set_priority(a, t, p)
    PROVE  QInv'
<1>0. obj' = obj /\ wait_q' = wait_q /\ disturbed \subseteq disturbed'
  BY DEF tvars, Upset, os_thread_set_priority_reorder, os_thread_set_priority
<1>1. InBlock'
  <2>1. pc[a] \in {"run", "reorder"} /\ \A b \in Actors : b # a => pc'[b] = pc[b]
    BY DEF os_thread_set_priority_reorder, os_thread_set_priority, Goto, IInv, Types
  <2>2. \A t \in Threads : wait_q[t] # Null => t # a /\ pc'[t] = pc[t]
    BY <2>1 DEF QInv, InBlock, Actors
  <2> QED BY <1>0, <2>2 DEF QInv, InBlock
<1>2. ASSUME NEW t \in Threads, Reorder(t), WaitTypes(wait_q, priority'),
             \A u \in Threads : u # t => priority'[u] = priority[u]
      PROVE  QInv'
  <2>1. CASE wait_q[t] = Null
    <3>1. mem' = mem
      BY <1>2, <2>1 DEF Reorder
    <3>2. FreeRTOS => \A u \in Threads : wait_q[u] # Null => priority'[u] = priority[u]
      BY <1>2, <2>1
    <3>3. Linked(mem, wait_q, priority', FreeRTOS)
      BY <3>2, Bool, FreeToChange DEF QInv
    <3> QED BY <1>0, <1>1, <1>2, <3>1, <3>3 DEF QInv, FreeRTOS
  <2>2. CASE wait_q[t] # Null
    <3>1. mem' = os_waitq_insert_priority_locked(sys_dlist_remove(mem, t), wait_q[t], t,
                                                 priority')
      BY <1>2, <2>2 DEF Reorder
    <3>2. Linked(mem, wait_q, priority, FreeRTOS) /\ WaitTypes(wait_q, priority)
      BY DEF QInv
    <3>3. Linked(os_waitq_insert_priority_locked(sys_dlist_remove(mem, t), wait_q[t], t,
                                                 priority'), wait_q, priority', FreeRTOS)
      BY <1>2, <2>2, <3>2, Bool, Requeues
    <3> QED BY <1>0, <1>1, <1>2, <3>1, <3>3 DEF QInv, FreeRTOS
  <2> QED BY <2>1, <2>2
<1>3. CASE os_thread_set_priority_reorder(a)
  <2>1. PICK t : t = target[a]
    OBVIOUS
  <2>2. pc[a] = "reorder" /\ priority' = priority /\ Reorder(t)
    BY <1>3, <2>1 DEF os_thread_set_priority_reorder, Goto
  <2>3. t \in Threads
    BY <2>1, <2>2 DEF IInv, Types
  <2>4. WaitTypes(wait_q, priority')
    BY <2>2 DEF QInv
  <2> QED BY <1>2, <2>2, <2>3, <2>4
<1>4. ASSUME NEW t \in Threads, NEW p \in Priorities, os_thread_set_priority(a, t, p)
      PROVE  QInv'
  <2>1. priority' = [priority EXCEPT ![t] = p]
    BY <1>4 DEF os_thread_set_priority
  <2>2. WaitTypes(wait_q, priority') /\ \A u \in Threads : u # t => priority'[u] = priority[u]
    BY <2>1, WaitQueueAssumption DEF QInv, WaitTypes
  <2>3. CASE FreeRTOS
    <3>1. Reorder(t)
      BY <1>4, <2>3 DEF os_thread_set_priority
    <3> QED BY <1>2, <2>2, <3>1
  <2>4. CASE ~FreeRTOS
    <3>1. mem' = mem
      BY <1>4, <2>4 DEF os_thread_set_priority
    <3>2. FreeRTOS => \A u \in Threads : wait_q[u] # Null => priority'[u] = priority[u]
      BY <2>4
    <3>3. Linked(mem, wait_q, priority', FreeRTOS)
      BY <3>2, Bool, FreeToChange DEF QInv
    <3> QED BY <1>0, <1>1, <2>2, <3>1, <3>3 DEF QInv, FreeRTOS
  <2> QED BY <2>3, <2>4
<1> QED BY <1>3, <1>4

\* Every step preserves the shape of the queues.
LEMMA NextQ == IInv /\ QInv /\ [Next]_vars => QInv'
<1> SUFFICES ASSUME IInv, QInv, [Next]_vars PROVE QInv'
  OBVIOUS
<1>1. CASE ~overwritten /\ WaitQueueNext /\ Upset
  <2>1. UNCHANGED port /\ UNCHANGED tvars
    BY <1>1 DEF WaitQueueNext, WaitNext
  <2>2. \/ WaitNext
        \/ \E a \in Actors, t \in Threads, p \in Priorities : os_thread_set_priority(a, t, p)
    BY <1>1 DEF WaitQueueNext
  <2>3. CASE WaitNext
    <3>1. ASSUME NEW t \in Threads, \/ WaitStep(t) \/ os_waitq_block_expired(t)
                                    \/ \E q \in Queues : os_waitq_block(t, q)
          PROVE  QInv'
      BY <1>1, <2>1, <3>1, QBlock
    <3>2. ASSUME NEW q \in Queues, NEW r \in Reasons,
                 os_waitq_wake_one(q, r) \/ os_waitq_wake_all(q, r)
          PROVE  QInv'
      BY <1>1, <2>1, <3>2, QWake
    <3>3. ASSUME NEW a \in Actors, os_thread_set_priority_reorder(a) PROVE QInv'
      BY <1>1, <2>1, <3>3, QSetPriority
    <3> QED BY <2>3, <3>1, <3>2, <3>3 DEF WaitNext
  <2> QED BY <1>1, <2>1, <2>2, <2>3, QSetPriority
<1>2. ASSUME ~overwritten, UNCHANGED port, NEW a \in Actors, \E t \in Threads : Create(a, t)
      PROVE  QInv'
  BY <1>2, QCreate
<1>3. ASSUME ~overwritten, UNCHANGED port, NEW a \in Actors, Call(a), Upset PROVE QInv'
  BY <1>3, QSimple, QAbort DEF Call
<1>4. ASSUME ~overwritten, UNCHANGED port, NEW a \in Actors, Continue(a), Upset PROVE QInv'
  BY <1>4, QSimple, QEnd DEF Continue
<1>5. ASSUME UNCHANGED port, NEW a \in Actors, Upset,
             \/ os_thread_join_expire(a) \/ os_thread_abort_refused(a)
             \/ a \in Threads /\ os_task_entry_completed(a)
      PROVE  QInv'
  BY <1>5, QSimple
<1>6. CASE UNCHANGED vars
  <2>1. /\ port' = port /\ mem' = mem /\ wait_q' = wait_q /\ priority' = priority
        /\ pc' = pc /\ obj' = obj /\ disturbed' = disturbed /\ overwritten' = overwritten
    BY <1>6 DEF vars, wvars, tvars
  <2> QED BY <2>1 DEF QInv, InBlock, FreeRTOS
<1> QED BY <1>1, <1>2, <1>3, <1>4, <1>5, <1>6 DEF Next

\* What the invariant says of the queues.
LEMMA QInvImplies == QInv /\ ~overwritten => WaitQueuesAreSound /\ WaitQueuesAreOrdered
<1> SUFFICES ASSUME QInv, ~overwritten PROVE WaitQueuesAreSound /\ WaitQueuesAreOrdered
  OBVIOUS
<1>1. ASSUME NEW q \in Queues, NEW s, s = ForEachNode(mem, q)
      PROVE  /\ ToSet(s) = {t \in Threads : wait_q[t] = q} /\ IsInjective(s)
             /\ \A x \in ToSet(s) \cup {q} : mem[mem[x].next].prev = x
             /\ FreeRTOS => \A i, j \in DOMAIN s : i < j => priority[s[i]] >= priority[s[j]]
  <2>1. PICK n, c : /\ List(mem, q, n, c, wait_q, priority, FreeRTOS)
                    /\ s = [i \in 1 .. n |-> c[i]]
                    /\ ToSet(s) = {t \in Threads : wait_q[t] = q}
    BY <1>1, QueueFacts
  <2>2. Ring(mem, q, n, c)
    BY <2>1 DEF List
  <2>3. IsInjective(s)
    BY <2>1, <2>2 DEF IsInjective, Ring
  <2>4. ASSUME NEW x \in ToSet(s) \cup {q} PROVE mem[mem[x].next].prev = x
    <3>1. PICK i \in 0 .. n : x = c[i]
      <4>1. n \in Nat /\ c[0] = q
        BY <2>2 DEF Ring
      <4>2. x = c[0] \/ \E i \in 1 .. n : x = c[i]
        BY <2>1, <2>4, <4>1 DEF ToSet
      <4> QED BY <4>1, <4>2
    <3> QED BY <2>2, <3>1 DEF Ring
  <2>5. FreeRTOS => \A i, j \in DOMAIN s : i < j => priority[s[i]] >= priority[s[j]]
    BY <2>1 DEF List, Sorted
  <2> QED BY <2>1, <2>3, <2>4, <2>5
<1>2. ASSUME NEW t \in Threads PROVE wait_q[t] = Null <=> mem[t].next = Null
  <2>1. CASE wait_q[t] = Null
    BY <2>1 DEF QInv, Linked, Unlinked
  <2>2. CASE wait_q[t] # Null
    <3>1. PICK q \in Queues : wait_q[t] = q
      BY <2>2 DEF QInv, WaitTypes
    <3>2. PICK n, c : List(mem, q, n, c, wait_q, priority, FreeRTOS)
      BY QueueFacts
    <3>3. PICK i \in 1 .. n : c[i] = t
      BY <3>1, <3>2 DEF List, Holds
    <3>4. mem[t].next = c[i + 1] /\ c[i + 1] \in Nodes
      BY <3>2, <3>3 DEF List, Ring
    <3> QED BY <2>2, <3>4, WaitQueueAssumption DEF Nodes
  <2> QED BY <2>1, <2>2
<1> QED BY <1>1, <1>2 DEF WaitQueuesAreSound, WaitQueuesAreOrdered

\* And of the threads on them.
LEMMA RingsImplied == QInv => RingsAreSound /\ RingsAreOrdered
BY QInvImplies DEF QInv, InBlock, RingsAreSound, RingsAreOrdered

LEMMA QInvariance == Spec => []QInv
BY Invariance, InitQ, NextQ, PTL DEF Spec
-----------------------------------------------------------------------------
(***************************************************************************)
(* The theorems.  They except the threads that are disturbed, see module   *)
(* Thread: a target of an abort that ran on before its task was deleted, a *)
(* thread whose caller was aborted inside the call, an object created anew *)
(* before everybody had left its earlier life.  What the code does to      *)
(* those is section 4 of the README.                                       *)
(***************************************************************************)

\* os_waitq_block: whatever wakes, timeouts, priority changes and aborts do to
\* the queue, a sleeping thread that left it has a notification coming.
THEOREM NoLostWakeup == Spec => []NobodySleepsThrough
BY Invariance, PTL DEF IInv

\* os_thread_reap does not destroy the completion semaphore of a thread that
\* is not disturbed under the task or aborter about to give it or the join
\* about to take it.
THEOREM SemaphoreOutlivesUse == Spec => []SemaphoreIsAlive
BY Invariance, IInvImplies, PTL

\* os_thread_join and os_thread_delete return 0 for a thread that is not
\* disturbed only when it has left application code for good.
THEOREM JoinedHasTerminated == Spec => []ReapedIsTerminated
BY Invariance, IInvImplies, PTL

\* Once completion_signaled is set, neither the task nor an aborter writes to
\* the object of a thread that is not disturbed, which is what os_thread_delete
\* relies on.
THEOREM DeleteIsQuiet == Spec => []DeletedIsUntouched
BY Invariance, IInvImplies, PTL

\* A thread that has ended and is not disturbed keeps its completion token, or
\* is claimed by a join or delete in progress, until it is reaped.
THEOREM EndedStaysReapable == Spec => []EndedIsReapable
BY Invariance, IInvImplies, PTL

\* waitq.c and os_thread_abort: whatever wakes, timeouts, aborts and priority
\* changes link and unlink, the pointers of a wait queue form one ring through
\* exactly the threads that wait in it, until a linked node is zeroed; and only
\* a thread that was disturbed is ever left on a queue when its task is gone.
THEOREM QueuesAreRings == Spec => []RingsAreSound
BY QInvariance, RingsImplied, PTL

\* On FreeRTOS, os_waitq_wake_one wakes a waiter of the highest current
\* priority, until a linked node is zeroed.
THEOREM QueuesAreSorted == Spec => []RingsAreOrdered
BY QInvariance, RingsImplied, PTL
=============================================================================
