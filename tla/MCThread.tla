------------------------------ MODULE MCThread ------------------------------
(***************************************************************************)
(* Instance of Thread for TLC, with these bounds.  As long as one thread   *)
(* is disturbed no other becomes so, and the only calls that begin are     *)
(* those of one step and joins, deletions and creations of that thread;    *)
(* what was reaped is created anew only when nobody is left inside an      *)
(* operation on it, or when its node is linked.  No priority changes on    *)
(* RT-Thread, where no property is about the order of the queues.          *)
(***************************************************************************)
EXTENDS Thread

Calm == \A a \in Actors, t \in Threads :
           /\ target'[a] # target[a] =>
                 /\ target'[a] \in disturbed \cup {Null}
                 /\ pc'[a] \in JoinSteps \cup {"run", "none"}
           /\ pc'[a] = "abort_fail" => pc[a] = "abort_fail"
           /\ obj[t].completion_reaped /\ ~obj'[t].completion_reaped =>
                 t \in disturbed /\ (Idle(t) \/ wait_q[t] # Null)

MCNext == /\ Next
          /\ Cardinality(disturbed') <= 1
          /\ disturbed # {} => Calm
          /\ FreeRTOS \/ UNCHANGED priority

MCSpec == Init /\ [][MCNext]_vars /\ Fairness

\* The state without cancel_requested, which the application alone reads.
MCView == <<port, wvars, priority, pc, target, completion, late, botched, disturbed,
            overwritten, [t \in Threads |-> [obj[t] EXCEPT !.cancel_requested = FALSE]]>>
=============================================================================
