------------------------------- MODULE Signal -------------------------------
(***************************************************************************)
(* os_signal (src/common/signal.c): one pending result, announced through  *)
(* a binary semaphore.  os_signal_wait takes the token first and reads the *)
(* result in a critical section later; raises, resets and other waits run  *)
(* in between.                                                             *)
(***************************************************************************)
EXTENDS Integers

CONSTANTS Threads, Results,
          Ops,   \* calls the threads make, out of "raise", "wait", "reset"
          Zero,  \* the result 0 left behind by init and reset
          Empty

ASSUME ZeroAssumption == Zero # Empty /\ Empty \notin Results

VARIABLES initialized, raised, result, \* fields of struct os_signal
          notification,   \* tokens of its binary semaphore
          place,          \* "idle", "take" or "read": where a thread is in wait
          got,            \* what a thread's last successful wait returned
          torn            \* a reset has fallen between the two steps of a wait

svars == <<initialized, raised, result, notification, place, got>>
signal_vars == <<svars, torn>>

Goto(t, from, to) == place[t] = from /\ place' = [place EXCEPT ![t] = to]

\* Fails with -EBUSY, changing nothing, while a result is pending.
os_signal_raise(t, r) ==
    /\ place[t] = "idle" /\ "raise" \in Ops /\ initialized
    /\ ~raised
    /\ result' = r /\ raised' = TRUE /\ notification' = 1
    /\ UNCHANGED <<initialized, place, got>>

os_signal_wait_call(t) ==
    /\ "wait" \in Ops /\ initialized
    /\ Goto(t, "idle", "take")
    /\ UNCHANGED <<initialized, raised, result, notification, got>>

os_signal_wait_take(t) ==
    /\ Goto(t, "take", "read")
    /\ notification > 0 /\ notification' = notification - 1
    /\ UNCHANGED <<initialized, raised, result, got>>

os_signal_wait_timeout(t) ==
    /\ Goto(t, "take", "idle")
    /\ notification = 0
    /\ UNCHANGED <<initialized, raised, result, notification, got>>

\* fault: the result stays pending
read_keeps_raised(t) ==
    /\ Goto(t, "read", "idle")
    /\ got' = [got EXCEPT ![t] = result]
    /\ UNCHANGED <<initialized, raised, result, notification>>

os_signal_wait_read(t) ==
    /\ Goto(t, "read", "idle")
    /\ got' = [got EXCEPT ![t] = result]
    /\ raised' = FALSE
    /\ UNCHANGED <<initialized, result, notification>>

\* fault: the token goes, the flag stays
reset_token_only(t) ==
    /\ place[t] = "idle" /\ "reset" \in Ops /\ initialized
    /\ notification' = 0
    /\ UNCHANGED <<initialized, raised, result, place, got>>

\* Takes the token back and clears the result inside one critical section.
os_signal_reset(t) ==
    /\ place[t] = "idle" /\ "reset" \in Ops /\ initialized
    /\ notification' = 0 /\ raised' = FALSE /\ result' = Zero
    /\ UNCHANGED <<initialized, place, got>>

os_signal_init ==
    /\ ~initialized /\ initialized' = TRUE
    /\ raised' = FALSE /\ result' = Zero /\ notification' = 0
    /\ UNCHANGED <<place, got>>

\* "Deinitialization requires that no thread is waiting" (README.md).
os_signal_deinit ==
    /\ initialized /\ \A t \in Threads : place[t] = "idle"
    /\ initialized' = FALSE
    /\ raised' = FALSE /\ result' = Zero /\ notification' = 0
    /\ UNCHANGED <<place, got>>

SignalInit ==
    /\ initialized = FALSE
    /\ raised = FALSE /\ result = Zero /\ notification = 0
    /\ place = [t \in Threads |-> "idle"]
    /\ got = [t \in Threads |-> Empty]
    /\ torn = FALSE

Step(t) == \/ \E r \in Results : os_signal_raise(t, r)
           \/ os_signal_wait_call(t) \/ os_signal_wait_take(t)
           \/ os_signal_wait_timeout(t) \/ os_signal_wait_read(t)

SignalNext ==
    \/ /\ os_signal_init \/ os_signal_deinit \/ \E t \in Threads : Step(t)
       /\ UNCHANGED torn
    \/ /\ \E t \in Threads : os_signal_reset(t)
       /\ torn' = (torn \/ \E t \in Threads : place[t] = "read")

SignalSpec == SignalInit /\ [][SignalNext]_signal_vars
-----------------------------------------------------------------------------
\* Types; the semaphore holds at most one token.
SignalTypeOK ==
    /\ initialized \in BOOLEAN
    /\ raised \in BOOLEAN
    /\ result \in Results \cup {Zero}
    /\ notification \in {0, 1}
    /\ place \in [Threads -> {"idle", "take", "read"}]
    /\ got \in [Threads -> Results \cup {Zero, Empty}]
    /\ torn \in BOOLEAN

(***************************************************************************)
(* A raised signal is never stranded: its token is in the semaphore, or a  *)
(* waiter holds the token and is about to clear the flag.  Otherwise every *)
(* later raise would fail with -EBUSY and no wait would ever return.       *)
(***************************************************************************)
RaisedIsDeliverable ==
    raised => notification = 1 \/ \E t \in Threads : place[t] = "read"

Mailbox == INSTANCE SignalMailbox
               WITH mailbox <- IF raised THEN result ELSE Empty

(***************************************************************************)
(* The signal is a one-place mailbox, until a reset tears a wait: every    *)
(* wait that succeeds returns the pending result, once.                    *)
(***************************************************************************)
ActsAsMailbox == Mailbox!Init /\ [][torn' \/ Mailbox!Next \/ UNCHANGED Mailbox!vars]_signal_vars

(***************************************************************************)
(* The same for resets at any time.                                        *)
(* The code departs from it: section 4 of the README.                      *)
(***************************************************************************)
ImplementsMailbox == Mailbox!Spec
=============================================================================
