--------------------------- MODULE SignalMailbox ----------------------------
(***************************************************************************)
(* What an os_signal promises: a place for one result.  A raise that       *)
(* succeeds fills it, a wait that succeeds empties it and returns exactly  *)
(* what was in it, a reset empties it.                                     *)
(***************************************************************************)
CONSTANTS Threads,  \* threads and interrupt handlers using the signal
          Results,  \* results passed to raise
          Empty     \* no result

VARIABLES mailbox,  \* the pending result, or Empty
          got       \* the result each thread's last successful wait returned

vars == <<mailbox, got>>

Init == mailbox = Empty /\ got = [t \in Threads |-> Empty]

Raise == /\ mailbox = Empty
         /\ mailbox' \in Results
         /\ UNCHANGED got

Wait(t) == /\ mailbox # Empty
           /\ got' = [got EXCEPT ![t] = mailbox]
           /\ mailbox' = Empty

Reset == /\ mailbox' = Empty
         /\ UNCHANGED got

Next == Raise \/ Reset \/ \E t \in Threads : Wait(t)

Spec == Init /\ [][Next]_vars
=============================================================================
