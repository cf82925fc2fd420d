--------------------------- MODULE MessageChannel ---------------------------
(***************************************************************************)
(* What an os_msgq promises its callers: a bounded first-in first-out      *)
(* channel.  A put that succeeds appends its message in one step, a get    *)
(* that succeeds removes the oldest message and hands exactly that one to  *)
(* its caller, and the channel never holds more than its capacity.         *)
(***************************************************************************)
EXTENDS Naturals, Sequences

CONSTANTS Threads,   \* threads and interrupt handlers using the queue
          Messages,  \* message contents
          Capacity,  \* number of messages the queue can hold
          NoMessage  \* "nothing received yet"

VARIABLES chan,      \* the queued messages, oldest first
          received   \* the message each thread got last

vars == <<chan, received>>

Init == /\ chan = <<>>
        /\ received = [t \in Threads |-> NoMessage]

\* A successful put.
Send == /\ Len(chan) < Capacity
        /\ \E m \in Messages : chan' = Append(chan, m)
        /\ UNCHANGED received

\* A successful get: the oldest message, and no other, reaches the caller.
Receive(t) == /\ chan # <<>>
              /\ received' = [received EXCEPT ![t] = Head(chan)]
              /\ chan' = Tail(chan)

\* Deinitialization throws away what is still queued.
Discard == /\ chan' = <<>>
           /\ UNCHANGED received

Next == Send \/ (\E t \in Threads : Receive(t)) \/ Discard

Spec == Init /\ [][Next]_vars
=============================================================================
