----------------------------- MODULE EventGroup -----------------------------
(***************************************************************************)
(* What an os_event promises (kernel.h): a set of bits.  A wait is served  *)
(* at one moment of its call, in which any or all of its bits are set; it  *)
(* returns exactly its bits that were set then and, if it asked for it,    *)
(* takes them away.  Waits served at the same moment share the bits.       *)
(* Nothing else takes a bit away, a wait without a limit does not fail,    *)
(* and only one that may not block fails with -EBUSY.                      *)
(***************************************************************************)
CONSTANTS Threads, Requests, None

VARIABLES bits,   \* the bits that are set
          want,   \* the request a thread waits with, or None
          got,    \* what a thread has been served, or None
          ret     \* what a thread's last wait returned, or None

vars == <<bits, want, got, ret>>

Satisfied(s, r) == IF r.wait_all THEN r.requested \subseteq s
                                 ELSE r.requested \cap s # {}

Init == /\ bits = {}
        /\ want = [t \in Threads |-> None]
        /\ got = [t \in Threads |-> None]
        /\ ret = [t \in Threads |-> None]

Wait(t) == /\ want[t] = None
           /\ \E r \in Requests : want' = [want EXCEPT ![t] = r]
           /\ ret' = [ret EXCEPT ![t] = None]
           /\ UNCHANGED <<bits, got>>

\* The bits b are set (or none are) and the waits W are served.
Serve(b, W) ==
    LET now == bits \cup b
        cleared == {t \in W : want[t].clear}
    IN  /\ \A t \in W : /\ want[t] # None /\ got[t] = None
                        /\ Satisfied(now, want[t])
        /\ got' = [t \in Threads |->
                      IF t \in W THEN want[t].requested \cap now ELSE got[t]]
        /\ bits' = now \ UNION {want[t].requested : t \in cleared}
        /\ UNCHANGED <<want, ret>>

Return(t) ==
    /\ want[t] # None
    /\ \/ /\ got[t] # None
          /\ ret' = [ret EXCEPT ![t] = [error |-> "none", received |-> got[t]]]
       \/ /\ got[t] = None /\ want[t].timeout # "forever"
          /\ ret' = [ret EXCEPT ![t] =
                 [error |-> IF want[t].timeout = "zero" THEN "EBUSY" ELSE "ETIMEDOUT",
                  received |-> {}]]
    /\ want' = [want EXCEPT ![t] = None]
    /\ got' = [got EXCEPT ![t] = None]
    /\ UNCHANGED bits

Clear(b) == bits' = bits \ b /\ UNCHANGED <<want, got, ret>>

Masks == SUBSET UNION {r.requested : r \in Requests}

Next == \/ \E t \in Threads : Wait(t) \/ Return(t)
        \/ \E b \in Masks, W \in SUBSET Threads : Serve(b, W)
        \/ \E b \in Masks : Clear(b)

Spec == Init /\ [][Next]_vars
=============================================================================
