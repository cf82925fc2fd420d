-------------------------------- MODULE Event -------------------------------
(***************************************************************************)
(* os_event on its three ports (osal_freertos/event.c,                     *)
(* osal_rtthread/event.c, zephyr/event.c).  Each call checks its arguments *)
(* and makes one call of a native event group, which is atomic except that *)
(* a wait may sleep in it; a set, a clear or the timer runs between the    *)
(* moment a wait is over and the moment the thread goes on.                *)
(***************************************************************************)
EXTENDS Integers, FiniteSets

CONSTANTS Threads,
          Ports,     \* out of "freertos", "rtthread", "zephyr"
          Bits,      \* the bits of a native event group
          Mask,      \* OS_EVENT_BITS_MASK: those the port lets an application use
          Clearing,  \* the ports on which applications wait with clear
          None

ASSUME MaskAssumption == Mask \subseteq Bits

VARIABLES port,         \* the port the system was built for
          initialized,  \* the object can be used
          bits,         \* the bits that are set
          pc,           \* a thread's place in os_event_wait
          call,         \* the arguments of a thread's call, or None
          native,       \* what the native wait has returned: [ok, bits]
          ret           \* what a thread's last wait returned, or None

evars == <<initialized, bits, pc, call, native, ret>>
vars  == <<port, evars>>

Arguments == [requested : SUBSET Bits, wait_all : BOOLEAN, clear : BOOLEAN,
              timeout : {"zero", "ticks", "forever"}]

\* What the three ports accept: bits == 0 is refused by set and wait.
Valid(b) == initialized /\ b \subseteq Mask

Unsatisfied == [ok |-> FALSE, bits |-> {}]

Returns == [error : {"none", "EBUSY", "ETIMEDOUT"}, received : SUBSET Mask]

ASSUME NoneAssumption == /\ None \notin Arguments /\ None \notin Returns
                         /\ \A b \in SUBSET Bits : b # None
-----------------------------------------------------------------------------
\* The test of the native event groups (RT_EVENT_FLAG_AND, RT_EVENT_FLAG_OR,
\* xWaitForAllBits, k_event_wait_all).
Satisfied(s, c) == IF c.wait_all THEN c.requested \subseteq s
                                 ELSE c.requested \cap s # {}

\* Native waits with clear: FreeRTOS and RT-Thread clear the requested bits
\* when the wait is satisfied.  Zephyr clears every bit before it waits, and
\* nothing afterwards.
ClearsAfter(t)  == call[t].clear /\ port # "zephyr"
BeforeWait(t) == IF call[t].clear /\ port = "zephyr" THEN {} ELSE bits

\* What a satisfied wait reports: FreeRTOS the whole group, the others the
\* requested part of it.
Report(s, t) ==
    [ok |-> TRUE,
     bits |-> IF port = "freertos" THEN s ELSE s \cap call[t].requested]

\* The waits W, all satisfied by the bits s, are over.
Satisfy(W, s) ==
    /\ bits' = s \ UNION {call[t].requested : t \in {u \in W : ClearsAfter(u)}}
    /\ pc' = [t \in Threads |-> IF t \in W THEN "returned" ELSE pc[t]]
    /\ native' = [t \in Threads |-> IF t \in W THEN Report(s, t) ELSE native[t]]

\* The bits become s and every sleeper they satisfy is released.
SetBits(s) ==
    Satisfy({t \in Threads : pc[t] = "asleep" /\ Satisfied(s, call[t])}, s)

\* The native wait goes to sleep, or is over at once.
Wait(t) ==
    LET s == BeforeWait(t)
    IN  /\ pc[t] = "native"
        /\ \/ Satisfied(s, call[t]) /\ Satisfy({t}, s)
           \/ /\ ~Satisfied(s, call[t]) /\ bits' = s
              /\ pc' = [pc EXCEPT ![t] = IF call[t].timeout = "zero"
                                         THEN "returned" ELSE "asleep"]
              /\ native' = [native EXCEPT ![t] =
                     IF port = "freertos" THEN [ok |-> FALSE, bits |-> s]
                                          ELSE Unsatisfied]
        /\ UNCHANGED <<initialized, call, ret>>

\* The timer takes the sleeper out of the group; it has not run yet.
Expire(t) ==
    /\ pc[t] = "asleep" /\ call[t].timeout = "ticks"
    /\ pc' = [pc EXCEPT ![t] = "expired"]
    /\ UNCHANGED <<initialized, bits, call, native, ret>>

\* A thread that timed out goes on: FreeRTOS looks at the bits once more.
Expired(t) ==
    /\ pc[t] = "expired"
    /\ \/ port = "freertos" /\ Satisfied(bits, call[t]) /\ Satisfy({t}, bits)
       \/ /\ ~(port = "freertos" /\ Satisfied(bits, call[t]))
          /\ pc' = [pc EXCEPT ![t] = "returned"]
          /\ native' = [native EXCEPT ![t] =
                 IF port = "freertos" THEN [ok |-> FALSE, bits |-> bits]
                                      ELSE Unsatisfied]
          /\ UNCHANGED bits
    /\ UNCHANGED <<initialized, call, ret>>
-----------------------------------------------------------------------------
os_event_init ==
    /\ ~initialized /\ initialized' = TRUE /\ bits' = {}
    /\ UNCHANGED <<pc, call, native, ret>>

\* "Deinitialization requires that no thread is waiting" (README.md); only
\* RT-Thread looks, and refuses.
os_event_deinit ==
    /\ initialized /\ \A t \in Threads : pc[t] = "idle"
    /\ initialized' = FALSE /\ bits' = {}
    /\ UNCHANGED <<pc, call, native, ret>>

\* fault: the bits are written as os_event_clear of RT-Thread writes them
set_without_wakeup(b) ==
    /\ Valid(b) /\ b # {}
    /\ bits' = bits \cup b
    /\ UNCHANGED <<initialized, pc, call, native, ret>>

os_event_set(b) ==
    /\ Valid(b) /\ b # {}
    /\ SetBits(bits \cup b)
    /\ UNCHANGED <<initialized, call, ret>>

os_event_clear(b) ==
    /\ Valid(b)
    /\ bits' = bits \ b
    /\ UNCHANGED <<initialized, pc, call, native, ret>>

os_event_wait(t) ==
    /\ pc[t] = "idle"
    /\ \E c \in Arguments : /\ Valid(c.requested) /\ c.requested # {}
                            /\ c.clear => port \in Clearing
                            /\ call' = [call EXCEPT ![t] = c]
    /\ pc' = [pc EXCEPT ![t] = "native"]
    /\ ret' = [ret EXCEPT ![t] = None]
    /\ UNCHANGED <<initialized, bits, native>>

\* FreeRTOS and Zephyr look at the bits they got; RT-Thread has a status.
received(t) == native[t].bits \cap call[t].requested

\* fault: one bit is enough for a wait for all of them
matched_any(t) == received(t) # {}

matched(t) == IF call[t].wait_all THEN received(t) = call[t].requested
                                  ELSE received(t) # {}
status(t) == native[t].ok

os_event_wait_return(t) ==
    /\ pc[t] = "returned"
    /\ ret' = [ret EXCEPT ![t] =
           [error |-> IF (port = "rtthread" /\ status(t)) \/ (port # "rtthread" /\ matched(t))
                      THEN "none"
                      ELSE IF call[t].timeout = "zero" THEN "EBUSY" ELSE "ETIMEDOUT",
            received |-> received(t)]]
    /\ pc' = [pc EXCEPT ![t] = "idle"]
    /\ call' = [call EXCEPT ![t] = None]
    /\ native' = [native EXCEPT ![t] = Unsatisfied]
    /\ UNCHANGED <<initialized, bits>>
-----------------------------------------------------------------------------
Init == /\ port \in Ports
        /\ initialized = FALSE /\ bits = {}
        /\ pc = [t \in Threads |-> "idle"]
        /\ call = [t \in Threads |-> None]
        /\ native = [t \in Threads |-> Unsatisfied]
        /\ ret = [t \in Threads |-> None]

Step(t) == \/ os_event_wait(t) \/ Wait(t) \/ Expire(t) \/ Expired(t)
           \/ os_event_wait_return(t)

Next == /\ \/ os_event_init \/ os_event_deinit
           \/ \E b \in SUBSET Bits : os_event_set(b) \/ os_event_clear(b)
           \/ \E t \in Threads : Step(t)
        /\ UNCHANGED port

Spec == Init /\ [][Next]_vars
-----------------------------------------------------------------------------
(***************************************************************************)
(* Types.  No bit outside the mask is ever set: FreeRTOS keeps its control *)
(* flags there.                                                            *)
(***************************************************************************)
TypeOK == /\ port \in Ports
          /\ initialized \in BOOLEAN
          /\ bits \subseteq Mask
          /\ pc \in [Threads -> {"idle", "native", "asleep", "expired", "returned"}]
          /\ call \in [Threads -> Arguments \cup {None}]
          /\ native \in [Threads -> [ok : BOOLEAN, bits : SUBSET Mask]]
          /\ ret \in [Threads -> Returns \cup {None}]

(***************************************************************************)
(* No lost wake-up: nobody sleeps in os_event_wait while the bits it waits *)
(* for are set, whoever set them and whatever other waits cleared.         *)
(***************************************************************************)
NobodySleepsOnSetBits ==
    \A t \in Threads : pc[t] = "asleep" => ~Satisfied(bits, call[t])

Group == INSTANCE EventGroup WITH
    Requests <- {c \in Arguments : c.requested \subseteq Mask},
    want <- call,
    got  <- [t \in Threads |->
                IF pc[t] = "returned" /\ native[t].ok THEN received(t) ELSE None],
    ret  <- [t \in Threads |->
                IF ret[t] # None /\ ret[t].error # "none"
                THEN [ret[t] EXCEPT !.received = {}] ELSE ret[t]]

(***************************************************************************)
(* The code is the event group kernel.h describes: a wait that succeeds    *)
(* returns the requested bits that were set at one moment of the call and  *)
(* takes exactly those, a timeout that races with a set loses no bit, and  *)
(* a wait without a limit succeeds.                                        *)
(***************************************************************************)
ImplementsEventGroup == Group!Spec
=============================================================================
