------------------------------- MODULE Uptime -------------------------------
(***************************************************************************)
(* os_uptime_get of the FreeRTOS and the RT-Thread port and the            *)
(* conversions between ticks and milliseconds (src/osal_freertos/time.c,   *)
(* src/osal_rtthread/time.c).  The kernel counts ticks modulo TickMod; the *)
(* port extends the count with an epoch that it advances when a tick is    *)
(* smaller than the one before.  Reading the tick and using it are two     *)
(* steps of a call, between which other callers and interrupts run.        *)
(***************************************************************************)
EXTENDS Integers

CONSTANTS Tasks,     \* callers of os_uptime_get outside interrupts
          Ports,     \* out of "freertos", "rtthread"
          Overlap,   \* the ports on which calls of several tasks overlap
          Rates,     \* ticks per second
          TickMod,   \* 2^32
          Width,     \* 2^64
          Forever,   \* OS_WAIT_FOREVER
          Thousand,  \* milliseconds in a second
          MaxTime    \* bound on the ticks that pass

ASSUME UptimeAssumption ==
    /\ Ports \subseteq {"freertos", "rtthread"} /\ Overlap \subseteq Ports
    /\ Rates \subseteq Nat \ {0}
    /\ TickMod \in Nat \ {0} /\ Width \in Nat \ {0} /\ Thousand \in Nat \ {0}
    /\ Forever \in Nat \ {0} /\ MaxTime \in 0 .. Width - 1
    /\ Forever * Thousand <= Width  \* any timeout fits into 64 bits, in ms
    /\ \A r \in Rates : MaxTime * Thousand < Width * r  \* so does the uptime

VARIABLES port, rate,      \* of the build
          time,            \* ticks since the start, not reduced
          epoch, previous, \* statics: (cached_)epoch and cached_tick or previous
          pc, read,        \* a call in progress, and the time at which it read the tick
          uptime, asked    \* the last result, in ms, and the time at which it was read

vars == <<port, rate, time, epoch, previous, pc, read, uptime, asked>>

FreeRTOS == port = "freertos"
tick == time % TickMod
-----------------------------------------------------------------------------
(* Conversions                                                             *)

\* fault: rounds down
ms_to_ticks_floor(ms) ==
    LET ticks == (ms * rate) \div Thousand
    IN  IF ticks > Forever - 1 THEN Forever - 1 ELSE ticks

os_ms_to_ticks_ceil(ms) ==
    LET max   == Forever - 1
        whole == ms \div Thousand
        ticks == whole * rate + ((ms % Thousand) * rate + Thousand - 1) \div Thousand
    IN  IF whole > max \div rate \/ ticks > max THEN max ELSE ticks

\* fault: multiplies before it divides, in 64 bits
ticks_to_ms_overflow(ticks) == ((ticks * Thousand) % Width) \div rate

os_ticks_to_ms(ticks) ==
    LET whole == ticks \div rate
    IN  IF whole > (Width - 1) \div Thousand THEN Width - 1
        ELSE (whole * Thousand + ((ticks % rate) * Thousand) \div rate) % Width

\* The cast to a signed 32-bit number; RT-Thread waits for ever if it is negative.
os_to_rt_timeout(ticks) ==
    IF ticks >= (Forever + 1) \div 2 THEN ticks - (Forever + 1) ELSE ticks
-----------------------------------------------------------------------------
(* os_uptime_get                                                           *)

\* The tick is read, on FreeRTOS together with the kernel's overflow count.
os_uptime_get_read(a) ==
    /\ pc[a] = "idle"
    /\ port \in Overlap \/ \A b \in Tasks : pc[b] = "idle"
    /\ pc' = [pc EXCEPT ![a] = "read"]
    /\ read' = [read EXCEPT ![a] = time]
    /\ UNCHANGED <<port, rate, time, epoch, previous, uptime, asked>>

\* fault: a repeated tick counts as a wrap
extends_equal(current) == IF current <= previous THEN epoch + TickMod ELSE epoch

\* The epoch after a tick that may have wrapped since the previous one.
Extended(current) == IF current < previous THEN epoch + TickMod ELSE epoch

\* The critical section and the conversion.
os_uptime_get(a) ==
    LET current == read[a] % TickMod
        base    == IF FreeRTOS THEN read[a] - current ELSE Extended(current)
    IN  /\ pc[a] = "read"
        /\ pc' = [pc EXCEPT ![a] = "idle"]
        /\ read' = [read EXCEPT ![a] = 0]
        /\ epoch' = base /\ previous' = current
        /\ uptime' = os_ticks_to_ms((base + current) % Width) /\ asked' = read[a]
        /\ UNCHANGED <<port, rate, time>>

\* In an interrupt of FreeRTOS the tick does not advance during the call.
os_uptime_get_isr ==
    /\ FreeRTOS
    /\ epoch' = Extended(tick) /\ previous' = tick
    /\ uptime' = os_ticks_to_ms((epoch' + tick) % Width) /\ asked' = time
    /\ UNCHANGED <<port, rate, time, pc, read>>

\* The kernel's tick interrupt.  Uptime is asked for, and a call that has read
\* the tick goes on, before the tick has come round once.
Tick ==
    /\ time < MaxTime
    /\ time + 1 - (epoch + previous) < TickMod
    /\ \A a \in Tasks : pc[a] = "read" => time + 1 - read[a] < TickMod
    /\ time' = time + 1
    /\ UNCHANGED <<port, rate, epoch, previous, pc, read, uptime, asked>>

Init == /\ port \in Ports /\ rate \in Rates
        /\ time = 0 /\ epoch = 0 /\ previous = 0
        /\ pc = [a \in Tasks |-> "idle"] /\ read = [a \in Tasks |-> 0]
        /\ uptime = 0 /\ asked = 0

Next == \/ \E a \in Tasks : os_uptime_get_read(a) \/ os_uptime_get(a)
        \/ os_uptime_get_isr
        \/ Tick

Spec == Init /\ [][Next]_vars
-----------------------------------------------------------------------------
\* Types; the stored tick is reduced, the stored epoch a multiple of the range.
TypeOK == /\ port \in Ports /\ rate \in Rates /\ time \in 0 .. MaxTime
          /\ epoch \in {TickMod * k : k \in 0 .. MaxTime} /\ previous \in 0 .. TickMod - 1
          /\ pc \in [Tasks -> {"idle", "read"}] /\ read \in [Tasks -> 0 .. MaxTime]
          /\ uptime \in 0 .. Width - 1 /\ asked \in 0 .. MaxTime

(***************************************************************************)
(* os_uptime_get returns the milliseconds of the true time at the moment   *)
(* of the call at which it read the tick, across wraps of the tick and     *)
(* with tasks and interrupts that overtake one another; results of calls   *)
(* that follow one another therefore never go back.  (On RT-Thread only    *)
(* calls that do not overlap: section 4 of the README.)                    *)
(***************************************************************************)
UptimeIsExact == /\ uptime * rate <= asked * Thousand
                 /\ asked * Thousand < (uptime + 1) * rate

(***************************************************************************)
(* A number of milliseconds becomes the least number of ticks that lasts   *)
(* as long, and never OS_WAIT_FOREVER; converted back, it is not shorter.  *)
(***************************************************************************)
DelaysAreLongEnough ==
    \A ms \in 0 .. Width - 1 :
        LET n == os_ms_to_ticks_ceil(ms)
        IN  /\ n \in 0 .. Forever - 1
            /\ (n - 1) * Thousand < ms * rate
            /\ n < Forever - 1 => n * Thousand >= ms * rate /\ os_ticks_to_ms(n) >= ms

(***************************************************************************)
(* A number of ticks becomes the milliseconds rounded down, and the        *)
(* largest value if they do not fit, without overflow on the way.  (Except *)
(* in the last, incomplete second: section 4 of the README.)               *)
(***************************************************************************)
TicksAreConverted ==
    \A ticks \in 0 .. Width - 1 :
        LET n == os_ticks_to_ms(ticks)
        IN  IF ticks * Thousand < Width * rate
            THEN n * rate <= ticks * Thousand /\ ticks * Thousand < (n + 1) * rate
            ELSE n = Width - 1 \/ ticks \div rate = (Width - 1) \div Thousand

(***************************************************************************)
(* The same without the exception, as kernel.h has it.                     *)
(* The code departs from it: section 4 of the README.                      *)
(***************************************************************************)
ConversionSaturates ==
    \A ticks \in 0 .. Width - 1 :
        ticks * Thousand >= Width * rate => os_ticks_to_ms(ticks) = Width - 1

(***************************************************************************)
(* On RT-Thread every timeout but OS_WAIT_FOREVER expires.                 *)
(* The code departs from it: section 4 of the README.                      *)
(***************************************************************************)
FiniteTimeoutsExpire ==
    \A ms \in 0 .. Width - 1 : os_to_rt_timeout(os_ms_to_ticks_ceil(ms)) >= 0
=============================================================================
