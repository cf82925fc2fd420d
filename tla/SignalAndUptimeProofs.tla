----------------------- MODULE SignalAndUptimeProofs ------------------------
(***************************************************************************)
(* Proofs about two modules that share nothing.  The first part is about   *)
(* os_signal, for any number of threads and any results; the second about  *)
(* os_uptime_get and the conversions, for any tick range, integer widths,  *)
(* rates and number of tasks.                                              *)
(***************************************************************************)
EXTENDS Signal, Uptime, TLAPS

-----------------------------------------------------------------------------
(* os_signal                                                               *)

\* A signal that is not initialized is empty and nobody is inside a wait.
IdleWhenDown ==
    ~initialized => ~raised /\ notification = 0 /\ \A t \in Threads : place[t] = "idle"

\* Only a raise sets the flag, so a raised result is one that was passed in.
RaisedHasResult == raised => result \in Results

(***************************************************************************)
(* Until a reset tears a wait, the token and the thread that has taken it  *)
(* stand for the same pending result: there is at most one of them, and    *)
(* none without a raise.                                                   *)
(***************************************************************************)
OneHandle ==
    ~torn => /\ notification = 1 => raised
             /\ \A t \in Threads : place[t] = "read" => raised /\ notification = 0
             /\ \A t, u \in Threads : place[t] = "read" /\ place[u] = "read" => t = u

\* The inductive invariant.
SignalInv == SignalTypeOK /\ RaisedIsDeliverable /\ IdleWhenDown /\ RaisedHasResult /\ OneHandle

\* The cleared control block satisfies the inductive invariant.
LEMMA SignalInitInv == SignalInit => SignalInv
<1> SUFFICES ASSUME SignalInit PROVE SignalInv
  OBVIOUS
<1>1. initialized \in BOOLEAN /\ raised \in BOOLEAN /\ torn \in BOOLEAN
  BY Zenon DEF SignalInit
<1>2. SignalTypeOK
  BY <1>1 DEF SignalInit, SignalTypeOK
<1>3. RaisedIsDeliverable /\ IdleWhenDown /\ RaisedHasResult /\ OneHandle
  BY DEF SignalInit, RaisedIsDeliverable, IdleWhenDown, RaisedHasResult, OneHandle
<1> QED BY <1>2, <1>3 DEF SignalInv

\* Every call of the signal, and every half of a wait, preserves the
\* inductive invariant.
LEMMA SignalNextInv == SignalInv /\ [SignalNext]_signal_vars => SignalInv'
<1> SUFFICES ASSUME SignalInv, [SignalNext]_signal_vars PROVE SignalInv'
  OBVIOUS
<1> USE DEF SignalInv
<1>1. CASE os_signal_init /\ UNCHANGED torn
  <2>1. initialized' \in BOOLEAN /\ raised' \in BOOLEAN /\ torn' \in BOOLEAN
    BY <1>1, Zenon DEF os_signal_init, SignalTypeOK
  <2>2. SignalTypeOK'
    BY <1>1, <2>1 DEF os_signal_init, SignalTypeOK
  <2>3. RaisedIsDeliverable' /\ IdleWhenDown' /\ RaisedHasResult' /\ OneHandle'
    BY <1>1 DEF os_signal_init, RaisedIsDeliverable, IdleWhenDown, RaisedHasResult, OneHandle
  <2> QED BY <2>2, <2>3
<1>2. CASE os_signal_deinit /\ UNCHANGED torn
  <2>1. initialized' \in BOOLEAN /\ raised' \in BOOLEAN /\ torn' \in BOOLEAN
    BY <1>2, Zenon DEF os_signal_deinit, SignalTypeOK
  <2>2. SignalTypeOK'
    BY <1>2, <2>1 DEF os_signal_deinit, SignalTypeOK
  <2>3. RaisedIsDeliverable' /\ IdleWhenDown' /\ RaisedHasResult' /\ OneHandle'
    BY <1>2 DEF os_signal_deinit, RaisedIsDeliverable, IdleWhenDown, RaisedHasResult, OneHandle
  <2> QED BY <2>2, <2>3
<1>3. ASSUME NEW t \in Threads, NEW r \in Results, os_signal_raise(t, r), UNCHANGED torn
      PROVE  SignalInv'
  <2>1. initialized' \in BOOLEAN /\ raised' \in BOOLEAN /\ torn' \in BOOLEAN
    BY <1>3, Zenon DEF os_signal_raise, SignalTypeOK
  <2>2. SignalTypeOK'
    BY <1>3, <2>1 DEF os_signal_raise, SignalTypeOK
  <2>3. RaisedIsDeliverable' /\ IdleWhenDown' /\ RaisedHasResult'
    BY <1>3 DEF os_signal_raise, RaisedIsDeliverable, IdleWhenDown, RaisedHasResult
  <2>4. OneHandle'
    BY <1>3 DEF os_signal_raise, OneHandle
  <2> QED BY <2>2, <2>3, <2>4
<1>4. ASSUME NEW t \in Threads, os_signal_wait_call(t), UNCHANGED torn
      PROVE  SignalInv'
  <2>1. SignalTypeOK'
    BY <1>4 DEF os_signal_wait_call, Goto, SignalTypeOK
  <2>2. RaisedIsDeliverable'
    BY <1>4 DEF os_signal_wait_call, Goto, RaisedIsDeliverable, SignalTypeOK
  <2>3. IdleWhenDown' /\ RaisedHasResult'
    BY <1>4 DEF os_signal_wait_call, IdleWhenDown, RaisedHasResult
  <2>4. OneHandle'
    BY <1>4 DEF os_signal_wait_call, Goto, OneHandle, SignalTypeOK
  <2> QED BY <2>1, <2>2, <2>3, <2>4
<1>5. ASSUME NEW t \in Threads, os_signal_wait_take(t), UNCHANGED torn
      PROVE  SignalInv'
  <2>1. SignalTypeOK' /\ notification = 1 /\ notification' = 0 /\ place'[t] = "read"
    BY <1>5 DEF os_signal_wait_take, Goto, SignalTypeOK
  <2>2. RaisedIsDeliverable'
    BY <2>1 DEF RaisedIsDeliverable
  <2>3. IdleWhenDown' /\ RaisedHasResult'
    BY <1>5, <2>1 DEF os_signal_wait_take, IdleWhenDown, RaisedHasResult
  <2>4. OneHandle'
    BY <1>5, <2>1 DEF os_signal_wait_take, Goto, OneHandle, SignalTypeOK
  <2> QED BY <2>1, <2>2, <2>3, <2>4
<1>6. ASSUME NEW t \in Threads, os_signal_wait_timeout(t), UNCHANGED torn
      PROVE  SignalInv'
  <2>1. SignalTypeOK'
    BY <1>6 DEF os_signal_wait_timeout, Goto, SignalTypeOK
  <2>2. RaisedIsDeliverable'
    BY <1>6 DEF os_signal_wait_timeout, Goto, RaisedIsDeliverable, SignalTypeOK
  <2>3. IdleWhenDown' /\ RaisedHasResult'
    BY <1>6 DEF os_signal_wait_timeout, Goto, IdleWhenDown, RaisedHasResult
  <2>4. OneHandle'
    BY <1>6 DEF os_signal_wait_timeout, Goto, OneHandle, SignalTypeOK
  <2> QED BY <2>1, <2>2, <2>3, <2>4
<1>7. ASSUME NEW t \in Threads, os_signal_wait_read(t), UNCHANGED torn
      PROVE  SignalInv'
  <2>1. initialized' \in BOOLEAN /\ raised' \in BOOLEAN /\ torn' \in BOOLEAN
    BY <1>7, Zenon DEF os_signal_wait_read, SignalTypeOK
  <2>2. SignalTypeOK'
    BY <1>7, <2>1 DEF os_signal_wait_read, Goto, SignalTypeOK
  <2>3. RaisedIsDeliverable' /\ RaisedHasResult'
    BY <1>7 DEF os_signal_wait_read, RaisedIsDeliverable, RaisedHasResult
  <2>4. IdleWhenDown'
    BY <1>7 DEF os_signal_wait_read, Goto, IdleWhenDown
  <2>5. OneHandle'
    BY <1>7 DEF os_signal_wait_read, Goto, OneHandle, SignalTypeOK
  <2> QED BY <2>2, <2>3, <2>4, <2>5
<1>8. ASSUME NEW t \in Threads, os_signal_reset(t),
             torn' = (torn \/ \E u \in Threads : place[u] = "read")
      PROVE  SignalInv'
  <2>1. initialized' \in BOOLEAN /\ raised' \in BOOLEAN /\ torn' \in BOOLEAN
    BY <1>8, Zenon DEF os_signal_reset, SignalTypeOK
  <2>2. SignalTypeOK'
    BY <1>8, <2>1 DEF os_signal_reset, SignalTypeOK
  <2>3. RaisedIsDeliverable' /\ IdleWhenDown' /\ RaisedHasResult'
    BY <1>8 DEF os_signal_reset, RaisedIsDeliverable, IdleWhenDown, RaisedHasResult
  <2>4. ~torn' => \A u \in Threads : place[u] # "read"
    BY <1>8, Zenon
  <2>5. OneHandle'
    BY <1>8, <2>4 DEF os_signal_reset, OneHandle
  <2> QED BY <2>2, <2>3, <2>5
<1>9. CASE UNCHANGED signal_vars
  BY <1>9 DEF signal_vars, svars, SignalTypeOK, RaisedIsDeliverable, IdleWhenDown,
              RaisedHasResult, OneHandle
<1> QED BY <1>1, <1>2, <1>3, <1>4, <1>5, <1>6, <1>7, <1>8, <1>9 DEF SignalNext, Step

\* The inductive invariant holds in every reachable state.
LEMMA SignalInvariance == SignalSpec => []SignalInv
BY SignalInitInv, SignalNextInv, PTL DEF SignalSpec

\* Types: the fields of struct os_signal keep their types, and the semaphore
\* never holds more than its one token.
THEOREM SignalTypeCorrect == SignalSpec => []SignalTypeOK
BY SignalInvariance, PTL DEF SignalInv

\* os_signal_raise never leaves a result that no wait can fetch: whatever
\* raises, resets and waits interleave, a raised signal has its token or a
\* thread that has just taken it.
THEOREM NeverStranded == SignalSpec => []RaisedIsDeliverable
BY SignalInvariance, PTL DEF SignalInv
-----------------------------------------------------------------------------
\* A step of the signal is a step of the mailbox, unless some reset has torn
\* a wait.
LEMMA MailboxStep ==
    SignalInv /\ [SignalNext]_signal_vars =>
        [torn' \/ Mailbox!Next \/ UNCHANGED Mailbox!vars]_signal_vars
<1> SUFFICES ASSUME SignalInv, SignalNext, ~torn'
             PROVE  Mailbox!Next \/ UNCHANGED Mailbox!vars
  OBVIOUS
<1> USE ZeroAssumption DEF SignalInv, Mailbox!Next, Mailbox!vars
<1>0. ~torn /\ (raised => result # Empty)
  <2>1. ~torn
    BY Zenon DEF SignalNext
  <2>2. raised => result # Empty
    BY DEF RaisedHasResult
  <2> QED BY <2>1, <2>2
<1>1. CASE os_signal_init
  BY <1>1 DEF os_signal_init, IdleWhenDown
<1>2. CASE os_signal_deinit
  BY <1>2 DEF os_signal_deinit, Mailbox!Reset
<1>3. ASSUME NEW t \in Threads, NEW r \in Results, os_signal_raise(t, r)
      PROVE  Mailbox!Raise
  BY <1>3 DEF os_signal_raise, Mailbox!Raise
<1>4. ASSUME NEW t \in Threads,
             os_signal_wait_call(t) \/ os_signal_wait_take(t) \/ os_signal_wait_timeout(t)
      PROVE  UNCHANGED Mailbox!vars
  BY <1>4 DEF os_signal_wait_call, os_signal_wait_take, os_signal_wait_timeout
<1>5. ASSUME NEW t \in Threads, os_signal_wait_read(t)
      PROVE  Mailbox!Wait(t)
  <2>1. raised /\ ~raised' /\ got' = [got EXCEPT ![t] = result]
    BY <1>0, <1>5 DEF os_signal_wait_read, Goto, OneHandle
  <2> QED BY <1>0, <2>1 DEF Mailbox!Wait
<1>6. ASSUME NEW t \in Threads, os_signal_reset(t)
      PROVE  Mailbox!Reset
  BY <1>6 DEF os_signal_reset, Mailbox!Reset
<1> QED BY <1>1, <1>2, <1>3, <1>4, <1>5, <1>6 DEF SignalNext, Step

\* Refinement: as long as no reset falls between the two halves of a wait,
\* every successful os_signal_wait returns the pending result and consumes it,
\* and a result is overwritten by nobody.
THEOREM IsMailbox == SignalSpec => ActsAsMailbox
<1>1. SignalInit => Mailbox!Init
  BY DEF SignalInit, Mailbox!Init
<1> QED BY <1>1, MailboxStep, SignalInvariance, PTL DEF SignalSpec, ActsAsMailbox
-----------------------------------------------------------------------------
(* os_uptime_get and the conversions                                       *)

(***************************************************************************)
(* The stored epoch and tick are a true time, less than one round of the   *)
(* tick ago.                                                               *)
(***************************************************************************)
StoredIsRecent == epoch + previous <= time /\ time - (epoch + previous) < TickMod

(***************************************************************************)
(* So is the tick that a call in progress has read.  On RT-Thread, which   *)
(* extends it from the stored one, it is not older than that, and no other *)
(* call is in progress.                                                    *)
(***************************************************************************)
ReadIsRecent ==
    /\ \A a \in Tasks : pc[a] = "read" => read[a] <= time /\ time - read[a] < TickMod
    /\ ~FreeRTOS => /\ \A a \in Tasks : pc[a] = "read" => epoch + previous <= read[a]
                    /\ \A a, b \in Tasks : pc[a] = "read" /\ pc[b] = "read" => a = b

\* The inductive invariant.
IInv == TypeOK /\ StoredIsRecent /\ ReadIsRecent /\ UptimeIsExact
-----------------------------------------------------------------------------
\* Quotient and remainder.
LEMMA DivMod ==
    ASSUME NEW a \in Nat, NEW b \in Nat \ {0}
    PROVE  /\ a \div b \in Nat /\ a % b \in Nat /\ a % b < b
           /\ a = b * (a \div b) + (a % b)
OBVIOUS

\* Multiplication is monotonic, and can be cancelled.
LEMMA Monotonic ==
    ASSUME NEW a \in Int, NEW b \in Int, NEW c \in Nat \ {0}
    PROVE  /\ a <= b => a * c <= b * c
           /\ a < b => a * c < b * c
           /\ a * c < b * c => a < b
OBVIOUS

\* A quotient is the largest number whose multiple fits.
LEMMA Quotient ==
    ASSUME NEW a \in Nat, NEW b \in Nat \ {0}, NEW c \in Nat
    PROVE  /\ c * b <= a => c <= a \div b
           /\ c <= a \div b => c * b <= a
<1>1. a \div b \in Nat /\ a % b \in Nat /\ a % b < b /\ a = b * (a \div b) + (a % b)
  BY DivMod
<1>2. PICK q \in Nat, r \in Nat : q = a \div b /\ r = a % b
  BY <1>1
<1>3. a = b * q + r /\ r < b
  BY <1>1, <1>2
<1>4. c * b <= a => c <= q
  BY <1>3
<1>5. c <= q => c * b <= a
  BY <1>3
<1> QED BY <1>2, <1>4, <1>5

(***************************************************************************)
(* Splitting a number into whole units and a rest before scaling it gives  *)
(* the same as scaling it and dividing once, rounded down.                 *)
(***************************************************************************)
LEMMA ScaleDown ==
    ASSUME NEW t \in Nat, NEW r \in Nat \ {0}, NEW k \in Nat \ {0}
    PROVE  LET n == (t \div r) * k + ((t % r) * k) \div r
           IN  /\ n \in Nat /\ (t \div r) * k <= n
               /\ n * r <= t * k /\ t * k < (n + 1) * r
<1>1. PICK w \in Nat, m \in Nat : w = t \div r /\ m = t % r /\ m < r /\ t = r * w + m
  BY DivMod
<1>2. m * k \in Nat
  BY <1>1
<1>3. PICK x \in Nat, y \in Nat : x = (m * k) \div r /\ y < r /\ m * k = r * x + y
  BY <1>2, DivMod
<1>4. t * k = (w * k) * r + m * k
  BY <1>1
<1>5. PICK n \in Nat : n = w * k + x /\ w * k <= n
  BY <1>1, <1>3
<1>6. n * r = (w * k) * r + r * x
  BY <1>5
<1>7. n * r <= t * k
  BY <1>3, <1>4, <1>6
<1>8. t * k < (n + 1) * r
  <2>1. (n + 1) * r = n * r + r
    OBVIOUS
  <2> QED BY <1>3, <1>4, <1>6, <2>1
<1> QED BY <1>1, <1>3, <1>5, <1>7, <1>8

\* The same, rounded up.
LEMMA ScaleUp ==
    ASSUME NEW t \in Nat, NEW r \in Nat \ {0}, NEW k \in Nat \ {0}
    PROVE  LET n == (t \div k) * r + ((t % k) * r + k - 1) \div k
           IN  /\ n \in Nat /\ (t \div k) * r <= n
               /\ (n - 1) * k < t * r /\ t * r <= n * k
<1>1. PICK w \in Nat, m \in Nat : w = t \div k /\ m = t % k /\ m < k /\ t = k * w + m
  BY DivMod
<1>2. m * r + k - 1 \in Nat
  BY <1>1
<1>3. PICK x \in Nat, y \in Nat :
          x = (m * r + k - 1) \div k /\ y < k /\ m * r + k - 1 = k * x + y
  BY <1>2, DivMod
<1>4. t * r = (w * r) * k + m * r
  BY <1>1
<1>5. PICK n \in Nat : n = w * r + x /\ w * r <= n
  BY <1>1, <1>3
<1>6. n * k = (w * r) * k + k * x
  BY <1>5
<1>7. t * r <= n * k
  BY <1>3, <1>4, <1>6
<1>8. (n - 1) * k < t * r
  <2>1. (n - 1) * k = n * k - k
    OBVIOUS
  <2> QED BY <1>3, <1>4, <1>6, <2>1
<1> QED BY <1>1, <1>3, <1>5, <1>7, <1>8
-----------------------------------------------------------------------------
\* os_ticks_to_ms rounds down where the milliseconds fit, and saturates beyond
\* the last second.
LEMMA TicksToMs ==
    ASSUME rate \in Rates, NEW t \in Nat
    PROVE  LET n == os_ticks_to_ms(t)
           IN  /\ n \in 0 .. Width - 1
               /\ t * Thousand < Width * rate =>
                      n * rate <= t * Thousand /\ t * Thousand < (n + 1) * rate
               /\ t * Thousand >= Width * rate =>
                      n = Width - 1 \/ t \div rate = (Width - 1) \div Thousand
<1> USE UptimeAssumption
<1>1. rate \in Nat \ {0} /\ Thousand \in Nat \ {0} /\ Width \in Nat \ {0} /\ Width - 1 \in Nat
  OBVIOUS
<1>2. PICK w \in Nat, m \in Nat :
          w = t \div rate /\ m = t % rate /\ m < rate /\ t = rate * w + m
  BY <1>1, DivMod
<1>3. PICK q \in Nat : q = (Width - 1) \div Thousand
  BY <1>1, DivMod
<1>4. PICK v \in Nat : /\ v = w * Thousand + (m * Thousand) \div rate
                       /\ w * Thousand <= v
                       /\ v * rate <= t * Thousand /\ t * Thousand < (v + 1) * rate
  BY <1>1, <1>2, ScaleDown
<1>5. os_ticks_to_ms(t) = IF w > q THEN Width - 1 ELSE v % Width
  BY <1>2, <1>3, <1>4 DEF os_ticks_to_ms
<1>6. v % Width \in 0 .. Width - 1
  BY <1>1, DivMod
<1>7. CASE t * Thousand < Width * rate
  <2>1. v * rate < Width * rate
    BY <1>1, <1>4, <1>7
  <2>2. v < Width
    BY <1>1, <2>1, Monotonic
  <2>3. w * Thousand <= Width - 1
    BY <1>1, <1>4, <2>2
  <2>4. w <= q
    BY <1>1, <1>3, <2>3, Quotient
  <2>5. v % Width = v
    BY <1>1, <2>2
  <2>6. os_ticks_to_ms(t) = v
    BY <1>5, <2>4, <2>5
  <2> QED BY <1>1, <1>4, <1>7, <2>2, <2>6
<1>8. CASE t * Thousand >= Width * rate
  <2>1. ASSUME w < q PROVE FALSE
    <3>1. q * Thousand <= Width - 1
      BY <1>1, <1>3, Quotient
    <3>2. t < (w + 1) * rate
      BY <1>1, <1>2
    <3>3. (w + 1) * rate <= q * rate
      BY <1>1, <2>1, Monotonic
    <3>4. t < q * rate
      BY <1>1, <3>2, <3>3
    <3>5. t * Thousand < (q * rate) * Thousand
      BY <1>1, <3>4, Monotonic
    <3>6. (q * rate) * Thousand = (q * Thousand) * rate
      BY <1>1
    <3>7. (q * Thousand) * rate < Width * rate
      BY <1>1, <3>1, Monotonic
    <3> QED BY <1>1, <1>8, <3>5, <3>6, <3>7
  <2>2. w > q \/ w = q
    BY <2>1
  <2> QED BY <1>1, <1>2, <1>3, <1>5, <1>6, <1>8, <2>2
<1> QED BY <1>1, <1>7, <1>8

\* os_ms_to_ticks_ceil rounds up, stops short of OS_WAIT_FOREVER, and back in
\* milliseconds a delay is not shorter.
LEMMA MsToTicks ==
    ASSUME rate \in Rates, NEW ms \in 0 .. Width - 1
    PROVE  LET n == os_ms_to_ticks_ceil(ms)
           IN  /\ n \in 0 .. Forever - 1
               /\ (n - 1) * Thousand < ms * rate
               /\ n < Forever - 1 => n * Thousand >= ms * rate /\ os_ticks_to_ms(n) >= ms
<1> USE UptimeAssumption
<1>1. /\ rate \in Nat \ {0} /\ Thousand \in Nat \ {0} /\ Width \in Nat \ {0}
      /\ Forever \in Nat \ {0} /\ Forever - 1 \in Nat /\ ms \in Nat
  OBVIOUS
<1>2. PICK w \in Nat : w = ms \div Thousand
  BY <1>1, DivMod
<1>3. PICK k \in Nat :
          /\ k = w * rate + ((ms % Thousand) * rate + Thousand - 1) \div Thousand
          /\ w * rate <= k /\ (k - 1) * Thousand < ms * rate /\ ms * rate <= k * Thousand
  BY <1>1, <1>2, ScaleUp
<1>4. w > (Forever - 1) \div rate => k > Forever - 1
  <2>1. (Forever - 1) \div rate \in Nat
    BY <1>1, DivMod
  <2>2. w * rate <= Forever - 1 => w <= (Forever - 1) \div rate
    BY <1>1, Quotient
  <2>3. w * rate \in Nat
    BY <1>1
  <2> QED BY <1>1, <1>3, <2>1, <2>2, <2>3
<1>5. os_ms_to_ticks_ceil(ms) = IF k > Forever - 1 THEN Forever - 1 ELSE k
  BY <1>2, <1>3, <1>4 DEF os_ms_to_ticks_ceil
<1>6. CASE k > Forever - 1
  <2>1. (Forever - 1 - 1) * Thousand < (k - 1) * Thousand
    BY <1>1, <1>6, Monotonic
  <2>2. (Forever - 1 - 1) * Thousand < ms * rate
    BY <1>1, <1>3, <2>1
  <2> QED BY <1>1, <1>5, <1>6, <2>2
<1>7. CASE k <= Forever - 1
  <2>1. ASSUME k < Forever - 1 PROVE os_ticks_to_ms(k) >= ms
    <3>1. PICK v \in Nat : v = os_ticks_to_ms(k)
      BY <1>1, TicksToMs
    <3>2. k * Thousand < Forever * Thousand
      BY <1>1, <2>1, Monotonic
    <3>3. Width <= Width * rate
      BY <1>1
    <3>4. k * Thousand < Width * rate
      BY <1>1, <3>2, <3>3
    <3>5. k * Thousand < (v + 1) * rate
      BY <3>1, <3>4, TicksToMs
    <3>6. ms * rate < (v + 1) * rate
      BY <1>1, <1>3, <3>5
    <3>7. ms < v + 1
      BY <1>1, <3>6, Monotonic
    <3> QED BY <1>1, <3>1, <3>7
  <2> QED BY <1>1, <1>3, <1>5, <1>7, <2>1
<1> QED BY <1>1, <1>6, <1>7
-----------------------------------------------------------------------------
(***************************************************************************)
(* Comparing a tick with the previous one recovers the time, if less than  *)
(* one round has passed: the tick is smaller exactly if it has wrapped.    *)
(***************************************************************************)
LEMMA Recovers ==
    ASSUME NEW k \in Nat, epoch = TickMod * k, previous \in 0 .. TickMod - 1,
           NEW T \in Nat, epoch + previous <= T, T - (epoch + previous) < TickMod
    PROVE  /\ Extended(T % TickMod) + (T % TickMod) = T
           /\ \E j \in Nat : Extended(T % TickMod) = TickMod * j
           /\ T % TickMod \in 0 .. TickMod - 1
<1> USE UptimeAssumption
<1>1. PICK q \in Nat, c \in Nat : c = T % TickMod /\ c < TickMod /\ T = TickMod * q + c
  BY DivMod
<1>2. PICK d \in Int : d = q - k
  OBVIOUS
<1>3. TickMod * q - TickMod * k = TickMod * d
  BY <1>2
<1>4. TickMod * d = T - epoch - c
  BY <1>1, <1>3
<1>5. CASE c < previous
  <2>1. 0 < TickMod * d /\ TickMod * d < TickMod + TickMod
    BY <1>1, <1>4, <1>5
  <2>2. d = 1
    BY <2>1
  <2>3. TickMod * d = TickMod
    BY <2>2
  <2>4. epoch + TickMod = TickMod * (k + 1)
    OBVIOUS
  <2>5. Extended(c) = epoch + TickMod
    BY <1>5 DEF Extended
  <2>6. epoch \in Int
    OBVIOUS
  <2>7. Extended(c) + c = T
    BY <1>1, <1>4, <2>3, <2>5, <2>6
  <2>8. Extended(c) = TickMod * (k + 1) /\ k + 1 \in Nat
    BY <2>4, <2>5
  <2>9. \E j \in Nat : Extended(c) = TickMod * j
    BY <2>8
  <2>10. c \in 0 .. TickMod - 1
    BY <1>1
  <2> QED BY <1>1, <2>7, <2>9, <2>10
<1>6. CASE ~(c < previous)
  <2>1. -TickMod < TickMod * d /\ TickMod * d < TickMod
    BY <1>1, <1>4, <1>6
  <2>2. d = 0
    BY <2>1
  <2>3. TickMod * d = 0
    BY <2>2
  <2>4. Extended(c) = epoch
    BY <1>6 DEF Extended
  <2>5. epoch \in Int
    OBVIOUS
  <2>6. Extended(c) + c = T
    BY <1>1, <1>4, <2>3, <2>4, <2>5
  <2>7. \E j \in Nat : Extended(c) = TickMod * j
    BY <2>4
  <2>8. c \in 0 .. TickMod - 1
    BY <1>1
  <2> QED BY <1>1, <2>6, <2>7, <2>8
<1> QED BY <1>5, <1>6

\* Storing a true, recent time and converting it keeps the invariants.
LEMMA StoreInv ==
    ASSUME TypeOK, NEW T \in 0 .. MaxTime, T <= time, time - T < TickMod,
           NEW base \in Nat, NEW current \in 0 .. TickMod - 1, base + current = T,
           \E j \in Nat : base = TickMod * j,
           epoch' = base, previous' = current,
           uptime' = os_ticks_to_ms((base + current) % Width), asked' = T,
           UNCHANGED <<port, rate, time>>
    PROVE  /\ epoch' \in {TickMod * k : k \in 0 .. MaxTime} /\ previous' \in 0 .. TickMod - 1
           /\ uptime' \in 0 .. Width - 1
           /\ StoredIsRecent' /\ UptimeIsExact'
<1> USE UptimeAssumption
<1>1. PICK j \in Nat : base = TickMod * j
  OBVIOUS
<1>2. base <= MaxTime
  OBVIOUS
<1>3. j <= base
  BY <1>1
<1>4. j \in 0 .. MaxTime
  BY <1>2, <1>3
<1>5. epoch' \in {TickMod * k : k \in 0 .. MaxTime}
  BY <1>1, <1>4
<1>6. T % Width = T
  OBVIOUS
<1>7. rate \in Rates /\ uptime' = os_ticks_to_ms(T)
  BY <1>6 DEF TypeOK
<1>8. T * Thousand < Width * rate
  <2>1. T * Thousand <= MaxTime * Thousand
    BY Monotonic
  <2>2. MaxTime * Thousand < Width * rate
    BY <1>7
  <2>3. T * Thousand \in Int /\ MaxTime * Thousand \in Int /\ Width * rate \in Int
    BY <1>7
  <2> QED BY <2>1, <2>2, <2>3
<1>9. /\ uptime' \in 0 .. Width - 1
      /\ uptime' * rate <= T * Thousand /\ T * Thousand < (uptime' + 1) * rate
  BY <1>7, <1>8, TicksToMs
<1>10. UptimeIsExact'
  BY <1>9 DEF UptimeIsExact
<1>11. StoredIsRecent'
  BY DEF StoredIsRecent
<1> QED BY <1>5, <1>9, <1>10, <1>11

\* The clock at zero satisfies the inductive invariant.
LEMMA InitInv == Init => IInv
<1> SUFFICES ASSUME Init PROVE IInv
  OBVIOUS
<1> USE UptimeAssumption
<1>1. 0 = TickMod * 0 /\ 0 \in 0 .. MaxTime
  OBVIOUS
<1>2. TypeOK
  BY <1>1 DEF Init, TypeOK
<1>3. rate \in Nat \ {0}
  BY DEF Init
<1>4. UptimeIsExact
  BY <1>3 DEF Init, UptimeIsExact
<1>5. StoredIsRecent /\ ReadIsRecent
  BY DEF Init, StoredIsRecent, ReadIsRecent
<1> QED BY <1>2, <1>4, <1>5 DEF IInv

\* Where calls do not overlap on RT-Thread, every step of os_uptime_get, an
\* interrupt that calls it and the tick itself preserve the inductive invariant.
LEMMA NextInv ==
    ASSUME "rtthread" \notin Overlap
    PROVE  IInv /\ [Next]_vars => IInv'
<1> SUFFICES ASSUME IInv, [Next]_vars PROVE IInv'
  OBVIOUS
<1> USE UptimeAssumption DEF IInv
<1>0. /\ time \in Nat /\ time <= MaxTime /\ epoch \in Nat /\ previous \in 0 .. TickMod - 1
      /\ \E k \in Nat : epoch = TickMod * k
      /\ port \in Ports /\ rate \in Nat \ {0}
  BY DEF TypeOK
<1>1. ASSUME NEW a \in Tasks, os_uptime_get_read(a)
      PROVE  IInv'
  <2>1. /\ pc[a] = "idle" /\ pc' = [pc EXCEPT ![a] = "read"] /\ read' = [read EXCEPT ![a] = time]
        /\ UNCHANGED <<port, rate, time, epoch, previous, uptime, asked>>
    BY <1>1 DEF os_uptime_get_read
  <2>2. TypeOK'
    BY <2>1 DEF TypeOK
  <2>3. /\ pc'[a] = "read" /\ read'[a] = time
        /\ \A b \in Tasks \ {a} : pc'[b] = pc[b] /\ read'[b] = read[b]
    BY <2>1 DEF TypeOK
  <2>4. StoredIsRecent' /\ UptimeIsExact'
    BY <2>1 DEF StoredIsRecent, UptimeIsExact
  <2>5. ~FreeRTOS => \A b \in Tasks : pc[b] = "idle"
    BY <1>0, <1>1 DEF os_uptime_get_read, FreeRTOS
  <2>6. \A b \in Tasks : pc'[b] = "read" => read'[b] <= time /\ time - read'[b] < TickMod
    BY <1>0, <2>3 DEF ReadIsRecent
  <2>7. ~FreeRTOS => /\ \A b \in Tasks : pc'[b] = "read" => b = a
                     /\ epoch + previous <= read'[a]
    BY <2>3, <2>5 DEF StoredIsRecent
  <2>8. ReadIsRecent'
    BY <2>1, <2>6, <2>7 DEF ReadIsRecent, FreeRTOS
  <2> QED BY <2>2, <2>4, <2>8
<1>2. ASSUME NEW a \in Tasks, os_uptime_get(a)
      PROVE  IInv'
  <2> DEFINE current == read[a] % TickMod
  <2> DEFINE base == IF FreeRTOS THEN read[a] - current ELSE Extended(current)
  <2>1. /\ pc[a] = "read" /\ pc' = [pc EXCEPT ![a] = "idle"] /\ read' = [read EXCEPT ![a] = 0]
        /\ epoch' = base /\ previous' = current
        /\ uptime' = os_ticks_to_ms((base + current) % Width) /\ asked' = read[a]
        /\ UNCHANGED <<port, rate, time>>
    BY <1>2 DEF os_uptime_get
  <2>2. /\ read[a] \in 0 .. MaxTime /\ read[a] <= time /\ time - read[a] < TickMod
    BY <2>1 DEF TypeOK, ReadIsRecent
  <2>3. /\ base + current = read[a] /\ current \in 0 .. TickMod - 1
        /\ \E j \in Nat : base = TickMod * j
    <3>1. CASE FreeRTOS
      <4>0. read[a] \in Nat
        BY <2>2
      <4>1. PICK q \in Nat, c \in Nat :
                c = read[a] % TickMod /\ c < TickMod /\ read[a] = TickMod * q + c
        BY <4>0, DivMod
      <4>2. base = read[a] - c /\ current = c
        BY <3>1, <4>1
      <4>3. base = TickMod * q
        BY <4>1, <4>2
      <4>4. base + current = read[a] /\ current \in 0 .. TickMod - 1
        <5> HIDE DEF base, current
        <5>1. read[a] - c + c = read[a]
          BY <4>0
        <5>2. c \in 0 .. TickMod - 1
          BY <4>1
        <5> QED BY <4>2, <5>1, <5>2
      <4> HIDE DEF base, current
      <4> QED BY <4>1, <4>3, <4>4
    <3>2. CASE ~FreeRTOS
      <4>1. epoch + previous <= read[a] /\ read[a] - (epoch + previous) < TickMod
        BY <1>0, <2>1, <2>2, <3>2 DEF ReadIsRecent, StoredIsRecent
      <4>2. read[a] \in Nat
        BY <2>2
      <4> QED BY <1>0, <3>2, <4>1, <4>2, Recovers
    <3> QED BY <3>1, <3>2
  <2>4. base \in Nat
    BY <2>3
  <2> HIDE DEF base, current
  <2>5. /\ epoch' \in {TickMod * k : k \in 0 .. MaxTime} /\ previous' \in 0 .. TickMod - 1
        /\ uptime' \in 0 .. Width - 1
        /\ StoredIsRecent' /\ UptimeIsExact'
    BY <2>1, <2>2, <2>3, <2>4, StoreInv
  <2>6. TypeOK'
    BY <2>1, <2>2, <2>5 DEF TypeOK
  <2>7. \A b \in Tasks : pc'[b] = "read" => b # a /\ pc[b] = "read" /\ read'[b] = read[b]
    BY <2>1 DEF TypeOK
  <2>8. ~FreeRTOS => \A b \in Tasks : pc'[b] # "read"
    BY <2>1, <2>7 DEF ReadIsRecent
  <2>9. ReadIsRecent'
    BY <2>1, <2>7, <2>8 DEF ReadIsRecent, FreeRTOS
  <2> QED BY <2>5, <2>6, <2>9
<1>3. CASE os_uptime_get_isr
  <2>1. /\ FreeRTOS /\ epoch' = Extended(tick) /\ previous' = tick
        /\ uptime' = os_ticks_to_ms((Extended(tick) + tick) % Width) /\ asked' = time
        /\ UNCHANGED <<port, rate, time, pc, read>>
    BY <1>3 DEF os_uptime_get_isr
  <2>2. /\ Extended(tick) + tick = time /\ tick \in 0 .. TickMod - 1
        /\ \E j \in Nat : Extended(tick) = TickMod * j
    BY <1>0, Recovers DEF StoredIsRecent, tick
  <2>3. Extended(tick) \in Nat
    BY <2>2
  <2>4. /\ time \in 0 .. MaxTime /\ time <= time /\ time - time < TickMod
    BY <1>0
  <2>5. /\ epoch' \in {TickMod * k : k \in 0 .. MaxTime} /\ previous' \in 0 .. TickMod - 1
        /\ uptime' \in 0 .. Width - 1
        /\ StoredIsRecent' /\ UptimeIsExact'
    BY <2>1, <2>2, <2>3, <2>4, StoreInv
  <2>6. TypeOK'
    BY <2>1, <2>4, <2>5 DEF TypeOK
  <2>7. ReadIsRecent'
    BY <2>1 DEF ReadIsRecent, FreeRTOS
  <2> QED BY <2>5, <2>6, <2>7
<1>4. CASE Tick
  <2>1. /\ time < MaxTime /\ time + 1 - (epoch + previous) < TickMod
        /\ \A a \in Tasks : pc[a] = "read" => time + 1 - read[a] < TickMod
        /\ time' = time + 1
        /\ UNCHANGED <<port, rate, epoch, previous, pc, read, uptime, asked>>
    BY <1>4 DEF Tick
  <2>2. TypeOK'
    BY <1>0, <2>1 DEF TypeOK
  <2>3. StoredIsRecent' /\ UptimeIsExact'
    BY <1>0, <2>1 DEF StoredIsRecent, UptimeIsExact
  <2>4. \A a \in Tasks : read[a] \in Nat
    BY DEF TypeOK
  <2>5. ReadIsRecent'
    BY <1>0, <2>1, <2>4 DEF ReadIsRecent, FreeRTOS
  <2> QED BY <2>2, <2>3, <2>5
<1>5. CASE UNCHANGED vars
  BY <1>5 DEF vars, TypeOK, StoredIsRecent, ReadIsRecent, UptimeIsExact, FreeRTOS
<1> QED BY <1>1, <1>2, <1>3, <1>4, <1>5 DEF Next

\* The inductive invariant holds in every reachable state.
LEMMA Invariance ==
    ASSUME "rtthread" \notin Overlap
    PROVE  Spec => []IInv
<1>1. IInv /\ [Next]_vars => IInv'
  BY NextInv
<1> QED BY <1>1, InitInv, PTL DEF Spec

(***************************************************************************)
(* os_uptime_get is exact, for ever and for any tick range: across wraps,  *)
(* with any number of tasks that overtake one another on FreeRTOS and with *)
(* interrupts that extend what an overtaken task has stored.  (RT-Thread:  *)
(* calls that do not overlap.)                                             *)
(***************************************************************************)
THEOREM UptimeCorrect ==
    ASSUME "rtthread" \notin Overlap
    PROVE  Spec => []UptimeIsExact
<1>1. Spec => []IInv
  BY Invariance
<1> QED BY <1>1, PTL DEF IInv

\* The rate is one of the build's.
LEMMA RateIsFixed == Spec => [](rate \in Rates)
<1>1. Init => rate \in Rates
  BY DEF Init
<1>2. rate \in Rates /\ [Next]_vars => (rate \in Rates)'
  BY DEF Next, vars, os_uptime_get_read, os_uptime_get, os_uptime_get_isr, Tick
<1> QED BY <1>1, <1>2, PTL DEF Spec

\* os_ms_to_ticks_ceil never shortens a delay and never makes a finite one
\* infinite, for every 64-bit number of milliseconds and every rate.
THEOREM DelaysCorrect == Spec => []DelaysAreLongEnough
<1>1. rate \in Rates => DelaysAreLongEnough
  BY MsToTicks DEF DelaysAreLongEnough
<1> QED BY <1>1, RateIsFixed, PTL

\* os_ticks_to_ms rounds down and does not overflow before the last second
\* that fits, for every 64-bit number of ticks and every rate.
THEOREM ConversionCorrect == Spec => []TicksAreConverted
<1>1. rate \in Rates => TicksAreConverted
  <2> SUFFICES ASSUME rate \in Rates, NEW ticks \in 0 .. Width - 1
               PROVE  LET n == os_ticks_to_ms(ticks)
                      IN  IF ticks * Thousand < Width * rate
                          THEN n * rate <= ticks * Thousand /\ ticks * Thousand < (n + 1) * rate
                          ELSE n = Width - 1 \/ ticks \div rate = (Width - 1) \div Thousand
    BY DEF TicksAreConverted
  <2>1. ticks \in Nat
    BY UptimeAssumption
  <2>2. ticks * Thousand < Width * rate \/ ticks * Thousand >= Width * rate
    BY <2>1, UptimeAssumption
  <2> QED BY <2>1, <2>2, TicksToMs
<1> QED BY <1>1, RateIsFixed, PTL
=============================================================================
