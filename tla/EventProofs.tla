----------------------------- MODULE EventProofs ----------------------------
(***************************************************************************)
(* Proofs about os_event for any number of threads, any bits and any set   *)
(* of ports.                                                               *)
(***************************************************************************)
EXTENDS Event, TLAPS

\* The arguments with which a wait gets past the checks of the port.
Accepted == {c \in Arguments : /\ c.requested \subseteq Mask /\ c.requested # {}
                               /\ c.clear => port \in Clearing}

\* A thread has arguments exactly while it is inside os_event_wait.
CallsAreKnown ==
    \A t \in Threads : IF pc[t] = "idle" THEN call[t] = None ELSE call[t] \in Accepted

(***************************************************************************)
(* The status of a native wait and the bits it returned tell the same      *)
(* story, although a port looks at only one of them; only a wait with a    *)
(* limit fails.                                                            *)
(***************************************************************************)
OutcomesAgree ==
    \A t \in Threads :
        /\ pc[t] = "expired" => call[t].timeout = "ticks"
        /\ pc[t] = "returned" =>
               /\ native[t].ok = TRUE <=> Satisfied(native[t].bits, call[t])
               /\ native[t].ok # TRUE => call[t].timeout # "forever"

\* The inductive invariant.
IInv == TypeOK /\ CallsAreKnown /\ OutcomesAgree /\ NobodySleepsOnSetBits

\* More bits satisfy no fewer waits.
LEMMA MoreBits ==
    ASSUME NEW s, NEW r, NEW c, s \subseteq r, Satisfied(s, c)
    PROVE  Satisfied(r, c)
BY DEF Satisfied

\* No wait is satisfied by nothing.
LEMMA NoBits ==
    ASSUME NEW c \in Accepted
    PROVE  ~Satisfied({}, c)
BY DEF Satisfied, Accepted

\* A wait looks at its own bits only.
LEMMA OwnBits ==
    ASSUME NEW s, NEW c
    PROVE  Satisfied(s \cap c.requested, c) <=> Satisfied(s, c)
BY DEF Satisfied

\* What the arguments of an accepted call are.
LEMMA AcceptedCall ==
    ASSUME NEW c \in Accepted
    PROVE  /\ c \in Arguments /\ c # None
           /\ c.requested \subseteq Mask /\ c.requested # {}
           /\ c.timeout \in {"zero", "ticks", "forever"}
           /\ c.clear => port \in Clearing
BY NoneAssumption DEF Accepted, Arguments

\* What a satisfied native wait reports: success, and bits that satisfy it.
LEMMA ReportFacts ==
    ASSUME NEW s \in SUBSET Mask, NEW t \in Threads, Satisfied(s, call[t])
    PROVE  /\ Report(s, t) \in [ok : BOOLEAN, bits : SUBSET Mask]
           /\ Report(s, t).ok = TRUE
           /\ Satisfied(Report(s, t).bits, call[t])
           /\ Report(s, t).bits \cap call[t].requested = s \cap call[t].requested
<1>1. CASE port = "freertos"
  BY <1>1 DEF Report
<1>2. CASE port # "freertos"
  <2>1. Satisfied(s \cap call[t].requested, call[t])
    BY OwnBits
  <2> QED BY <1>2, <2>1 DEF Report
<1> QED BY <1>1, <1>2

(***************************************************************************)
(* The end of native waits, which a set, a first look at the bits and a    *)
(* last look at them have in common: if the waits W are satisfied by the   *)
(* bits s and no other sleeper is, the invariant survives.                 *)
(***************************************************************************)
LEMMA SatisfyInv ==
    ASSUME IInv, NEW W \in SUBSET Threads, NEW s \in SUBSET Mask, Satisfy(W, s),
           \A t \in W : pc[t] # "idle" /\ Satisfied(s, call[t]),
           \A t \in Threads \ W : pc[t] = "asleep" => ~Satisfied(s, call[t]),
           UNCHANGED <<port, initialized, call, ret>>
    PROVE  IInv'
<1> USE DEF IInv
<1>1. bits' \subseteq s
  BY DEF Satisfy
<1>2. \A t \in W : pc'[t] = "returned" /\ native'[t] = Report(s, t)
  BY DEF Satisfy
<1>3. \A t \in Threads \ W : pc'[t] = pc[t] /\ native'[t] = native[t]
  BY DEF Satisfy
<1>4. TypeOK'
  <2>1. pc' \in [Threads -> {"idle", "native", "asleep", "expired", "returned"}]
    BY DEF Satisfy, TypeOK
  <2>2. native' \in [Threads -> [ok : BOOLEAN, bits : SUBSET Mask]]
    <3>1. \A t \in W : Report(s, t) \in [ok : BOOLEAN, bits : SUBSET Mask]
      BY ReportFacts
    <3>2. \A t \in Threads : native[t] \in [ok : BOOLEAN, bits : SUBSET Mask]
      BY DEF TypeOK
    <3> HIDE DEF IInv
    <3> QED BY <3>1, <3>2 DEF Satisfy
  <2> QED BY <1>1, <2>1, <2>2 DEF TypeOK
<1>5. CallsAreKnown'
  BY <1>2, <1>3 DEF CallsAreKnown, Accepted
<1>6. ASSUME NEW t \in Threads
      PROVE  /\ pc'[t] = "expired" => call'[t].timeout = "ticks"
             /\ pc'[t] = "returned" =>
                   /\ native'[t].ok = TRUE <=> Satisfied(native'[t].bits, call'[t])
                   /\ native'[t].ok # TRUE => call'[t].timeout # "forever"
  <2>1. CASE t \in W
    BY <1>2, <2>1, ReportFacts
  <2>2. CASE t \notin W
    BY <1>3, <2>2 DEF OutcomesAgree
  <2> QED BY <2>1, <2>2
<1>7. OutcomesAgree'
  BY <1>6 DEF OutcomesAgree, Satisfied
<1>8. ASSUME NEW t \in Threads, pc'[t] = "asleep"
      PROVE  ~Satisfied(bits', call[t])
  BY <1>1, <1>2, <1>3, <1>8, MoreBits
<1>9. NobodySleepsOnSetBits'
  BY <1>8 DEF NobodySleepsOnSetBits, Satisfied
<1> QED BY <1>4, <1>5, <1>7, <1>9

(***************************************************************************)
(* The other steps of a native wait: one thread inside a call moves on, and*)
(* the bits do not grow.                                                   *)
(***************************************************************************)
LEMMA MoveInv ==
    ASSUME IInv, NEW t \in Threads, NEW to \in {"asleep", "expired", "returned"},
           NEW r \in [ok : BOOLEAN, bits : SUBSET Mask],
           pc[t] # "idle", bits' \subseteq bits,
           pc' = [pc EXCEPT ![t] = to], native' = [native EXCEPT ![t] = r],
           to = "asleep" => ~Satisfied(bits', call[t]),
           to = "expired" => call[t].timeout = "ticks",
           to = "returned" => /\ r.ok # TRUE /\ ~Satisfied(r.bits, call[t])
                              /\ call[t].timeout # "forever",
           UNCHANGED <<port, initialized, call, ret>>
    PROVE  IInv'
<1> USE DEF IInv
<1>1. TypeOK'
  BY DEF TypeOK
<1>2. CallsAreKnown'
  BY DEF CallsAreKnown, Accepted, TypeOK
<1>3. OutcomesAgree'
  <2>1. ASSUME NEW u \in Threads
        PROVE  /\ pc'[u] = "expired" => call'[u].timeout = "ticks"
               /\ pc'[u] = "returned" =>
                     /\ native'[u].ok = TRUE <=> Satisfied(native'[u].bits, call'[u])
                     /\ native'[u].ok # TRUE => call'[u].timeout # "forever"
    <3>1. CASE u = t
      BY <3>1 DEF TypeOK
    <3>2. CASE u # t
      BY <3>2 DEF TypeOK, OutcomesAgree
    <3> QED BY <3>1, <3>2
  <2> QED BY <2>1 DEF OutcomesAgree, Satisfied
<1>4. ASSUME NEW u \in Threads, pc'[u] = "asleep"
      PROVE  ~Satisfied(bits', call[u])
  BY <1>4, MoreBits DEF NobodySleepsOnSetBits, TypeOK
<1>5. NobodySleepsOnSetBits'
  BY <1>4 DEF NobodySleepsOnSetBits, Satisfied
<1> QED BY <1>1, <1>2, <1>3, <1>5
-----------------------------------------------------------------------------
\* An object of zeroes, used by nobody, satisfies the inductive invariant.
LEMMA InitInv == Init => IInv
<1> SUFFICES ASSUME Init PROVE IInv
  OBVIOUS
<1>1. initialized \in BOOLEAN
  BY Zenon DEF Init
<1>2. Unsatisfied \in [ok : BOOLEAN, bits : SUBSET Mask]
  BY DEF Unsatisfied
<1>3. TypeOK
  BY <1>1, <1>2 DEF Init, TypeOK
<1>4. CallsAreKnown /\ OutcomesAgree /\ NobodySleepsOnSetBits
  BY DEF Init, CallsAreKnown, OutcomesAgree, NobodySleepsOnSetBits
<1> QED BY <1>3, <1>4 DEF IInv

\* Every call, every step of a native wait and the timer preserve the
\* inductive invariant.
LEMMA NextInv == IInv /\ [Next]_vars => IInv'
<1> SUFFICES ASSUME IInv, [Next]_vars PROVE IInv'
  OBVIOUS
<1> USE MaskAssumption DEF IInv
<1>0. /\ \A t \in Threads : pc[t] # "idle" => call[t] \in Accepted
      /\ bits \subseteq Mask
      /\ Unsatisfied \in [ok : BOOLEAN, bits : SUBSET Mask]
  BY DEF CallsAreKnown, TypeOK, Unsatisfied
<1>1. CASE (os_event_init \/ os_event_deinit) /\ UNCHANGED port
  <2>1. initialized' \in BOOLEAN
    BY <1>1, Zenon DEF os_event_init, os_event_deinit
  <2>2. TypeOK'
    BY <1>1, <2>1 DEF os_event_init, os_event_deinit, TypeOK
  <2>3. CallsAreKnown' /\ OutcomesAgree'
    BY <1>1 DEF os_event_init, os_event_deinit, CallsAreKnown, OutcomesAgree, Accepted, Satisfied
  <2>4. bits' = {} /\ pc' = pc /\ call' = call
    BY <1>1 DEF os_event_init, os_event_deinit
  <2>5. ASSUME NEW t \in Threads, pc'[t] = "asleep"
        PROVE  ~Satisfied({}, call[t])
    BY <1>0, <2>4, <2>5, NoBits
  <2>6. NobodySleepsOnSetBits'
    BY <2>4, <2>5 DEF NobodySleepsOnSetBits, Satisfied
  <2> QED BY <2>2, <2>3, <2>6
<1>2. ASSUME NEW b \in SUBSET Bits, os_event_set(b), UNCHANGED port
      PROVE  IInv'
  <2> DEFINE s == bits \cup b
  <2> DEFINE W == {t \in Threads : pc[t] = "asleep" /\ Satisfied(s, call[t])}
  <2>1. s \in SUBSET Mask /\ W \in SUBSET Threads
    BY <1>0, <1>2 DEF os_event_set, Valid
  <2>2. Satisfy(W, s) /\ UNCHANGED <<port, initialized, call, ret>>
    BY <1>2 DEF os_event_set, SetBits
  <2>3. /\ \A t \in W : pc[t] # "idle" /\ Satisfied(s, call[t])
        /\ \A t \in Threads \ W : pc[t] = "asleep" => ~Satisfied(s, call[t])
    OBVIOUS
  <2> HIDE DEF s, W, IInv
  <2> QED BY <2>1, <2>2, <2>3, SatisfyInv
<1>3. ASSUME NEW b \in SUBSET Bits, os_event_clear(b), UNCHANGED port
      PROVE  IInv'
  <2>1. TypeOK' /\ CallsAreKnown' /\ OutcomesAgree'
    BY <1>3 DEF os_event_clear, TypeOK, CallsAreKnown, OutcomesAgree, Accepted, Satisfied
  <2>2. bits' \subseteq bits /\ pc' = pc /\ call' = call
    BY <1>3 DEF os_event_clear
  <2>3. ASSUME NEW t \in Threads, pc'[t] = "asleep"
        PROVE  ~Satisfied(bits', call[t])
    BY <2>2, <2>3, MoreBits DEF NobodySleepsOnSetBits
  <2>4. NobodySleepsOnSetBits'
    BY <2>2, <2>3 DEF NobodySleepsOnSetBits, Satisfied
  <2> QED BY <2>1, <2>4
<1>4. ASSUME NEW t \in Threads, os_event_wait(t), UNCHANGED port
      PROVE  IInv'
  <2>1. PICK c \in Arguments : /\ Valid(c.requested) /\ c.requested # {}
                               /\ c.clear => port \in Clearing
                               /\ call' = [call EXCEPT ![t] = c]
    BY <1>4 DEF os_event_wait
  <2>2. c \in Accepted
    BY <2>1 DEF Accepted, Valid
  <2>3. /\ pc' = [pc EXCEPT ![t] = "native"] /\ ret' = [ret EXCEPT ![t] = None]
        /\ UNCHANGED <<port, initialized, bits, native>>
    BY <1>4 DEF os_event_wait
  <2>4. TypeOK'
    BY <2>1, <2>3 DEF TypeOK
  <2>5. CallsAreKnown'
    BY <2>1, <2>2, <2>3 DEF CallsAreKnown, Accepted, TypeOK
  <2>6. \A u \in Threads : pc'[u] # "native" => pc'[u] = pc[u] /\ call'[u] = call[u]
    BY <2>1, <2>3 DEF TypeOK
  <2>7. OutcomesAgree'
    BY <2>3, <2>6 DEF OutcomesAgree, Satisfied
  <2>8. NobodySleepsOnSetBits'
    BY <2>3, <2>6 DEF NobodySleepsOnSetBits, Satisfied
  <2> QED BY <2>4, <2>5, <2>7, <2>8
<1>5. ASSUME NEW t \in Threads, Wait(t), UNCHANGED port
      PROVE  IInv'
  <2> DEFINE s == BeforeWait(t)
  <2>1. s \subseteq bits /\ s \in SUBSET Mask
    BY <1>0 DEF BeforeWait
  <2>2. pc[t] = "native" /\ UNCHANGED <<port, initialized, call, ret>>
    BY <1>5 DEF Wait
  <2>3. CASE Satisfied(s, call[t]) /\ Satisfy({t}, s)
    <3>1. \A u \in Threads \ {t} : pc[u] = "asleep" => ~Satisfied(s, call[u])
      BY <2>1, MoreBits DEF NobodySleepsOnSetBits
    <3> HIDE DEF s, IInv
    <3> QED BY <2>1, <2>2, <2>3, <3>1, SatisfyInv
  <2>4. CASE /\ ~Satisfied(s, call[t]) /\ bits' = s
             /\ pc' = [pc EXCEPT ![t] = IF call[t].timeout = "zero"
                                        THEN "returned" ELSE "asleep"]
             /\ native' = [native EXCEPT ![t] =
                    IF port = "freertos" THEN [ok |-> FALSE, bits |-> s] ELSE Unsatisfied]
    <3> DEFINE to == IF call[t].timeout = "zero" THEN "returned" ELSE "asleep"
    <3> DEFINE r == IF port = "freertos" THEN [ok |-> FALSE, bits |-> s] ELSE Unsatisfied
    <3>1. /\ r \in [ok : BOOLEAN, bits : SUBSET Mask] /\ r.ok # TRUE
          /\ ~Satisfied(r.bits, call[t])
      BY <1>0, <2>1, <2>2, <2>4, NoBits DEF Unsatisfied
    <3>2. /\ to \in {"asleep", "expired", "returned"}
          /\ to # "expired"
          /\ to = "returned" => call[t].timeout # "forever"
      OBVIOUS
    <3>3. pc' = [pc EXCEPT ![t] = to] /\ native' = [native EXCEPT ![t] = r]
      BY <2>4
    <3>4. to = "asleep" => ~Satisfied(bits', call[t])
      BY <2>4
    <3>5. bits' \subseteq bits
      BY <2>1, <2>4
    <3> HIDE DEF s, to, r, IInv
    <3> QED BY <2>2, <3>1, <3>2, <3>3, <3>4, <3>5, MoveInv
  <2> QED BY <1>5, <2>3, <2>4 DEF Wait
<1>6. ASSUME NEW t \in Threads, Expire(t), UNCHANGED port
      PROVE  IInv'
  <2>1. native' = [native EXCEPT ![t] = native[t]] /\ native[t] \in [ok : BOOLEAN, bits : SUBSET Mask]
    BY <1>6 DEF Expire, TypeOK
  <2>2. /\ pc[t] # "idle" /\ bits' \subseteq bits /\ call[t].timeout = "ticks"
        /\ pc' = [pc EXCEPT ![t] = "expired"]
        /\ UNCHANGED <<port, initialized, call, ret>>
    BY <1>6 DEF Expire
  <2> HIDE DEF IInv
  <2> QED BY <2>1, <2>2, MoveInv
<1>7. ASSUME NEW t \in Threads, Expired(t), UNCHANGED port
      PROVE  IInv'
  <2>1. pc[t] = "expired" /\ UNCHANGED <<port, initialized, call, ret>>
    BY <1>7 DEF Expired
  <2>2. CASE port = "freertos" /\ Satisfied(bits, call[t]) /\ Satisfy({t}, bits)
    <3>1. \A u \in Threads \ {t} : pc[u] = "asleep" => ~Satisfied(bits, call[u])
      BY DEF NobodySleepsOnSetBits
    <3> HIDE DEF IInv
    <3> QED BY <1>0, <2>1, <2>2, <3>1, SatisfyInv
  <2>3. CASE /\ ~(port = "freertos" /\ Satisfied(bits, call[t]))
             /\ pc' = [pc EXCEPT ![t] = "returned"]
             /\ native' = [native EXCEPT ![t] =
                    IF port = "freertos" THEN [ok |-> FALSE, bits |-> bits] ELSE Unsatisfied]
             /\ UNCHANGED bits
    <3> DEFINE r == IF port = "freertos" THEN [ok |-> FALSE, bits |-> bits] ELSE Unsatisfied
    <3>1. /\ r \in [ok : BOOLEAN, bits : SUBSET Mask] /\ r.ok # TRUE
          /\ ~Satisfied(r.bits, call[t])
      BY <1>0, <2>1, <2>3, NoBits DEF Unsatisfied
    <3>2. call[t].timeout # "forever"
      BY <2>1 DEF OutcomesAgree
    <3>3. pc' = [pc EXCEPT ![t] = "returned"] /\ native' = [native EXCEPT ![t] = r]
      BY <2>3
    <3>4. bits' \subseteq bits
      BY <2>3
    <3> HIDE DEF r, IInv
    <3> QED BY <2>1, <3>1, <3>2, <3>3, <3>4, MoveInv
  <2> QED BY <1>7, <2>2, <2>3 DEF Expired
<1>8. ASSUME NEW t \in Threads, os_event_wait_return(t), UNCHANGED port
      PROVE  IInv'
  <2> DEFINE e == IF (port = "rtthread" /\ status(t)) \/ (port # "rtthread" /\ matched(t))
                  THEN "none"
                  ELSE IF call[t].timeout = "zero" THEN "EBUSY" ELSE "ETIMEDOUT"
  <2>1. e \in {"none", "EBUSY", "ETIMEDOUT"}
    OBVIOUS
  <2>2. received(t) \in SUBSET Mask
    BY DEF received, TypeOK
  <2>3. /\ ret' = [ret EXCEPT ![t] = [error |-> e, received |-> received(t)]]
        /\ pc' = [pc EXCEPT ![t] = "idle"] /\ call' = [call EXCEPT ![t] = None]
        /\ native' = [native EXCEPT ![t] = Unsatisfied]
        /\ UNCHANGED <<port, initialized, bits>>
    BY <1>8 DEF os_event_wait_return
  <2> HIDE DEF e
  <2>4. [error |-> e, received |-> received(t)] \in Returns
    BY <2>1, <2>2 DEF Returns
  <2>5. TypeOK'
    BY <1>0, <2>3, <2>4 DEF TypeOK
  <2>6. CallsAreKnown'
    BY <2>3 DEF CallsAreKnown, Accepted, TypeOK
  <2>7. \A u \in Threads : pc'[u] # "idle" => /\ pc'[u] = pc[u] /\ call'[u] = call[u]
                                              /\ native'[u] = native[u]
    BY <2>3 DEF TypeOK
  <2>8. OutcomesAgree'
    BY <2>3, <2>7 DEF OutcomesAgree, Satisfied
  <2>9. NobodySleepsOnSetBits'
    BY <2>3, <2>7 DEF NobodySleepsOnSetBits, Satisfied
  <2> QED BY <2>5, <2>6, <2>8, <2>9
<1>9. CASE UNCHANGED vars
  BY <1>9 DEF vars, evars, TypeOK, CallsAreKnown, OutcomesAgree, NobodySleepsOnSetBits,
              Accepted, Satisfied
<1> QED BY <1>1, <1>2, <1>3, <1>4, <1>5, <1>6, <1>7, <1>8, <1>9 DEF Next, Step

\* The inductive invariant holds in every reachable state.
LEMMA Invariance == Spec => []IInv
BY InitInv, NextInv, PTL DEF Spec

\* Types: no bit outside the port's mask is ever set, so the control flags
\* FreeRTOS keeps there are never touched.
THEOREM TypeCorrect == Spec => []TypeOK
BY Invariance, PTL DEF IInv

\* No wake-up is lost on any port: nobody sleeps in os_event_wait while the
\* bits it waits for are set.
THEOREM NoLostWakeup == Spec => []NobodySleepsOnSetBits
BY Invariance, PTL DEF IInv
-----------------------------------------------------------------------------
\* The bits applications may use are the masks of the abstract event group.
LEMMA MasksAreBits == Group!Masks = SUBSET Mask
<1>1. ASSUME NEW b \in SUBSET Mask
      PROVE  \E c \in Arguments : c.requested = b
  <2> DEFINE c == [requested |-> b, wait_all |-> TRUE, clear |-> TRUE, timeout |-> "zero"]
  <2>1. c \in Arguments /\ c.requested = b
    BY MaskAssumption DEF Arguments
  <2> QED BY <2>1
<1>2. UNION {c.requested : c \in {c \in Arguments : c.requested \subseteq Mask}} = Mask
  BY <1>1
<1> QED BY <1>2 DEF Group!Masks

\* What a thread has been served, as the abstract event group sees it, and
\* what its last wait has returned.
served(t) == IF pc[t] = "returned" /\ native[t].ok THEN received(t) ELSE None
returned(t) == IF ret[t] # None /\ ret[t].error # "none"
               THEN [ret[t] EXCEPT !.received = {}] ELSE ret[t]

(***************************************************************************)
(* The end of the native waits W is the abstract service of W: they share  *)
(* the bits and take what they asked to take.                              *)
(***************************************************************************)
LEMMA SatisfyServes ==
    ASSUME IInv, "zephyr" \notin Clearing,
           NEW W \in SUBSET Threads, NEW b \in SUBSET Mask, Satisfy(W, bits \cup b),
           \A t \in W : /\ pc[t] \in {"native", "asleep", "expired"}
                        /\ Satisfied(bits \cup b, call[t]),
           UNCHANGED <<port, initialized, call, ret>>
    PROVE  Group!Serve(b, W)
<1> DEFINE s == bits \cup b
<1>0. s \in SUBSET Mask
  BY DEF IInv, TypeOK
<1>1. \A t \in W : call[t] \in Accepted /\ call[t] # None
  BY AcceptedCall DEF IInv, CallsAreKnown
<1>2. \A t \in W : ClearsAfter(t) <=> call[t].clear
  BY <1>1, AcceptedCall DEF ClearsAfter
<1>3. bits' = s \ UNION {call[t].requested : t \in {u \in W : call[u].clear}}
  BY <1>2 DEF Satisfy
<1>4. \A t \in W : served(t) = None
  BY DEF served
<1>5. ASSUME NEW t \in W PROVE served(t)' = call[t].requested \cap s
  <2>1. pc'[t] = "returned" /\ native'[t] = Report(s, t)
    BY DEF Satisfy
  <2>2. native'[t].ok = TRUE /\ native'[t].bits \cap call[t].requested = s \cap call[t].requested
    BY <1>0, <2>1, ReportFacts
  <2> QED BY <2>1, <2>2 DEF served, received
<1>6. ASSUME NEW t \in Threads \ W PROVE served(t)' = served(t)
  <2>1. pc'[t] = pc[t] /\ native'[t] = native[t]
    BY DEF Satisfy
  <2> QED BY <2>1 DEF served, received
<1>7. [t \in Threads |-> served(t)'] =
          [t \in Threads |-> IF t \in W THEN call[t].requested \cap s ELSE served(t)]
  BY <1>5, <1>6
<1> HIDE DEF IInv, s
<1> QED BY <1>1, <1>3, <1>4, <1>7 DEF Group!Serve, Satisfied, Group!Satisfied, served, s

\* A step that changes neither the calls nor their outcomes changes nothing
\* the abstract event group shows.
LEMMA NothingShown ==
    ASSUME \A t \in Threads : served(t)' = served(t),
           UNCHANGED <<bits, call, ret>>
    PROVE  UNCHANGED Group!vars
<1>1. [t \in Threads |-> served(t)'] = [t \in Threads |-> served(t)]
  OBVIOUS
<1> QED BY <1>1 DEF Group!vars, served

\* Every step of the code is a step of the abstract event group, or nothing
\* that it shows.
LEMMA GroupStep ==
    ASSUME "zephyr" \notin Clearing
    PROVE  IInv /\ [Next]_vars => [Group!Next]_(Group!vars)
<1> SUFFICES ASSUME IInv, [Next]_vars
             PROVE  Group!Next \/ UNCHANGED Group!vars
  OBVIOUS
<1>0. /\ bits \subseteq Mask
      /\ \A t \in Threads : pc[t] # "idle" => call[t] \in Accepted
  BY DEF IInv, TypeOK, CallsAreKnown
<1>1. CASE os_event_init \/ os_event_deinit
  <2>1. Group!Clear(bits)
    BY <1>1 DEF os_event_init, os_event_deinit, Group!Clear, received
  <2> QED BY <1>0, <2>1, MasksAreBits DEF Group!Next
<1>2. ASSUME NEW b \in SUBSET Bits, os_event_set(b), UNCHANGED port
      PROVE  Group!Next
  <2>0. PICK W : W = {t \in Threads : pc[t] = "asleep" /\ Satisfied(bits \cup b, call[t])}
    OBVIOUS
  <2>1. W \in SUBSET Threads /\ b \in SUBSET Mask
    BY <1>2, <2>0 DEF os_event_set, Valid
  <2>2. Satisfy(W, bits \cup b) /\ UNCHANGED <<port, initialized, call, ret>>
    BY <1>2, <2>0 DEF os_event_set, SetBits
  <2>3. \A t \in W : /\ pc[t] \in {"native", "asleep", "expired"}
                     /\ Satisfied(bits \cup b, call[t])
    BY <2>0
  <2>4. Group!Serve(b, W)
    BY <2>1, <2>2, <2>3, SatisfyServes
  <2> QED BY <2>1, <2>4, MasksAreBits DEF Group!Next
<1>3. ASSUME NEW b \in SUBSET Bits, os_event_clear(b)
      PROVE  Group!Next
  <2>1. Group!Clear(b) /\ b \in SUBSET Mask
    BY <1>3 DEF os_event_clear, Valid, Group!Clear, received
  <2> QED BY <2>1, MasksAreBits DEF Group!Next
<1>4. ASSUME NEW t \in Threads, os_event_wait(t)
      PROVE  Group!Wait(t)
  <2>1. PICK c \in Arguments : Valid(c.requested) /\ call' = [call EXCEPT ![t] = c]
    BY <1>4 DEF os_event_wait
  <2>2. /\ pc[t] = "idle" /\ pc' = [pc EXCEPT ![t] = "native"]
        /\ ret' = [ret EXCEPT ![t] = None] /\ UNCHANGED <<bits, native>>
    BY <1>4 DEF os_event_wait
  <2>3. call[t] = None
    BY <2>2 DEF IInv, CallsAreKnown
  <2>4. \A u \in Threads : served(u)' = served(u)
    <3>1. \A u \in Threads \ {t} : pc'[u] = pc[u] /\ call'[u] = call[u] /\ native'[u] = native[u]
      BY <2>1, <2>2 DEF IInv, TypeOK
    <3>2. served(t) = None /\ served(t)' = None
      BY <2>2 DEF served, IInv, TypeOK
    <3> QED BY <3>1, <3>2 DEF served, received
  <2>5. [u \in Threads |-> served(u)'] = [u \in Threads |-> served(u)]
    BY <2>4
  <2>6. [u \in Threads |-> returned(u)'] =
            [[u \in Threads |-> returned(u)] EXCEPT ![t] = None]
    BY <2>2 DEF returned, IInv, TypeOK
  <2>7. c \in {d \in Arguments : d.requested \subseteq Mask}
    BY <2>1 DEF Valid
  <2> QED BY <2>1, <2>2, <2>3, <2>5, <2>6, <2>7 DEF Group!Wait, served, returned
<1>5. ASSUME NEW t \in Threads, Wait(t), UNCHANGED port
      PROVE  Group!Next \/ UNCHANGED Group!vars
  <2>1. pc[t] = "native" /\ UNCHANGED <<port, initialized, call, ret>>
    BY <1>5 DEF Wait
  <2>2. BeforeWait(t) = bits
    BY <1>0, <2>1, AcceptedCall DEF BeforeWait
  <2>3. CASE Satisfied(bits, call[t]) /\ Satisfy({t}, bits)
    <3>1. bits \cup {} = bits /\ {} \in SUBSET Mask /\ {t} \in SUBSET Threads
      OBVIOUS
    <3>2. Group!Serve({}, {t})
      BY <2>1, <2>3, <3>1, SatisfyServes
    <3> QED BY <3>1, <3>2, MasksAreBits DEF Group!Next
  <2>4. CASE /\ bits' = bits
             /\ pc' = [pc EXCEPT ![t] = IF call[t].timeout = "zero"
                                        THEN "returned" ELSE "asleep"]
             /\ native' = [native EXCEPT ![t] =
                    IF port = "freertos" THEN [ok |-> FALSE, bits |-> bits] ELSE Unsatisfied]
    <3>1. \A u \in Threads \ {t} : pc'[u] = pc[u] /\ native'[u] = native[u]
      BY <2>4 DEF IInv, TypeOK
    <3>2. native'[t].ok = FALSE
      BY <2>4 DEF Unsatisfied, IInv, TypeOK
    <3>3. served(t) = None /\ served(t)' = None
      BY <2>1, <3>2 DEF served
    <3>4. \A u \in Threads : served(u)' = served(u)
      BY <2>1, <3>1, <3>3 DEF served, received
    <3> QED BY <2>1, <2>4, <3>4, NothingShown
  <2> QED BY <1>5, <2>2, <2>3, <2>4 DEF Wait
<1>6. ASSUME NEW t \in Threads, Expire(t)
      PROVE  UNCHANGED Group!vars
  <2>1. \A u \in Threads : served(u)' = served(u)
    BY <1>6 DEF Expire, served, received, IInv, TypeOK
  <2> QED BY <1>6, <2>1, NothingShown DEF Expire
<1>7. ASSUME NEW t \in Threads, Expired(t), UNCHANGED port
      PROVE  Group!Next \/ UNCHANGED Group!vars
  <2>1. pc[t] = "expired" /\ UNCHANGED <<port, initialized, call, ret>>
    BY <1>7 DEF Expired
  <2>2. CASE Satisfied(bits, call[t]) /\ Satisfy({t}, bits)
    <3>1. bits \cup {} = bits /\ {} \in SUBSET Mask /\ {t} \in SUBSET Threads
      OBVIOUS
    <3>2. Group!Serve({}, {t})
      BY <2>1, <2>2, <3>1, SatisfyServes
    <3> QED BY <3>1, <3>2, MasksAreBits DEF Group!Next
  <2>3. CASE /\ pc' = [pc EXCEPT ![t] = "returned"]
             /\ native' = [native EXCEPT ![t] =
                    IF port = "freertos" THEN [ok |-> FALSE, bits |-> bits] ELSE Unsatisfied]
             /\ UNCHANGED bits
    <3>1. \A u \in Threads \ {t} : pc'[u] = pc[u] /\ native'[u] = native[u]
      BY <2>3 DEF IInv, TypeOK
    <3>2. native'[t].ok = FALSE
      BY <2>3 DEF Unsatisfied, IInv, TypeOK
    <3>3. served(t) = None /\ served(t)' = None
      BY <2>1, <3>2 DEF served
    <3>4. \A u \in Threads : served(u)' = served(u)
      BY <2>1, <3>1, <3>3 DEF served, received
    <3> QED BY <2>1, <2>3, <3>4, NothingShown
  <2> QED BY <1>7, <2>2, <2>3 DEF Expired
<1>8. ASSUME NEW t \in Threads, os_event_wait_return(t)
      PROVE  Group!Return(t)
  <2> DEFINE e == IF (port = "rtthread" /\ status(t)) \/ (port # "rtthread" /\ matched(t))
                  THEN "none"
                  ELSE IF call[t].timeout = "zero" THEN "EBUSY" ELSE "ETIMEDOUT"
  <2>1. /\ pc[t] = "returned"
        /\ ret' = [ret EXCEPT ![t] = [error |-> e, received |-> received(t)]]
        /\ pc' = [pc EXCEPT ![t] = "idle"] /\ call' = [call EXCEPT ![t] = None]
        /\ native' = [native EXCEPT ![t] = Unsatisfied]
        /\ UNCHANGED bits
    BY <1>8 DEF os_event_wait_return
  <2>2. call[t] \in Accepted /\ call[t] # None
    BY <1>0, <2>1, AcceptedCall
  <2>3. matched(t) <=> Satisfied(native[t].bits, call[t])
    BY DEF matched, received, Satisfied
  <2>4. native[t].ok = TRUE <=> Satisfied(native[t].bits, call[t])
    BY <2>1 DEF IInv, OutcomesAgree
  <2>5. native[t].ok \in BOOLEAN
    BY DEF IInv, TypeOK
  <2>6. e = "none" <=> native[t].ok = TRUE
    BY <2>3, <2>4, <2>5 DEF status
  <2>7. received(t) \in SUBSET Mask /\ received(t) # None
    BY MaskAssumption, NoneAssumption DEF received, IInv, TypeOK
  <2>8. served(t) = IF native[t].ok THEN received(t) ELSE None
    BY <2>1 DEF served
  <2>9. [u \in Threads |-> served(u)'] = [[u \in Threads |-> served(u)] EXCEPT ![t] = None]
    <3>1. \A u \in Threads \ {t} : pc'[u] = pc[u] /\ call'[u] = call[u] /\ native'[u] = native[u]
      BY <2>1 DEF IInv, TypeOK
    <3>2. served(t)' = None
      BY <2>1 DEF served, IInv, TypeOK
    <3>3. \A u \in Threads \ {t} : served(u)' = served(u)
      BY <3>1 DEF served, received
    <3> QED BY <3>2, <3>3
  <2> HIDE DEF e
  <2>10. [error |-> e, received |-> received(t)] # None
    <3>1. e \in {"none", "EBUSY", "ETIMEDOUT"}
      BY DEF e
    <3>2. [error |-> e, received |-> received(t)] \in Returns
      BY <2>7, <3>1 DEF Returns
    <3> QED BY <3>2, NoneAssumption
  <2>11. \A u \in Threads \ {t} : returned(u)' = returned(u)
    BY <2>1 DEF returned, IInv, TypeOK
  <2>12. returned(t)' = [error |-> e,
                         received |-> IF e = "none" THEN received(t) ELSE {}]
    <3>1. ret'[t] = [error |-> e, received |-> received(t)]
      BY <2>1 DEF IInv, TypeOK
    <3> QED BY <2>10, <3>1 DEF returned
  <2>13. [u \in Threads |-> returned(u)'] =
            [[u \in Threads |-> returned(u)] EXCEPT ![t] =
                [error |-> e, received |-> IF e = "none" THEN received(t) ELSE {}]]
    BY <2>11, <2>12
  <2>14. CASE native[t].ok = TRUE
    <3>1. e = "none" /\ served(t) = received(t)
      BY <2>6, <2>8, <2>14
    <3> QED BY <2>1, <2>2, <2>7, <2>9, <2>13, <3>1 DEF Group!Return, served, returned
  <2>15. CASE native[t].ok # TRUE
    <3>1. /\ e = IF call[t].timeout = "zero" THEN "EBUSY" ELSE "ETIMEDOUT"
          /\ e # "none" /\ served(t) = None
      BY <2>5, <2>6, <2>8, <2>15 DEF e
    <3>2. call[t].timeout # "forever"
      BY <2>1, <2>15 DEF IInv, OutcomesAgree
    <3> QED BY <2>1, <2>2, <2>9, <2>13, <3>1, <3>2 DEF Group!Return, served, returned
  <2> QED BY <2>14, <2>15
<1>9. CASE UNCHANGED vars
  BY <1>9 DEF vars, evars, Group!vars, received
<1> QED BY <1>1, <1>2, <1>3, <1>4, <1>5, <1>6, <1>7, <1>8, <1>9 DEF Next, Step, Group!Next

(***************************************************************************)
(* Refinement: where applications do not wait with clear on Zephyr, the    *)
(* three ports are the event group of kernel.h.  A wait that succeeds      *)
(* returns the requested bits that were set at one moment of the call and  *)
(* takes exactly those; one that times out at the same moment takes none.  *)
(***************************************************************************)
THEOREM IsEventGroup ==
    ASSUME "zephyr" \notin Clearing
    PROVE  Spec => ImplementsEventGroup
<1>1. Init => Group!Init
  BY DEF Init, Group!Init
<1>2. IInv /\ [Next]_vars => [Group!Next]_(Group!vars)
  BY GroupStep
<1> QED BY <1>1, <1>2, Invariance, PTL DEF Spec, ImplementsEventGroup, Group!Spec
=============================================================================
