------------------------ MODULE CircuitBreakerProofs ------------------------
(***************************************************************************)
(* Theorems about CircuitBreaker for any number of clients, any thresholds,*)
(* timeout and retries, and any choice of counted and retryable errors.    *)
(***************************************************************************)
EXTENDS CircuitBreaker, TLAPS

\* The counters stay below what would have moved the state.
BelowThresholds ==
  /\ state = "closed" => failures < FailureThreshold
  /\ state = "half" => successes < SuccessThreshold

\* The counters and the clock of the breaker against the history: no recorded
\* failure is made up, the successes of a half-open circuit were answered without
\* an error since it became half-open unless a QueryRow hid one, and an open
\* circuit opened no later than its last failure.
CountersMatch ==
  /\ failures <= realFails
  /\ state = "half" /\ ~hidden => successes <= okRun
  /\ state = "open" => age <= openFor

\* Unless a failed QueryRow was taken for a success, every result since the
\* last real success was recorded for what it is.
ExactCount == ~blind => realFails = failures

\* WithRetry waits only when it has an attempt left.
AttemptsLeft == \A c \in Clients : pc[c] = "backoff" => attempt[c] < MaxRetries

BreakerInv == TypeOK /\ BelowThresholds /\ CountersMatch /\ ExactCount /\ AttemptsLeft

LEMMA BumpType ==
  ASSUME NEW n \in 0 .. MaxCount
  PROVE  Bump(n) \in 0 .. MaxCount /\ (Bump(n) = n + 1 \/ (Bump(n) = MaxCount /\ n = MaxCount))
  BY ThresholdsAssumption DEF Bump, Min2

LEMMA InitBreakerInv == Init => BreakerInv
<1> SUFFICES ASSUME Init PROVE BreakerInv
    OBVIOUS
<1>1. blind \in BOOLEAN /\ hidden \in BOOLEAN
    BY DEF Init
<1>2. TypeOK
    BY <1>1, ThresholdsAssumption, RetriesAssumption DEF Init, TypeOK
<1>3. BelowThresholds /\ CountersMatch /\ ExactCount
    BY ThresholdsAssumption DEF Init, BelowThresholds, CountersMatch, ExactCount
<1>4. AttemptsLeft
    BY DEF Init, AttemptsLeft
<1> QED BY <1>2, <1>3, <1>4 DEF BreakerInv

LEMMA BreakerInvStep == BreakerInv /\ [Next]_vars => BreakerInv'
<1> SUFFICES ASSUME BreakerInv, [Next]_vars PROVE BreakerInv'
    OBVIOUS
<1> USE ThresholdsAssumption DEF BreakerInv
<1>1. ASSUME NEW c \in Clients, NEW k \in Kinds, Start(c, k) PROVE BreakerInv'
    BY <1>1, KindsAssumption, RetriesAssumption
    DEF Start, breaker, history, TypeOK, BelowThresholds, CountersMatch, ExactCount, AttemptsLeft
<1>2. ASSUME NEW c \in Clients, Admit(c) PROVE BreakerInv'
    <2>1. hidden' \in BOOLEAN
        BY <1>2 DEF Admit, TypeOK
    <2>2. TypeOK'
        BY <1>2, <2>1 DEF Admit, SetState, TypeOK
    <2>3. BelowThresholds' /\ CountersMatch'
        BY <1>2 DEF Admit, SetState, TypeOK, BelowThresholds, CountersMatch
    <2>4. ExactCount'
        BY <1>2 DEF Admit, SetState, ExactCount
    <2>5. AttemptsLeft'
        BY <1>2 DEF Admit, TypeOK, AttemptsLeft
    <2> QED BY <2>2, <2>3, <2>4, <2>5
<1>3. ASSUME NEW c \in Clients, Reject(c) \/ Cancelled(c) PROVE BreakerInv'
    BY <1>3 DEF Reject, Cancelled, breaker, history, TypeOK, BelowThresholds,
                CountersMatch, ExactCount, AttemptsLeft
<1>4. ASSUME NEW c \in Clients, NEW o \in {"ok"} \cup Errors, Answer(c, o)
      PROVE  BreakerInv'
    BY <1>4 DEF Answer, breaker, history, TypeOK, BelowThresholds, CountersMatch, ExactCount, AttemptsLeft
<1>5. ASSUME NEW c \in Clients, RecordSuccess(c) PROVE BreakerInv'
    <2>1. /\ Bump(successes) \in 0 .. MaxCount
          /\ Bump(okRun) \in 0 .. MaxCount
          /\ Bump(realFails) \in 0 .. MaxCount
          /\ successes <= okRun => Bump(successes) <= Bump(okRun)
        BY BumpType DEF TypeOK
    <2>2. TypeOK'
        BY <1>5, <2>1 DEF RecordSuccess, SetState, AfterAttempt, TypeOK
    <2>3. BelowThresholds' /\ failures' <= realFails' /\ (state' = "open" => age' <= openFor')
        BY <1>5, <2>1, <2>2
        DEF RecordSuccess, SetState, TypeOK, BelowThresholds, CountersMatch
    <2>4. ASSUME state' = "half", ~hidden' PROVE successes' <= okRun'
        <3>1. state = "half"
            BY <1>5, <2>4 DEF RecordSuccess, SetState
        <3>2. ~hidden /\ out[c] = "ok"
            BY <1>5, <2>4, <3>1 DEF RecordSuccess
        <3>3. successes' = Bump(successes) /\ okRun' = Bump(okRun)
            BY <1>5, <2>4, <3>1, <3>2 DEF RecordSuccess, SetState
        <3> QED BY <2>1, <3>1, <3>2, <3>3 DEF CountersMatch
    <2>5. CountersMatch'
        BY <2>3, <2>4 DEF CountersMatch
    <2>6. ExactCount'
        BY <1>5 DEF RecordSuccess, SetState, ExactCount
    <2>7. AttemptsLeft'
        BY <1>5 DEF RecordSuccess, AfterAttempt, TypeOK, AttemptsLeft
    <2> QED BY <2>2, <2>3, <2>6, <2>7, <2>5
<1>6. ASSUME NEW c \in Clients, RecordFailure(c) PROVE BreakerInv'
    <2>1. CASE out[c] \in Counted
        <3>1. /\ Bump(failures) \in 0 .. MaxCount
              /\ Bump(realFails) \in 0 .. MaxCount
              /\ Bump(failures) <= Bump(realFails)
            BY BumpType DEF TypeOK, CountersMatch
        <3>2. Failed(c) /\ AfterAttempt(c) /\ UNCHANGED <<kind, out, attempt, dbUp>>
            BY <1>6, <2>1 DEF RecordFailure
        <3>3. hidden' \in BOOLEAN
            BY <3>2 DEF Failed
        <3>4. TypeOK'
            BY <3>3, <3>1, <3>2 DEF Failed, SetState, AfterAttempt, TypeOK
        <3>5. BelowThresholds' /\ CountersMatch'
            BY <3>1, <3>2, <3>4 DEF Failed, SetState, TypeOK, BelowThresholds, CountersMatch
        <3>6. ExactCount'
            BY <3>2 DEF Failed, SetState, ExactCount
        <3>7. AttemptsLeft'
            BY <3>2 DEF AfterAttempt, TypeOK, AttemptsLeft
        <3> QED BY <3>4, <3>5, <3>6, <3>7
    <2>2. CASE out[c] \notin Counted
        BY <1>6, <2>2 DEF RecordFailure, AfterAttempt, breaker, history, TypeOK,
                          BelowThresholds, CountersMatch, ExactCount, AttemptsLeft
    <2> QED BY <2>1, <2>2
<1>7. ASSUME NEW c \in Clients, NextAttempt(c) PROVE BreakerInv'
    BY <1>7, RetriesAssumption
    DEF NextAttempt, breaker, history, TypeOK, BelowThresholds, CountersMatch,
        ExactCount, AttemptsLeft
<1>8. CASE Reset
    <2>1. blind' \in BOOLEAN /\ hidden' \in BOOLEAN
        BY <1>8 DEF Reset
    <2>2. TypeOK'
        BY <1>8, <2>1 DEF Reset, calls, TypeOK
    <2>3. BelowThresholds' /\ CountersMatch' /\ ExactCount'
        BY <1>8 DEF Reset, BelowThresholds, CountersMatch, ExactCount
    <2>4. AttemptsLeft'
        BY <1>8 DEF Reset, calls, AttemptsLeft
    <2> QED BY <2>2, <2>3, <2>4
<1>9. CASE Tick
    BY <1>9 DEF Tick, calls, Min2, TypeOK, BelowThresholds, CountersMatch, ExactCount, AttemptsLeft
<1>10. CASE Outage
    BY <1>10 DEF Outage, breaker, calls, history, TypeOK, BelowThresholds,
                 CountersMatch, ExactCount, AttemptsLeft
<1>11. CASE UNCHANGED vars
    BY <1>11 DEF vars, breaker, calls, history, TypeOK, BelowThresholds,
                 CountersMatch, ExactCount, AttemptsLeft
<1> QED BY <1>1, <1>2, <1>3, <1>4, <1>5, <1>6, <1>7, <1>8, <1>9, <1>10, <1>11
        DEF Next, Begin, CallStep, Record

LEMMA BreakerInvHolds == Spec => []BreakerInv
<1> QED BY InitBreakerInv, BreakerInvStep, PTL DEF Spec

-----------------------------------------------------------------------------
\* Types hold, and WithRetry never makes more than MaxRetries + 1 attempts.
THEOREM TypeCorrect == Spec => []TypeOK
<1>1. BreakerInv => TypeOK
    BY DEF BreakerInv
<1> QED BY <1>1, BreakerInvHolds, PTL

\* The circuit is closed only while fewer than FailureThreshold calls in a row
\* have failed, unless a QueryRow that failed was recorded as a success.
THEOREM TripsOnThreshold == Spec => []TripsInTime
<1>1. BreakerInv => TripsInTime
    BY DEF BreakerInv, ExactCount, BelowThresholds, TripsInTime
<1> QED BY <1>1, BreakerInvHolds, PTL

\* The circuit opens only on FailureThreshold real failures in a row.
THEOREM OpensOnFailures == Spec => OpensOnlyOnFailures
<1>1. BreakerInv /\ [Next]_vars =>
        [state = "closed" /\ state' = "open" => realFails' >= FailureThreshold]_vars
    <2> SUFFICES ASSUME BreakerInv, [Next]_vars, state = "closed", state' = "open"
                 PROVE  realFails' >= FailureThreshold
        OBVIOUS
    <2>1. BreakerInv'
        BY BreakerInvStep
    <2>2. failures' >= FailureThreshold
        <3>1. PICK c \in Clients : RecordFailure(c) /\ out[c] \in Counted
            BY DEF Next, Begin, Start, CallStep, Admit, Reject, Answer, Record,
                   RecordSuccess, RecordFailure, NextAttempt, Cancelled, Reset, Tick,
                   Outage, SetState, vars, breaker
        <3> QED BY <3>1 DEF RecordFailure, Failed, SetState
    <2> QED BY <2>1, <2>2, ThresholdsAssumption DEF BreakerInv, CountersMatch, TypeOK
<1> QED BY <1>1, BreakerInvHolds, PTL DEF Spec, OpensOnlyOnFailures

\* The circuit stays open for at least Timeout after it opened.
THEOREM OpenForTimeout == Spec => StaysOpenForTimeout
<1>1. BreakerInv /\ [Next]_vars =>
        [state = "open" /\ state' = "half" => openFor >= Timeout]_vars
    <2> SUFFICES ASSUME BreakerInv, [Next]_vars, state = "open", state' = "half"
                 PROVE  openFor >= Timeout
        OBVIOUS
    <2>1. PICK c \in Clients : Admit(c)
        BY DEF Next, Begin, Start, CallStep, Admit, Reject, Answer, Record,
               RecordSuccess, RecordFailure, Failed, NextAttempt, Cancelled, Reset, Tick,
               Outage, SetState, vars, breaker
    <2> QED BY <2>1, ThresholdsAssumption DEF Admit, BreakerInv, CountersMatch, TypeOK
<1> QED BY <1>1, BreakerInvHolds, PTL DEF Spec, StaysOpenForTimeout

\* A half-open circuit closes only after the database has answered
\* SuccessThreshold calls in a row without an error since it became half-open,
\* unless a QueryRow hid an error in between, or by Reset.
THEOREM ClosesOnSuccesses == Spec => ClosesOnlyOnSuccesses
<1>1. BreakerInv /\ [Next]_vars =>
        [state = "half" /\ state' = "closed" /\ ~Reset =>
           hidden' \/ okRun' >= SuccessThreshold]_vars
    <2> SUFFICES ASSUME BreakerInv, [Next]_vars, state = "half", state' = "closed",
                        ~Reset, ~hidden'
                 PROVE  okRun' >= SuccessThreshold
        OBVIOUS
    <2>1. PICK c \in Clients : RecordSuccess(c)
        BY DEF Next, Begin, Start, CallStep, Admit, Reject, Answer, Record,
               RecordFailure, Failed, NextAttempt, Cancelled, Tick,
               Outage, SetState, vars, breaker
    <2>2. Bump(successes) >= SuccessThreshold
        BY <2>1 DEF RecordSuccess, SetState
    <2>3. ~hidden /\ okRun' = Bump(okRun)
        BY <2>1 DEF RecordSuccess
    <2>4. successes <= okRun /\ successes \in 0 .. MaxCount /\ okRun \in 0 .. MaxCount
        BY <2>3 DEF BreakerInv, CountersMatch, TypeOK
    <2> QED BY <2>2, <2>3, <2>4, ThresholdsAssumption DEF Bump, Min2
<1> QED BY <1>1, BreakerInvHolds, PTL DEF Spec, ClosesOnlyOnSuccesses
=============================================================================
