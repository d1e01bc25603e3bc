--------------------------- MODULE CircuitBreaker ---------------------------
(***************************************************************************)
(* The circuit breaker of package core (core/circuit_breaker.go), shared   *)
(* by the goroutines that call CircuitBreakerExecutor, each inside         *)
(* WithRetry.  Allow, RecordSuccess, RecordFailure and Reset run under     *)
(* cb.mu and are one step each; between Allow and the record of its result *)
(* the lock is free, so results arrive late and in any order.              *)
(***************************************************************************)
EXTENDS Integers

CONSTANTS
  Clients,          \* goroutines that call the executor
  Kinds,            \* calls they make: "exec" (Exec, Query) or "row" (QueryRow)
  Counted,          \* errors for which IsFailure holds
  Retryable,        \* errors for which IsRetryable holds
  FailureThreshold, SuccessThreshold, Timeout,   \* CircuitBreakerConfig
  MaxRetries,       \* RetryConfig
  MaxCount          \* the counters stop here; any value above both thresholds

\* "down": the database cannot be reached.  "refused": it answers with an
\* error, such as a violated constraint.
Errors == {"down", "refused"}

ASSUME KindsAssumption == Kinds \subseteq {"exec", "row"}
ASSUME ErrorsAssumption == Counted \subseteq Errors /\ Retryable \subseteq Errors
ASSUME RetriesAssumption == MaxRetries \in Nat
\* NewCircuitBreaker replaces thresholds and a timeout that are not positive.
ASSUME ThresholdsAssumption ==
  /\ FailureThreshold \in Nat \ {0}
  /\ SuccessThreshold \in Nat \ {0}
  /\ Timeout \in Nat \ {0}
  /\ MaxCount \in Nat /\ MaxCount >= FailureThreshold /\ MaxCount >= SuccessThreshold

VARIABLES
  state,      \* cb.state
  failures,   \* cb.failures
  successes,  \* cb.successes
  age,        \* time.Since(cb.lastFailureTime), cut at Timeout
  pc,         \* where each client is
  kind,       \* the call each client makes
  out,        \* the answer of the database to it
  attempt,    \* attempt of WithRetry
  dbUp,       \* can the database be reached?
  realFails,  \* history: calls in a row that really failed with a counted error
  blind,      \* history: has a QueryRow that failed been recorded since the last
              \* real success?
  okRun,      \* history: calls in a row that the database answered without an
              \* error, recorded since half-open began
  hidden,     \* history: has a QueryRow that failed been recorded since then?
  openFor     \* history: time since the circuit last opened, cut at Timeout

breaker == <<state, failures, successes, age>>
calls == <<pc, kind, out, attempt>>
history == <<realFails, blind, okRun, hidden, openFor>>
vars == <<breaker, calls, dbUp, history>>

Min2(a, b) == IF a < b THEN a ELSE b
Bump(n) == Min2(n + 1, MaxCount)

-----------------------------------------------------------------------------
Init ==
  /\ state = "closed" /\ failures = 0 /\ successes = 0
  /\ age = Timeout      \* the zero time.Time is far in the past
  /\ pc = [c \in Clients |-> "idle"]
  /\ kind = [c \in Clients |-> "exec"]
  /\ out = [c \in Clients |-> "ok"]
  /\ attempt = [c \in Clients |-> 0]
  /\ dbUp = TRUE
  /\ realFails = 0 /\ blind = FALSE /\ okRun = 0 /\ hidden = FALSE /\ openFor = Timeout

\* Mutated form of setState: the successes of the last state are kept.
SetStateKeepsSuccesses(to, fails, oks) ==
  /\ state' = to
  /\ successes' = oks
  /\ failures' = IF to # state /\ to = "closed" THEN 0 ELSE fails

\* setState, called with the counters as the caller has just set them.
SetState(to, fails, oks) ==
  /\ state' = to
  /\ successes' = IF to # state THEN 0 ELSE oks
  /\ failures' = IF to # state /\ to = "closed" THEN 0 ELSE fails

\* A client calls WithRetry around one call of the executor.
Start(c, k) ==
  /\ pc[c] = "idle"
  /\ pc' = [pc EXCEPT ![c] = "call"]
  /\ kind' = [kind EXCEPT ![c] = k]
  /\ attempt' = [attempt EXCEPT ![c] = 0]
  /\ UNCHANGED <<breaker, out, dbUp, history>>

\* Allow says yes: always when closed or half-open; when open, once Timeout
\* has passed since the last failure, and then the circuit is half-open.
Admit(c) ==
  /\ pc[c] = "call"
  /\ state = "open" => age >= Timeout
  /\ SetState(IF state = "open" THEN "half" ELSE state, failures, successes)
  /\ IF state = "open" THEN okRun' = 0 /\ hidden' = FALSE ELSE UNCHANGED <<okRun, hidden>>
  /\ pc' = [pc EXCEPT ![c] = "flight"]
  /\ UNCHANGED <<age, kind, out, attempt, dbUp, realFails, blind, openFor>>

\* Allow says no: ErrCircuitOpen (which DefaultIsRetryable does not retry) or,
\* from QueryRowContext, a nil row.  The client gives up.
Reject(c) ==
  /\ pc[c] = "call"
  /\ state = "open" /\ age < Timeout
  /\ pc' = [pc EXCEPT ![c] = "idle"]
  /\ UNCHANGED <<breaker, kind, out, attempt, dbUp, history>>

\* The database, or the driver, answers the call.
Answer(c, o) ==
  /\ pc[c] = "flight"
  /\ o \in (IF dbUp THEN {"ok", "refused"} ELSE {"down"})
  /\ out' = [out EXCEPT ![c] = o]
  /\ pc' = [pc EXCEPT ![c] = "record"]
  /\ UNCHANGED <<breaker, kind, attempt, dbUp, history>>

\* After the record WithRetry returns, or waits before another attempt.
AfterAttempt(c) ==
  pc' = [pc EXCEPT ![c] =
    IF out[c] \in Retryable /\ attempt[c] < MaxRetries THEN "backoff" ELSE "idle"]

\* Mutated form of RecordSuccess: the failures are not forgotten.
RecordSuccessKeepsFailures(c) ==
  /\ pc[c] = "record"
  /\ out[c] = "ok" \/ kind[c] = "row"
  /\ LET oks == Bump(successes)
     IN  SetState(IF state = "half" /\ oks >= SuccessThreshold
                  THEN "closed" ELSE state, failures, oks)
  /\ realFails' = IF out[c] = "ok" THEN 0
                  ELSE IF out[c] \in Counted THEN Bump(realFails) ELSE realFails
  /\ blind' = (out[c] # "ok")
  /\ okRun' = IF out[c] = "ok" THEN Bump(okRun) ELSE okRun
  /\ hidden' = (state = "half" /\ (hidden \/ out[c] # "ok"))
  /\ AfterAttempt(c)
  /\ UNCHANGED <<age, kind, out, attempt, dbUp, openFor>>

\* RecordSuccess, after an answer without error and after every QueryRow,
\* whose error shows only in Scan.
RecordSuccess(c) ==
  /\ pc[c] = "record"
  /\ out[c] = "ok" \/ kind[c] = "row"
  /\ LET oks == Bump(successes)
     IN  SetState(IF state = "half" /\ oks >= SuccessThreshold
                  THEN "closed" ELSE state, 0, oks)
  /\ realFails' = IF out[c] = "ok" THEN 0
                  ELSE IF out[c] \in Counted THEN Bump(realFails) ELSE realFails
  /\ blind' = (out[c] # "ok")
  /\ okRun' = IF out[c] = "ok" THEN Bump(okRun) ELSE okRun
  /\ hidden' = (state = "half" /\ (hidden \/ out[c] # "ok"))
  /\ AfterAttempt(c)
  /\ UNCHANGED <<age, kind, out, attempt, dbUp, openFor>>

\* Mutated forms of Failed: lastFailureTime is set only while closed; the
\* threshold is passed by one.
FailedKeepsTime(c) ==
  /\ LET fails == Bump(failures)
         to == IF state = "half" \/ (state = "closed" /\ fails >= FailureThreshold)
               THEN "open" ELSE state
     IN  /\ SetState(to, fails, 0)
         /\ openFor' = IF to = "open" /\ state # "open" THEN 0 ELSE openFor
  /\ age' = IF state = "closed" THEN 0 ELSE age
  /\ realFails' = Bump(realFails)
  /\ okRun' = 0 /\ hidden' = FALSE
  /\ UNCHANGED blind
FailedLate(c) ==
  /\ LET fails == Bump(failures)
         to == IF state = "half" \/ (state = "closed" /\ fails > FailureThreshold)
               THEN "open" ELSE state
     IN  /\ SetState(to, fails, 0)
         /\ openFor' = IF to = "open" /\ state # "open" THEN 0 ELSE openFor
  /\ age' = 0
  /\ realFails' = Bump(realFails)
  /\ okRun' = 0 /\ hidden' = FALSE
  /\ UNCHANGED blind

\* The locked part of RecordFailure: closed trips at the threshold, half-open
\* trips at once, open only moves lastFailureTime.
Failed(c) ==
  /\ LET fails == Bump(failures)
         to == IF state = "half" \/ (state = "closed" /\ fails >= FailureThreshold)
               THEN "open" ELSE state
     IN  /\ SetState(to, fails, 0)
         /\ openFor' = IF to = "open" /\ state # "open" THEN 0 ELSE openFor
  /\ age' = 0
  /\ realFails' = Bump(realFails)
  /\ okRun' = 0 /\ hidden' = FALSE
  /\ UNCHANGED blind

\* Mutated form of RecordFailure: IsFailure is not asked.
RecordFailureUnfiltered(c) ==
  /\ pc[c] = "record"
  /\ out[c] # "ok" /\ kind[c] = "exec"
  /\ Failed(c)
  /\ AfterAttempt(c)
  /\ UNCHANGED <<kind, out, attempt, dbUp>>

\* RecordFailure: an error that IsFailure does not count changes nothing.
RecordFailure(c) ==
  /\ pc[c] = "record"
  /\ out[c] # "ok" /\ kind[c] = "exec"
  /\ IF out[c] \in Counted THEN Failed(c) ELSE UNCHANGED <<breaker, history>>
  /\ AfterAttempt(c)
  /\ UNCHANGED <<kind, out, attempt, dbUp>>

\* WithRetry's select: the backoff elapses and the next attempt begins.
NextAttempt(c) ==
  /\ pc[c] = "backoff"
  /\ pc' = [pc EXCEPT ![c] = "call"]
  /\ attempt' = [attempt EXCEPT ![c] = @ + 1]
  /\ UNCHANGED <<breaker, kind, out, dbUp, history>>

\* WithRetry's select: the context is done first.
Cancelled(c) ==
  /\ pc[c] = "backoff"
  /\ pc' = [pc EXCEPT ![c] = "idle"]
  /\ UNCHANGED <<breaker, kind, out, attempt, dbUp, history>>

\* Reset, called by the application.
Reset ==
  /\ state' = "closed" /\ failures' = 0 /\ successes' = 0
  /\ realFails' = 0 /\ blind' = FALSE /\ okRun' = 0 /\ hidden' = FALSE
  /\ UNCHANGED <<age, calls, dbUp, openFor>>

Tick ==
  /\ age < Timeout \/ openFor < Timeout
  /\ age' = Min2(age + 1, Timeout)
  /\ openFor' = Min2(openFor + 1, Timeout)
  /\ UNCHANGED <<state, failures, successes, calls, dbUp, realFails, blind, okRun, hidden>>

\* The database goes down or comes back.
Outage ==
  /\ dbUp' = ~dbUp
  /\ UNCHANGED <<breaker, calls, history>>

Record(c) == RecordSuccess(c) \/ RecordFailure(c)

CallStep(c) ==
  \/ Admit(c) \/ Reject(c) \/ \E o \in {"ok"} \cup Errors : Answer(c, o)
  \/ Record(c) \/ NextAttempt(c) \/ Cancelled(c)

Begin == \E c \in Clients, k \in Kinds : Start(c, k)

Next == Begin \/ (\E c \in Clients : CallStep(c)) \/ Reset \/ Tick \/ Outage

Spec == Init /\ [][Next]_vars

\* A call in progress goes on (the driver answers, the scheduler is fair) and
\* the clock advances.  Nothing is assumed of clients that are idle.
FairSpec == Spec /\ WF_vars(Tick) /\ \A c \in Clients : WF_vars(CallStep(c))

-----------------------------------------------------------------------------
\* Types of the breaker, of the calls in progress and of the history.
TypeOK ==
  /\ state \in {"closed", "open", "half"}
  /\ failures \in 0 .. MaxCount /\ successes \in 0 .. MaxCount
  /\ age \in 0 .. Timeout /\ openFor \in 0 .. Timeout
  /\ pc \in [Clients -> {"idle", "call", "flight", "record", "backoff"}]
  /\ kind \in [Clients -> {"exec", "row"}]
  /\ out \in [Clients -> {"ok"} \cup Errors]
  /\ attempt \in [Clients -> 0 .. MaxRetries]
  /\ dbUp \in BOOLEAN
  /\ blind \in BOOLEAN /\ hidden \in BOOLEAN
  /\ realFails \in 0 .. MaxCount /\ okRun \in 0 .. MaxCount

\* The circuit opens in time: while it is closed, fewer calls in a row than
\* FailureThreshold have really failed, late results and earlier states of the
\* circuit notwithstanding.  A QueryRow that failed blinds it (line 262) until
\* the next real success.
TripsInTime == state = "closed" /\ ~blind => realFails < FailureThreshold

\* The circuit opens from closed only when as many calls in a row really
\* failed, whatever results of older calls were recorded in between.
OpensOnlyOnFailures ==
  [][state = "closed" /\ state' = "open" => realFails' >= FailureThreshold]_vars

\* The circuit stays open for at least Timeout after it opened (line 45): late
\* failures of older calls can only make it longer.
StaysOpenForTimeout ==
  [][state = "open" /\ state' = "half" => openFor >= Timeout]_vars

\* A half-open circuit closes (other than by Reset) only after the database has
\* answered SuccessThreshold calls in a row without an error (line 42), recorded
\* since it became half-open: answers counted before, while closed or open, do
\* not help, nor does an error that is no failure.  A QueryRow that failed does
\* (line 262, see TripsInTime): hidden leaves those closings out.
ClosesOnlyOnSuccesses ==
  [][state = "half" /\ state' = "closed" /\ ~Reset =>
       hidden' \/ okRun' >= SuccessThreshold]_vars

\* Once the database is back for good and calls keep coming, the circuit stops
\* rejecting them, although some still end in errors that are no failures.
StopsRejecting ==
  <>[]dbUp /\ []<><<Begin>>_vars => <>[](state # "open")
=============================================================================
