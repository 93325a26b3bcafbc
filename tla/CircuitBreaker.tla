--------------------------- MODULE CircuitBreaker ---------------------------
(***************************************************************************)
(* The circuit breaker of internal/mirror/retry.go and the goroutines that *)
(* call RetryWithCircuitBreaker on it.  Every method runs under cb.mu, so  *)
(* a method is one step; the function it protects runs outside, and its    *)
(* result is recorded in whatever state the breaker is in by then.         *)
(*                                                                         *)
(* Time is one bit: whether ResetTimeout has passed since lastFailureTime. *)
(* The failure counter is only compared with FailureThreshold and stops    *)
(* there.                                                                  *)
(***************************************************************************)
EXTENDS Integers, FiniteSets

CONSTANTS
    Callers,            \* goroutines
    FailureThreshold,   \* cfg.FailureThreshold
    HalfOpenMaxProbes,  \* cfg.HalfOpenMaxProbes
    MaxRetries          \* retryCfg.MaxRetries

ASSUME BreakerAssumption ==
    /\ FailureThreshold \in Nat \ {0}
    /\ HalfOpenMaxProbes \in Nat \ {0}
    /\ MaxRetries \in Nat

VARIABLES
    state,      \* "closed", "half-open" or "open"
    failures,   \* cb.failures
    successes,  \* cb.successes
    expired,    \* time.Since(cb.lastFailureTime) >= ResetTimeout
    pc,         \* pc[c]: "idle", "retry" (before an attempt) or "fn"
    attempt,    \* attempt[c]: attempt number of Retry
    probing,    \* probing[c]: the running fn of c was let through half-open
    probes      \* history: successes counted half-open that were probes

breakerVars == <<state, failures, successes, expired>>
vars == <<breakerVars, pc, attempt, probing, probes>>

\* Type invariant: fewer successes are counted than close the breaker.
TypeOK ==
    /\ state \in {"closed", "half-open", "open"}
    /\ failures \in 0 .. FailureThreshold
    /\ successes \in 0 .. HalfOpenMaxProbes - 1
    /\ expired \in BOOLEAN
    /\ pc \in [Callers -> {"idle", "retry", "fn"}]
    /\ attempt \in [Callers -> 0 .. MaxRetries]
    /\ probing \in [Callers -> BOOLEAN]
    /\ probes \in 0 .. successes

Init ==
    /\ state = "closed"
    /\ failures = 0
    /\ successes = 0
    /\ expired = TRUE
    /\ pc = [c \in Callers |-> "idle"]
    /\ attempt = [c \in Callers |-> 0]
    /\ probing = [c \in Callers |-> FALSE]
    /\ probes = 0

\* checkStateTransition, called by Allow: the state Allow looks at.
Transition == state = "open" /\ expired
Checked == IF Transition THEN "half-open" ELSE state

\* Allow: true unless the breaker is open.
Allow_Mutant(allowed) ==
    /\ allowed = (state # "open")
    /\ UNCHANGED <<breakerVars, probes>>
Allow(allowed) ==
    /\ allowed = (Checked # "open")
    /\ state' = Checked
    /\ successes' = IF Transition THEN 0 ELSE successes
    /\ probes' = IF Transition THEN 0 ELSE probes
    /\ UNCHANGED <<failures, expired>>

\* The success being recorded is the last one the half-open breaker waits for.
LastProbe_Mutant == successes + 1 > HalfOpenMaxProbes
LastProbe == successes + 1 >= HalfOpenMaxProbes

\* RecordSuccess: nothing happens to an open breaker.
RecordSuccess_Mutant(c) ==
    /\ state' = IF state = "half-open" /\ LastProbe THEN "closed" ELSE state
    /\ successes' = IF state = "half-open" /\ ~LastProbe THEN successes + 1 ELSE 0
    /\ probes' = 0
    /\ UNCHANGED <<failures, expired>>
RecordSuccess(c) ==
    \/ /\ state = "closed"
       /\ failures' = 0
       /\ UNCHANGED <<state, successes, expired, probes>>
    \/ /\ state = "half-open" /\ LastProbe
       /\ state' = "closed"
       /\ failures' = 0
       /\ successes' = 0
       /\ probes' = 0
       /\ UNCHANGED expired
    \/ /\ state = "half-open" /\ ~LastProbe
       /\ successes' = successes + 1
       /\ probes' = probes + (IF probing[c] THEN 1 ELSE 0)
       /\ UNCHANGED <<state, failures, expired>>
    \/ /\ state = "open"
       /\ UNCHANGED <<breakerVars, probes>>

\* RecordFailure.
RecordFailure_Mutant ==
    /\ expired' = FALSE
    /\ failures' = IF failures < FailureThreshold THEN failures + 1 ELSE failures
    /\ state' = IF state = "half-open" \/ (state = "closed" /\ failures + 1 >= FailureThreshold)
                THEN "open" ELSE state
    /\ UNCHANGED <<successes, probes>>
RecordFailure ==
    /\ expired' = FALSE
    /\ failures' = IF failures < FailureThreshold THEN failures + 1 ELSE failures
    /\ state' = IF state = "half-open" \/ (state = "closed" /\ failures + 1 >= FailureThreshold)
                THEN "open" ELSE state
    /\ IF state = "half-open"
       THEN successes' = 0 /\ probes' = 0
       ELSE UNCHANGED <<successes, probes>>

Goto(c, label) == pc' = [pc EXCEPT ![c] = label]

\* RetryWithCircuitBreaker is called: rejected at once, or into Retry.
Enter(c) ==
    /\ pc[c] = "idle"
    /\ \E allowed \in BOOLEAN :
         /\ Allow(allowed)
         /\ Goto(c, IF allowed THEN "retry" ELSE "idle")
    /\ attempt' = [attempt EXCEPT ![c] = 0]
    /\ UNCHANGED probing

\* An attempt failed: Retry goes on after a backoff, or returns the error.
AttemptFailed(c) ==
    \/ /\ attempt[c] < MaxRetries
       /\ attempt' = [attempt EXCEPT ![c] = @ + 1]
       /\ Goto(c, "retry")
       /\ UNCHANGED <<breakerVars, probes>>
    \/ /\ Goto(c, "idle")      \* the last attempt, or the context is cancelled
       /\ RecordFailure
       /\ UNCHANGED attempt

\* The breaker lets an attempt through.
Admitted(c) ==
    /\ pc[c] = "retry"
    /\ Allow(TRUE)
    /\ Goto(c, "fn")
    /\ probing' = [probing EXCEPT ![c] = (state' = "half-open")]
    /\ UNCHANGED attempt

\* The breaker is open: ErrCircuitOpen is the result of the attempt.
Rejected(c) ==
    /\ pc[c] = "retry"
    /\ Checked = "open"
    /\ AttemptFailed(c)
    /\ UNCHANGED probing

\* Retry finds its context cancelled before an attempt.
Abandoned(c) ==
    /\ pc[c] = "retry"
    /\ Goto(c, "idle")
    /\ RecordFailure
    /\ UNCHANGED <<attempt, probing>>

\* fn returns.
Succeeded(c) ==
    /\ pc[c] = "fn"
    /\ Goto(c, "idle")
    /\ RecordSuccess(c)
    /\ UNCHANGED <<attempt, probing>>

Failed(c) ==
    /\ pc[c] = "fn"
    /\ AttemptFailed(c)
    /\ UNCHANGED probing

\* ResetTimeout passes.
Tick ==
    /\ ~expired
    /\ expired' = TRUE
    /\ UNCHANGED <<state, failures, successes, pc, attempt, probing, probes>>

\* Reset.
Reset ==
    /\ state' = "closed"
    /\ failures' = 0
    /\ successes' = 0
    /\ probes' = 0
    /\ UNCHANGED <<expired, pc, attempt, probing>>

\* State: reading the state may move it, as Allow does.
State ==
    /\ Allow(Checked # "open")
    /\ UNCHANGED <<pc, attempt, probing>>

CallerStep(c) ==
    Enter(c) \/ Admitted(c) \/ Rejected(c) \/ Abandoned(c) \/ Succeeded(c) \/ Failed(c)

Next == (\E c \in Callers : CallerStep(c)) \/ State \/ Tick \/ Reset

Spec == Init /\ [][Next]_vars

\* Time passes, a protected function returns, and callers keep calling.
FairSpec == Spec /\ WF_vars(Tick) /\ \A c \in Callers : WF_vars(CallerStep(c))

(***************************************************************************)
(* Properties.                                                             *)
(***************************************************************************)

\* A breaker that is closed again starts from no failures and trips only on
\* FailureThreshold of them: the counter, which goes on counting while the
\* breaker is open and half-open, never leaves it closed at the threshold.
ClosedBelowThreshold == state = "closed" => failures < FailureThreshold

\* Successes are counted half-open only: no count survives a trip or a
\* re-closing to shorten a later half-open phase.
SuccessesOnlyHalfOpen == state # "half-open" => successes = 0

\* An open breaker does not stay open for ever: results that arrive late and
\* push lastFailureTime forward cannot keep it from letting a call through.
OpenEnds == state = "open" ~> state # "open"

\* What retry.go:94 says of the half-open state: "a single probe is allowed".
SingleProbe ==
    state = "half-open" => Cardinality({c \in Callers : pc[c] = "fn" /\ probing[c]}) <= 1

\* What retry.go:122 says: HalfOpenMaxProbes successful probes close the breaker;
\* every success counted half-open is the result of a call let through half-open.
ClosedByProbes == probes = successes
=============================================================================
