------------------------ MODULE CircuitBreakerProofs ------------------------
(***************************************************************************)
(* Proofs about CircuitBreaker, for any set of goroutines, any threshold,  *)
(* any number of probes and any number of retries.                         *)
(***************************************************************************)
EXTENDS CircuitBreaker, TLAPS

\* The inductive invariant.  TypeOK alone is not inductive: that fewer successes
\* are counted than close the breaker, and probes among them, rests on the
\* counter being zero whenever a half-open phase begins or ends.
BreakerInv == TypeOK /\ ClosedBelowThreshold /\ SuccessesOnlyHalfOpen

\* The part of the invariant the methods of the breaker change.
CountersOK ==
    /\ state \in {"closed", "half-open", "open"}
    /\ failures \in 0 .. FailureThreshold
    /\ successes \in 0 .. HalfOpenMaxProbes - 1
    /\ expired \in BOOLEAN
    /\ probes \in 0 .. successes
    /\ ClosedBelowThreshold
    /\ SuccessesOnlyHalfOpen

\* Allow, and with it State, moves an expired open breaker to half-open with
\* both counts at zero.
LEMMA AllowKeeps ==
    ASSUME CountersOK, NEW allowed, Allow(allowed)
    PROVE  CountersOK'
BY BreakerAssumption DEF CountersOK, Allow, Checked, Transition, ClosedBelowThreshold,
                         SuccessesOnlyHalfOpen

\* RecordSuccess counts half-open only, and closes the breaker without counts.
LEMMA RecordSuccessKeeps ==
    ASSUME CountersOK, NEW c \in Callers, probing \in [Callers -> BOOLEAN], RecordSuccess(c)
    PROVE  CountersOK'
<1> USE BreakerAssumption DEF CountersOK, ClosedBelowThreshold, SuccessesOnlyHalfOpen
<1>1. CASE state = "closed"
  BY <1>1 DEF RecordSuccess
<1>2. CASE state = "half-open" /\ LastProbe
  BY <1>2 DEF RecordSuccess
<1>3. CASE state = "half-open" /\ ~LastProbe
  BY <1>3 DEF RecordSuccess, LastProbe
<1>4. CASE state = "open"
  BY <1>4 DEF RecordSuccess, breakerVars
<1> QED
  BY <1>1, <1>2, <1>3, <1>4

\* RecordFailure trips a closed breaker at the threshold, a half-open one at once,
\* and leaves an open one open.
LEMMA RecordFailureKeeps ==
    ASSUME CountersOK, RecordFailure
    PROVE  CountersOK'
<1> USE BreakerAssumption DEF CountersOK, ClosedBelowThreshold, SuccessesOnlyHalfOpen
<1>0. expired' \in BOOLEAN
  BY Zenon DEF RecordFailure
<1>1. failures' \in 0 .. FailureThreshold
  BY DEF RecordFailure
<1>2. CASE state = "half-open" \/ (state = "closed" /\ failures + 1 >= FailureThreshold)
  <2>1. state' = "open" /\ successes' = 0 /\ probes' \in 0 .. successes'
    BY <1>2 DEF RecordFailure
  <2> QED
    BY <1>0, <1>1, <2>1
<1>3. CASE ~(state = "half-open" \/ (state = "closed" /\ failures + 1 >= FailureThreshold))
  <2>1. UNCHANGED <<state, successes, probes>>
    BY <1>3 DEF RecordFailure
  <2>2. state = "closed" => failures' < FailureThreshold
    BY <1>3 DEF RecordFailure
  <2> QED
    BY <1>0, <1>1, <1>3, <2>1, <2>2
<1> QED
  BY <1>2, <1>3

\* A failed attempt goes on or records one failure.
LEMMA AttemptFailedKeeps ==
    ASSUME CountersOK, TypeOK, NEW c \in Callers, AttemptFailed(c)
    PROVE  /\ CountersOK'
           /\ pc' \in [Callers -> {"idle", "retry", "fn"}]
           /\ attempt' \in [Callers -> 0 .. MaxRetries]
<1>1. CASE RecordFailure /\ Goto(c, "idle") /\ UNCHANGED attempt
  BY <1>1, RecordFailureKeeps DEF TypeOK, Goto
<1>2. CASE /\ attempt[c] < MaxRetries
           /\ attempt' = [attempt EXCEPT ![c] = @ + 1]
           /\ Goto(c, "retry")
           /\ UNCHANGED <<breakerVars, probes>>
  <2>1. CountersOK'
    BY <1>2 DEF CountersOK, breakerVars, ClosedBelowThreshold, SuccessesOnlyHalfOpen
  <2>2. attempt[c] + 1 \in 0 .. MaxRetries
    BY <1>2, BreakerAssumption DEF TypeOK
  <2> QED
    BY <1>2, <2>1, <2>2 DEF TypeOK, Goto
<1> QED
  BY <1>1, <1>2 DEF AttemptFailed

\* Every step keeps the counters in line with the state of the breaker.
LEMMA BreakerStep == BreakerInv /\ [Next]_vars => BreakerInv'
<1> SUFFICES ASSUME BreakerInv, [Next]_vars PROVE BreakerInv'
  OBVIOUS
<1>0. TypeOK /\ CountersOK
  BY DEF BreakerInv, TypeOK, CountersOK
<1>1. ASSUME CountersOK',
             pc' \in [Callers -> {"idle", "retry", "fn"}],
             attempt' \in [Callers -> 0 .. MaxRetries],
             probing' \in [Callers -> BOOLEAN]
      PROVE  BreakerInv'
  BY <1>1 DEF BreakerInv, TypeOK, CountersOK
<1>2. ASSUME NEW c \in Callers, CallerStep(c) PROVE BreakerInv'
  <2>1. CASE Enter(c)
    <3>1. PICK allowed \in BOOLEAN :
            Allow(allowed) /\ Goto(c, IF allowed THEN "retry" ELSE "idle")
      BY <2>1 DEF Enter
    <3>2. CountersOK'
      BY <1>0, <3>1, AllowKeeps
    <3>3. /\ pc' \in [Callers -> {"idle", "retry", "fn"}]
          /\ attempt' \in [Callers -> 0 .. MaxRetries]
          /\ probing' \in [Callers -> BOOLEAN]
      BY <1>0, <2>1, <3>1, BreakerAssumption DEF Enter, Goto, TypeOK
    <3> QED
      BY <1>1, <3>2, <3>3
  <2>2. CASE Admitted(c)
    <3>1. CountersOK'
      BY <1>0, <2>2, AllowKeeps DEF Admitted
    <3>2. /\ pc' \in [Callers -> {"idle", "retry", "fn"}]
          /\ attempt' \in [Callers -> 0 .. MaxRetries]
          /\ probing' \in [Callers -> BOOLEAN]
      BY <1>0, <2>2 DEF Admitted, Goto, TypeOK
    <3> QED
      BY <1>1, <3>1, <3>2
  <2>3. CASE Rejected(c)
    BY <1>0, <1>1, <2>3, AttemptFailedKeeps DEF Rejected, TypeOK
  <2>4. CASE Abandoned(c)
    BY <1>0, <1>1, <2>4, RecordFailureKeeps DEF Abandoned, Goto, TypeOK
  <2>5. CASE Succeeded(c)
    <3>1. CountersOK'
      BY <1>0, <2>5, RecordSuccessKeeps DEF Succeeded, TypeOK
    <3> QED
      BY <1>0, <1>1, <2>5, <3>1 DEF Succeeded, Goto, TypeOK
  <2>6. CASE Failed(c)
    BY <1>0, <1>1, <2>6, AttemptFailedKeeps DEF Failed, TypeOK
  <2> QED
    BY <1>2, <2>1, <2>2, <2>3, <2>4, <2>5, <2>6 DEF CallerStep
<1>3. CASE State
  <2>1. CountersOK'
    BY <1>0, <1>3, AllowKeeps DEF State
  <2> QED
    BY <1>0, <1>1, <1>3, <2>1 DEF State, TypeOK
<1>4. CASE Tick
  BY <1>4 DEF Tick, BreakerInv, TypeOK, ClosedBelowThreshold, SuccessesOnlyHalfOpen
<1>5. CASE Reset
  BY <1>5, BreakerAssumption DEF Reset, BreakerInv, TypeOK, ClosedBelowThreshold,
                                 SuccessesOnlyHalfOpen
<1>6. CASE UNCHANGED vars
  BY <1>6 DEF vars, breakerVars, BreakerInv, TypeOK, ClosedBelowThreshold,
              SuccessesOnlyHalfOpen
<1> QED
  BY <1>2, <1>3, <1>4, <1>5, <1>6 DEF Next

\* BreakerInv holds throughout.
LEMMA AlwaysBreakerInv == Spec => []BreakerInv
<1>1. Init => BreakerInv
  BY BreakerAssumption DEF Init, BreakerInv, TypeOK, ClosedBelowThreshold,
                           SuccessesOnlyHalfOpen
<1> QED
  BY <1>1, BreakerStep, PTL DEF Spec

\* The breaker is well typed: in particular the count of successes never reaches
\* the number that closes it without closing it.
THEOREM BreakerTypeCorrect == Spec => []TypeOK
<1>1. BreakerInv => TypeOK
  BY DEF BreakerInv
<1> QED
  BY <1>1, AlwaysBreakerInv, PTL

\* However many callers record results late, in a state other than the one their
\* call was let through in, a closed breaker has fewer failures than its threshold.
THEOREM ClosedMeansFewFailures == Spec => []ClosedBelowThreshold
<1>1. BreakerInv => ClosedBelowThreshold
  BY DEF BreakerInv
<1> QED
  BY <1>1, AlwaysBreakerInv, PTL

\* Nor do late results leave successes behind: outside the half-open state there
\* are none, so that a breaker that opens again starts to count anew.
THEOREM SuccessesAreProbes == Spec => []SuccessesOnlyHalfOpen
<1>1. BreakerInv => SuccessesOnlyHalfOpen
  BY DEF BreakerInv
<1> QED
  BY <1>1, AlwaysBreakerInv, PTL
=============================================================================
