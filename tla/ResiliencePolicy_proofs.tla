----------------------- MODULE ResiliencePolicy_proofs ------------------------
(***************************************************************************)
(* Safety of the circuit breaker, for any number of calls and any          *)
(* threshold, retry count and cooldown.                                    *)
(***************************************************************************)
EXTENDS ResiliencePolicy, TLAPS

USE ThresholdIsPositive, MaxRetriesIsNat, CooldownIsNat

LEMMA BreakerInit == Init => BreakerInv
  BY DEF Init, BreakerInv, TypeOK, BreakerAgrees, RetriesBounded,
         CircuitStates, Ends, InFlight

(* What a recorded failure does to the breaker, whoever records it.        *)
LEMMA FailureKeepsAgreement ==
  ASSUME TypeOK, BreakerAgrees, RecordFailure
  PROVE  /\ state' \in CircuitStates /\ failures' \in 0 .. Threshold
         /\ age' = 0
         /\ (state' = "CLOSED") <=> (failures' < Threshold)
  BY DEF TypeOK, BreakerAgrees, RecordFailure, CircuitStates

LEMMA BreakerNext == BreakerInv /\ [Next]_vars => BreakerInv'
<1> SUFFICES ASSUME BreakerInv, [Next]_vars PROVE BreakerInv'
  OBVIOUS
<1> USE DEF BreakerInv, TypeOK, BreakerAgrees, RetriesBounded, CircuitStates,
            Ends, InFlight, Cooled
<1>1. CASE Tick
  BY <1>1 DEF Tick
<1>2. ASSUME NEW c \in Calls, Admit(c) PROVE BreakerInv'
  BY <1>2 DEF Admit, Begin
<1>3. ASSUME NEW c \in Calls, Probe(c) PROVE BreakerInv'
  BY <1>3 DEF Probe, Begin
<1>4. ASSUME NEW c \in Calls, Refuse(c) PROVE BreakerInv'
  BY <1>4 DEF Refuse
<1>5. ASSUME NEW c \in Calls, Succeed(c) PROVE BreakerInv'
  BY <1>5 DEF Succeed
<1>6. ASSUME NEW c \in Calls, AttemptFails(c) PROVE BreakerInv'
  <2>1. CASE attempt[c] + 1 > MaxRetries
    <3>1. Throw(c) /\ attempt' = [attempt EXCEPT ![c] = @ + 1] /\ at[c] = "trying"
      BY <1>6, <2>1 DEF AttemptFails
    <3>2. QED BY <3>1, FailureKeepsAgreement DEF Throw
  <2>2. CASE ~(attempt[c] + 1 > MaxRetries)
    BY <1>6, <2>2 DEF AttemptFails
  <2>3. QED BY <2>1, <2>2
<1>7. ASSUME NEW c \in Calls, ClientError(c) PROVE BreakerInv'
  BY <1>7, FailureKeepsAgreement DEF ClientError, Throw
<1>8. ASSUME NEW c \in Calls, BackoffEnds(c) PROVE BreakerInv'
  BY <1>8 DEF BackoffEnds
<1>9. CASE UNCHANGED vars
  BY <1>9 DEF vars
<1>10. QED
  BY <1>1, <1>2, <1>3, <1>4, <1>5, <1>6, <1>7, <1>8, <1>9
     DEF Next, Enter, Settle

(* The inductive invariant of the breaker.                                 *)
THEOREM BreakerSafety == Spec => []BreakerInv
  BY BreakerInit, BreakerNext, PTL DEF Spec

(* The breaker is CLOSED exactly while fewer than Threshold failures are   *)
(* on record.                                                              *)
THEOREM BreakerAgreement == Spec => []BreakerAgrees
<1>1. BreakerInv => BreakerAgrees
  BY DEF BreakerInv
<1>2. QED BY <1>1, BreakerSafety, PTL

(* No call joins those in flight while the breaker is open and cooling.    *)
THEOREM OpenDrains == Spec => OpenOnlyDrains
<1>1. BreakerInv /\ [Next]_vars
        => [state = "OPEN" /\ ~Cooled => Busy' \subseteq Busy]_vars
  <2> SUFFICES ASSUME BreakerInv, [Next]_vars, state = "OPEN", ~Cooled
               PROVE  Busy' \subseteq Busy
    OBVIOUS
  <2> USE DEF BreakerInv, TypeOK, Busy, Ends, InFlight
  <2>1. CASE Tick \/ UNCHANGED vars
    BY <2>1 DEF Tick, vars
  <2>2. ASSUME NEW c \in Calls, Enter(c) PROVE Busy' \subseteq Busy
    BY <2>2 DEF Enter, Admit, Probe, Refuse
  <2>3. ASSUME NEW c \in Calls, Settle(c) PROVE Busy' \subseteq Busy
    BY <2>3 DEF Settle, Succeed, AttemptFails, ClientError, Throw, BackoffEnds
  <2>4. QED BY <2>1, <2>2, <2>3 DEF Next
<1>2. QED BY <1>1, BreakerSafety, PTL DEF Spec, OpenOnlyDrains
===============================================================================
