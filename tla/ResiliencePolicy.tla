--------------------------- MODULE ResiliencePolicy ---------------------------
(***************************************************************************)
(* ResiliencePolicy.execute as ApiClient.request configures it: one        *)
(* circuit breaker per operation (service, method and URL), shared by all  *)
(* the calls of that operation that a process has in flight, around a      *)
(* retry loop with backoff.  The breaker is looked at when a call enters   *)
(* and updated when it leaves; the retries in between do not consult it.   *)
(***************************************************************************)
EXTENDS Naturals

CONSTANTS Calls,        \* calls of one operation that can be in flight
          Threshold,    \* failureThreshold
          MaxRetries,   \* HTTP_RETRY_COUNT
          Cooldown      \* cooldownPeriodMs, in ticks

ASSUME ThresholdIsPositive == Threshold \in Nat \ {0}
ASSUME MaxRetriesIsNat == MaxRetries \in Nat
ASSUME CooldownIsNat == Cooldown \in Nat

VARIABLES state,        \* CircuitBreakerState.state
          failures,     \* .failures; above Threshold its value makes no difference
          age,          \* ticks since .lastFailureTime, up to just over Cooldown
          at,           \* where each call is, or how it ended
          attempt       \* failed attempts of each call

vars == <<state, failures, age, at, attempt>>

CircuitStates == {"CLOSED", "OPEN", "HALF_OPEN"}
Ends == {"ok", "threw", "refused"}
InFlight == {"trying", "backoff"}

Cooled == age > Cooldown

Init ==
  /\ state = "CLOSED" /\ failures = 0 /\ age = 0
  /\ at = [c \in Calls |-> "ok"]
  /\ attempt = [c \in Calls |-> 0]

Begin(c) ==
  /\ at' = [at EXCEPT ![c] = "trying"]
  /\ attempt' = [attempt EXCEPT ![c] = 0]
  /\ UNCHANGED <<failures, age>>

\* HALF_OPEN lets every call through, not one probe.
Admit(c) ==
  /\ at[c] \in Ends
  /\ state # "OPEN"
  /\ UNCHANGED state
  /\ Begin(c)

\* Mutant: the cooldown is not waited for.
ProbeEarly(c) ==
  /\ at[c] \in Ends
  /\ state = "OPEN"
  /\ state' = "HALF_OPEN"
  /\ Begin(c)

Probe(c) ==
  /\ at[c] \in Ends
  /\ state = "OPEN" /\ Cooled
  /\ state' = "HALF_OPEN"
  /\ Begin(c)

\* Thrown outside the try block: a refusal is not counted as a failure.
Refuse(c) ==
  /\ at[c] \in Ends
  /\ state = "OPEN" /\ ~Cooled
  /\ at' = [at EXCEPT ![c] = "refused"]
  /\ UNCHANGED <<state, failures, age, attempt>>

Enter(c) == Admit(c) \/ Probe(c) \/ Refuse(c)

\* Mutant: closes the breaker but keeps the failures.
SucceedKeepingCount(c) ==
  /\ at[c] = "trying"
  /\ at' = [at EXCEPT ![c] = "ok"]
  /\ state' = "CLOSED"
  /\ UNCHANGED <<failures, age, attempt>>

\* Mutant: never closes the breaker.
SucceedQuietly(c) ==
  /\ at[c] = "trying"
  /\ at' = [at EXCEPT ![c] = "ok"]
  /\ UNCHANGED <<state, failures, age, attempt>>

Succeed(c) ==
  /\ at[c] = "trying"
  /\ at' = [at EXCEPT ![c] = "ok"]
  /\ IF state # "CLOSED" THEN state' = "CLOSED" /\ failures' = 0
                         ELSE UNCHANGED <<state, failures>>
  /\ UNCHANGED <<age, attempt>>

RecordFailure ==
  LET n == IF failures < Threshold THEN failures + 1 ELSE Threshold
  IN  /\ failures' = n
      /\ age' = 0
      /\ state' = IF state = "HALF_OPEN" \/ n >= Threshold THEN "OPEN" ELSE state

Throw(c) ==
  /\ at' = [at EXCEPT ![c] = "threw"]
  /\ RecordFailure

\* Mutants: retries without end; one retry too many.
AttemptFailsForever(c) ==
  /\ at[c] = "trying"
  /\ at' = [at EXCEPT ![c] = "backoff"]
  /\ UNCHANGED <<state, failures, age, attempt>>

AttemptFailsOnceMore(c) ==
  /\ at[c] = "trying"
  /\ attempt' = [attempt EXCEPT ![c] = @ + 1]
  /\ IF attempt[c] > MaxRetries
     THEN Throw(c)
     ELSE /\ at' = [at EXCEPT ![c] = "backoff"]
          /\ UNCHANGED <<state, failures, age>>

\* A 5xx, a timeout or no connection: retried until the retries run out.
AttemptFails(c) ==
  /\ at[c] = "trying"
  /\ attempt' = [attempt EXCEPT ![c] = @ + 1]
  /\ IF attempt'[c] > MaxRetries
     THEN Throw(c)
     ELSE /\ at' = [at EXCEPT ![c] = "backoff"]
          /\ UNCHANGED <<state, failures, age>>

\* A 4xx: never retried, and counted as a failure like any other.
ClientError(c) ==
  /\ at[c] = "trying"
  /\ attempt' = [attempt EXCEPT ![c] = @ + 1]
  /\ Throw(c)

BackoffEnds(c) ==
  /\ at[c] = "backoff"
  /\ at' = [at EXCEPT ![c] = "trying"]
  /\ UNCHANGED <<state, failures, age, attempt>>

Tick ==
  /\ ~Cooled
  /\ age' = age + 1
  /\ UNCHANGED <<state, failures, at, attempt>>

Settle(c) == Succeed(c) \/ AttemptFails(c) \/ ClientError(c) \/ BackoffEnds(c)

Next == Tick \/ \E c \in Calls : Enter(c) \/ Settle(c)

Spec == Init /\ [][Next]_vars

\* Time passes, axios ends every attempt within its timeout, timers fire.
FairSpec == Spec /\ WF_vars(Tick) /\ \A c \in Calls : WF_vars(Settle(c))

-------------------------------------------------------------------------------
TypeOK ==
  /\ state \in CircuitStates
  /\ failures \in 0 .. Threshold
  /\ age \in 0 .. Cooldown + 1
  /\ at \in [Calls -> Ends \cup InFlight]
  /\ attempt \in [Calls -> 0 .. MaxRetries + 1]

(***************************************************************************)
(* The two halves of a breaker never disagree, however the calls that      *)
(* update it overlap: it is CLOSED exactly while fewer than Threshold      *)
(* failures are on record.  So a closed breaker can always still be        *)
(* opened by failures, and one that is not closed was opened by them.      *)
(***************************************************************************)
BreakerAgrees == (state = "CLOSED") <=> (failures < Threshold)

(***************************************************************************)
(* While the breaker is open and cooling, work for the ailing service only *)
(* drains: calls already past the breaker finish, retries and all, and no  *)
(* call joins them unless one of those successes has closed the breaker.   *)
(***************************************************************************)
Busy == {c \in Calls : at[c] \in InFlight}

OpenOnlyDrains ==
  [][state = "OPEN" /\ ~Cooled => Busy' \subseteq Busy]_vars

(***************************************************************************)
(* The breaker does not stay open for ever: if from some time on no        *)
(* attempt fails and calls keep arriving, it is closed for good.           *)
(***************************************************************************)
Faulty == \E c \in Calls : AttemptFails(c) \/ ClientError(c)
Arrival == \E c \in Calls : Enter(c)

Recovers ==
  <>[][~Faulty]_vars /\ []<><<Arrival>>_vars => <>[](state = "CLOSED")

(***************************************************************************)
(* Every call that got past the breaker ends: the retries are bounded even *)
(* when the service never comes back.                                      *)
(***************************************************************************)
CallsEnd == \A c \in Calls : at[c] \in InFlight ~> at[c] \in Ends

-------------------------------------------------------------------------------
RetriesBounded ==
  \A c \in Calls : at[c] \in InFlight => attempt[c] <= MaxRetries

BreakerInv == TypeOK /\ BreakerAgrees /\ RetriesBounded
===============================================================================
