------------------------ MODULE PaymentService_proofs -------------------------
(***************************************************************************)
(* The Order Service: what holds of order statuses however many updates    *)
(* race, and that it implements the order state machine when they do not.  *)
(* Then the Payment Service over it: its journal and notifications, for    *)
(* any number of payments, refunds, operators' updates and retries.        *)
(***************************************************************************)
EXTENDS PaymentService, TLAPS

USE DEF Statuses, Placed, Lifecycle!Statuses, Lifecycle!Placed

(* The record of an order only grows, so what led to a status once keeps   *)
(* leading to it.                                                          *)
LEMMA ReachedGrows ==
  ASSUME NEW o, held[o] \subseteq held'[o], NEW s, Reached(o, s)
  PROVE  Reached(o, s)'
  BY DEF Reached

LEMMA OrderInitInv == OrderInit => OrderInv
  BY DEF OrderInit, OrderInv, OrderTypeOK, NoStageSkipped, LoadedOnce,
         RowIsRecorded, Answered, Quiet, Answers

(* The steps that touch no row: a call is received, loaded, failed or cut. *)
(* They keep the invariant if the call they send to save may be saved.     *)
LEMMA RowsUntouched ==
  ASSUME OrderInv, UNCHANGED <<status, owner, held>>,
         call' \in [Updates -> Quiet \cup Running], LoadedOnce'
  PROVE  OrderInv'
  BY DEF OrderInv, OrderTypeOK, NoStageSkipped, Reached, RowIsRecorded

LEMMA PlaceOrderInv ==
  ASSUME OrderInv, NEW o \in Orders, NEW user \in Users, PlaceOrder(o, user)
  PROVE  OrderInv'
<1> USE DEF OrderInv, OrderTypeOK, PlaceOrder
<1>1. OrderTypeOK' /\ RowIsRecorded'
  BY DEF RowIsRecorded
<1>2. held[o] = {} /\ \A x \in Orders : held[x] \subseteq held'[x]
  BY DEF RowIsRecorded
<1>3. NoStageSkipped'
  BY <1>2, ReachedGrows DEF NoStageSkipped, Reached
<1>4. LoadedOnce'
  BY <1>2, ReachedGrows DEF LoadedOnce, Running, Quiet, Answers
<1>5. QED BY <1>1, <1>3, <1>4

LEMMA PatchStatusInv ==
  ASSUME OrderInv, NEW u \in Updates, NEW user, NEW o \in Orders, NEW s,
         PatchStatus(u, user, o, s)
  PROVE  OrderInv'
<1> USE DEF OrderInv, OrderTypeOK, PatchStatus, Answered, Quiet, Answers, Running
<1>1. call' \in [Updates -> Quiet \cup Running]
  BY DEF BodyAccepted
<1>2. LoadedOnce'
  BY DEF LoadedOnce, Reached
<1>3. QED BY <1>1, <1>2, RowsUntouched

LEMMA LoadOrderInv ==
  ASSUME OrderInv, NEW u \in Updates, LoadOrder(u)
  PROVE  OrderInv'
<1> USE DEF OrderInv, OrderTypeOK, LoadOrder, Answered, Quiet, Answers, Running
<1>1. call' \in [Updates -> Quiet \cup Running]
  OBVIOUS
<1>2. LoadedOnce'
  BY DEF LoadedOnce, Reached, RowIsRecorded, NoStageSkipped, IsValidTransition
<1>3. QED BY <1>1, <1>2, RowsUntouched

LEMMA SaveOrderInv ==
  ASSUME OrderInv, NEW u \in Updates, SaveOrder(u)
  PROVE  OrderInv'
<1> DEFINE o == call[u].order
           s == call[u].target
<1> USE DEF OrderInv, OrderTypeOK, SaveOrder
<1>1. o \in Orders /\ s \in Settable /\ Reached(o, s)
  BY DEF LoadedOnce, Quiet, Answers, Running
<1>2. OrderTypeOK'
  BY <1>1 DEF Answered, Quiet, Answers, Settable
<1>3. /\ held' = [held EXCEPT ![o] = @ \cup {s}]
      /\ \A x \in Orders : held[x] \subseteq held'[x]
  BY <1>1
<1>4. RowIsRecorded'
  BY <1>1 DEF RowIsRecorded, Settable
<1>5. NoStageSkipped'
  BY <1>1, <1>3, ReachedGrows DEF NoStageSkipped
<1>6. LoadedOnce'
  BY <1>3, ReachedGrows DEF LoadedOnce, Answered, Quiet, Answers, Running
<1>7. QED BY <1>2, <1>4, <1>5, <1>6

LEMMA FailUpdateInv ==
  ASSUME OrderInv, NEW u \in Updates, FailUpdate(u)
  PROVE  OrderInv'
<1> USE DEF OrderInv, OrderTypeOK, FailUpdate, Answered, Quiet, Answers, Running
<1>1. call' \in [Updates -> Quiet \cup Running]
  OBVIOUS
<1>2. LoadedOnce'
  BY DEF LoadedOnce, Reached
<1>3. QED BY <1>1, <1>2, RowsUntouched

LEMMA OrderServiceStopsInv ==
  ASSUME OrderInv, OrderServiceStops
  PROVE  OrderInv'
<1> USE DEF OrderInv, OrderTypeOK, OrderServiceStops, Answered, Quiet, Answers,
            Running, Serving
<1>1. call' \in [Updates -> Quiet \cup Running]
  OBVIOUS
<1>2. LoadedOnce'
  BY DEF LoadedOnce, Reached
<1>3. QED BY <1>1, <1>2, RowsUntouched

LEMMA OrderNextInv == OrderInv /\ [OrderNext]_orderVars => OrderInv'
<1> SUFFICES ASSUME OrderInv, [OrderNext]_orderVars PROVE OrderInv'
  OBVIOUS
<1>1. CASE UNCHANGED orderVars
  BY <1>1 DEF orderVars, OrderInv, OrderTypeOK, NoStageSkipped, LoadedOnce,
              RowIsRecorded, Reached
<1>2. CASE OrderNext
  BY <1>2, PlaceOrderInv, PatchStatusInv, LoadOrderInv, SaveOrderInv,
     FailUpdateInv, OrderServiceStopsInv DEF OrderNext, HandleUpdate
<1>3. QED BY <1>1, <1>2

(* The inductive invariant of the status endpoint.                         *)
THEOREM OrderSafety == OrderSpec => []OrderInv
  BY OrderInitInv, OrderNextInv, PTL DEF OrderSpec

(* No stage of an order is skipped, however many updates race.             *)
THEOREM StagesKept == OrderSpec => []NoStageSkipped
<1>1. OrderInv => NoStageSkipped
  BY DEF OrderInv
<1>2. QED BY <1>1, OrderSafety, PTL

(* No order returns to PENDING.                                            *)
THEOREM PendingIsLeftForGood == OrderSpec => NeverBackToPending
<1>1. OrderInv /\ [OrderNext]_orderVars
        => [\A o \in Orders : status[o] \in Settable => status'[o] \in Settable]_orderVars
  <2> SUFFICES ASSUME OrderInv, OrderNext, NEW o \in Orders, status[o] \in Settable
               PROVE  status'[o] \in Settable
    OBVIOUS
  <2> USE DEF OrderInv, OrderTypeOK
  <2>1. ASSUME NEW x \in Orders, NEW user \in Users, PlaceOrder(x, user)
        PROVE  status'[o] \in Settable
    BY <2>1 DEF PlaceOrder, Settable
  <2>2. ASSUME NEW u \in Updates, SaveOrder(u)
        PROVE  status'[o] \in Settable
    <3>1. call[u].target \in Settable
      BY <2>2 DEF SaveOrder, Quiet, Answers, Running
    <3>2. QED BY <2>2, <3>1 DEF SaveOrder
  <2>3. CASE UNCHANGED status
    BY <2>3
  <2>4. QED
    BY <2>1, <2>2, <2>3 DEF OrderNext, HandleUpdate, PatchStatus, LoadOrder,
                            FailUpdate, OrderServiceStops
<1>2. QED BY <1>1, OrderSafety, PTL DEF OrderSpec, NeverBackToPending

-------------------------------------------------------------------------------
(* When updates come one at a time, what a save relies on is not stale.    *)
NotStale ==
  \A u \in Updates :
    call[u].at = "save" => IsValidTransition(status[call[u].order], call[u].target)

LEMMA NotStaleNext ==
  ASSUME NEW c, Updates = {c}, OrderInv, NotStale, [OrderNext]_orderVars
  PROVE  NotStale'
<1> USE DEF OrderInv, OrderTypeOK, NotStale, Quiet, Answers, Running, Answered
<1>1. CASE UNCHANGED orderVars
  BY <1>1 DEF orderVars, IsValidTransition
<1>2. ASSUME NEW o \in Orders, NEW user \in Users, PlaceOrder(o, user)
      PROVE  NotStale'
  BY <1>2 DEF PlaceOrder, IsValidTransition, Settable, Lifecycle!Successors
<1>3. ASSUME NEW u \in Updates, NEW user, NEW o \in Orders, NEW s,
             PatchStatus(u, user, o, s)
      PROVE  NotStale'
  BY <1>3 DEF PatchStatus, IsValidTransition
<1>4. ASSUME NEW u \in Updates, LoadOrder(u)
      PROVE  NotStale'
  BY <1>4 DEF LoadOrder, IsValidTransition
<1>5. ASSUME NEW u \in Updates, SaveOrder(u)
      PROVE  NotStale'
  BY <1>5 DEF SaveOrder
<1>6. ASSUME NEW u \in Updates, FailUpdate(u)
      PROVE  NotStale'
  BY <1>6 DEF FailUpdate
<1>7. CASE OrderServiceStops
  BY <1>7 DEF OrderServiceStops, Serving
<1>8. QED
  BY <1>1, <1>2, <1>3, <1>4, <1>5, <1>6, <1>7 DEF OrderNext, HandleUpdate

LEMMA SerialStep ==
  ASSUME OrderInv, NotStale, [OrderNext]_orderVars
  PROVE  [Lifecycle!Next]_status
<1> USE DEF OrderInv, OrderTypeOK
<1>1. ASSUME NEW o \in Orders, NEW user \in Users, PlaceOrder(o, user)
      PROVE  Lifecycle!Next
  BY <1>1 DEF PlaceOrder, Lifecycle!Next, Lifecycle!Place
<1>2. ASSUME NEW u \in Updates, SaveOrder(u)
      PROVE  [Lifecycle!Next]_status
  <2> DEFINE o == call[u].order
             s == call[u].target
  <2>1. /\ o \in Orders
        /\ status' = [status EXCEPT ![o] = s]
        /\ status[o] = s \/ s \in Lifecycle!Successors(status[o])
    BY <1>2 DEF SaveOrder, NotStale, IsValidTransition, Quiet, Answers, Running
  <2>2. CASE status[o] = s
    BY <2>1, <2>2
  <2>3. CASE s \in Lifecycle!Successors(status[o])
    BY <2>1, <2>3 DEF Lifecycle!Next, Lifecycle!Advance
  <2>4. QED BY <2>1, <2>2, <2>3
<1>3. CASE UNCHANGED status
  BY <1>3
<1>4. QED
  BY <1>1, <1>2, <1>3 DEF orderVars, OrderNext, HandleUpdate, PatchStatus,
     LoadOrder, FailUpdate, OrderServiceStops

(* A service that serves one update at a time implements the order state   *)
(* machine: the interleaving of updates is all that breaks it.             *)
THEOREM SerialUpdatesFollowLifecycle ==
  ASSUME NEW CONSTANT c, Updates = {c}
  PROVE  OrderSpec => FollowsLifecycle
<1>1. OrderInit => NotStale /\ Lifecycle!Init
  BY DEF OrderInit, NotStale, Answered, Lifecycle!Init
<1>2. OrderInv /\ NotStale /\ [OrderNext]_orderVars => NotStale'
  BY NotStaleNext
<1>3. OrderInv /\ NotStale /\ [OrderNext]_orderVars => [Lifecycle!Next]_status
  BY SerialStep
<1>4. QED
  BY <1>1, <1>2, <1>3, OrderSafety, PTL DEF OrderSpec, FollowsLifecycle, Lifecycle!Spec

-------------------------------------------------------------------------------
(* The Payment Service.                                                    *)
USE NobodyIsNoUser, AmountsArePositive, TotalsAreAmounts, AtLeastOneAttempt,
    AttemptsAreUpdates
USE DEF Awaits, Replies, RowStatuses

LEMMA PayInitInv == Init => PayInv
<1> SUFFICES ASSUME Init PROVE PayInv
  OBVIOUS
<1> USE DEF Init, OrderInit
<1>1. TypeOK
  BY OrderInitInv DEF OrderInv, TypeOK, Answered, Quiet, Answers
<1>2. \A p \in Payments : Progress(p)
  BY DEF Progress
<1>3. JournalIsTruthful /\ PlacedAreOwned
  BY DEF JournalIsTruthful, PlacedAreOwned
<1>4. NotifiesWhatIsJournaled /\ Unsent /\ RefundsAreOfCharges
  BY DEF NotifiesWhatIsJournaled, Unsent, RefundsAreOfCharges, Serving, Answered
<1>5. QED BY <1>1, <1>2, <1>3, <1>4 DEF PayInv

(* A step of one payment that leaves the calls and the refunds alone keeps *)
(* the invariant if it keeps the payment's own part of it.                 *)
LEMMA OwnStep ==
  ASSUME PayInv, NEW p \in Payments,
         UNCHANGED <<orderVars, refund>>, TypeOK',
         \A q \in Payments \ {p} :
           UNCHANGED <<at[q], request[q], verdict[q], tries[q], row[q], captured[q]>>,
         Progress(p)',
         row[p] = "NONE" \/ UNCHANGED request[p],
         tries'[p] >= tries[p],
         row'[p] \in {"SUCCESS", "REFUNDED"} => captured'[p],
         captured'[p] => row'[p] \in {"PROCESSING", "SUCCESS", "REFUNDED"},
         row'[p] = row[p] \/ at[p] = "settle" \/ row'[p] \in {"PENDING", "PROCESSING"},
         row[p] \notin {"SUCCESS", "REFUNDED", "FAILED"} \/ UNCHANGED row[p]
  PROVE  PayInv'
<1> USE DEF PayInv, orderVars
<1>1. \A q \in Payments : Progress(q)'
  BY DEF Progress, OrderOf
<1>2. JournalIsTruthful'
  BY DEF JournalIsTruthful, OrderOf, Progress
<1>3. NotifiesWhatIsJournaled'
  BY DEF NotifiesWhatIsJournaled, Serving, OrderOf, Outcome
<1>4. Unsent'
  BY DEF Unsent, Serving, TypeOK
<1>5. RefundsAreOfCharges' /\ PlacedAreOwned'
  BY DEF RefundsAreOfCharges, PlacedAreOwned, TypeOK, Quiet, Answers
<1>6. QED BY <1>1, <1>2, <1>3, <1>4, <1>5

LEMMA PayStep ==
  ASSUME PayInv, NEW p \in Payments, NEW o \in Orders, NEW user \in Users,
         NEW a \in Amounts, Pay(p, o, user, a)
  PROVE  PayInv'
<1> USE DEF PayInv, TypeOK, Pay, GoTo
<1>1. TypeOK'
  BY DEF orderVars, OrderTypeOK
<1>2. Progress(p)'
  BY DEF Progress, OrderOf, NoRequest
<1>3. QED BY <1>1, <1>2, OwnStep DEF Progress

LEMMA FetchOrderStep ==
  ASSUME PayInv, NEW p \in Payments, FetchOrder(p)
  PROVE  PayInv'
<1> USE DEF PayInv, TypeOK, FetchOrder, GoTo
<1>1. TypeOK'
  BY DEF orderVars, OrderTypeOK
<1>2. Progress(p)'
  BY DEF Progress, OrderOf, Eligible, orderVars
<1>3. QED BY <1>1, <1>2, OwnStep DEF Progress

LEMMA CreateRowStep ==
  ASSUME PayInv, NEW p \in Payments, CreateRow(p)
  PROVE  PayInv'
<1> USE DEF PayInv, TypeOK, CreateRow, GoTo
<1>1. TypeOK'
  BY DEF orderVars, OrderTypeOK
<1>2. Progress(p)'
  BY DEF Progress, OrderOf, orderVars
<1>3. QED BY <1>1, <1>2, OwnStep DEF Progress

LEMMA MarkProcessingStep ==
  ASSUME PayInv, NEW p \in Payments, MarkProcessing(p)
  PROVE  PayInv'
<1> USE DEF PayInv, TypeOK, MarkProcessing, GoTo
<1>1. TypeOK'
  BY DEF orderVars, OrderTypeOK
<1>2. Progress(p)'
  BY DEF Progress, OrderOf, orderVars
<1>3. QED BY <1>1, <1>2, OwnStep DEF Progress

LEMMA CallGatewayStep ==
  ASSUME PayInv, NEW p \in Payments, CallGateway(p)
  PROVE  PayInv'
<1> USE DEF PayInv, TypeOK, CallGateway, GoTo
<1>1. TypeOK'
  BY DEF orderVars, OrderTypeOK
<1>2. Progress(p)'
  BY DEF Progress, OrderOf, orderVars
<1>3. QED BY <1>1, <1>2, OwnStep DEF Progress

LEMMA SettleRowStep ==
  ASSUME PayInv, NEW p \in Payments, SettleRow(p)
  PROVE  PayInv'
<1> USE DEF PayInv, TypeOK, SettleRow, GoTo
<1>1. TypeOK'
  BY DEF orderVars, OrderTypeOK
<1>2. Progress(p)'
  BY DEF Progress, OrderOf, orderVars
<1>3. QED BY <1>1, <1>2, OwnStep DEF Progress

LEMMA StepFailsStep ==
  ASSUME PayInv, NEW p \in Payments, StepFails(p)
  PROVE  PayInv'
<1>1. TypeOK'
  BY DEF PayInv, TypeOK, StepFails, GoTo, orderVars, OrderTypeOK
<1>2. Progress(p)'
  BY DEF PayInv, TypeOK, StepFails, GoTo, Progress, OrderOf, orderVars
<1>3. UNCHANGED <<orderVars, refund, request, verdict, tries, row, captured>>
  BY DEF StepFails
<1>4. \A q \in Payments \ {p} : UNCHANGED at[q]
  BY DEF StepFails, GoTo, PayInv, TypeOK
<1>5. /\ tries[p] \in Nat
      /\ row[p] \in {"SUCCESS", "REFUNDED"} => captured[p]
      /\ captured[p] => row[p] \in {"PROCESSING", "SUCCESS", "REFUNDED"}
  BY DEF StepFails, PayInv, TypeOK, Progress
<1>6. QED BY <1>1, <1>2, <1>3, <1>4, <1>5, OwnStep

LEMMA PatchUnsentStep ==
  ASSUME PayInv, NEW p \in Payments, PatchUnsent(p)
  PROVE  PayInv'
<1> USE DEF PayInv, TypeOK, PatchUnsent, TryAgain, Reply, GoTo
<1>1. tries[p] < MaxAttempts
  BY DEF Progress
<1>2. TypeOK'
  BY <1>1 DEF orderVars, OrderTypeOK
<1>3. Progress(p)'
  BY <1>1 DEF Progress, OrderOf, orderVars
<1>4. QED BY <1>2, <1>3, OwnStep DEF Progress

LEMMA PatchAnsweredStep ==
  ASSUME PayInv, NEW p \in Payments, PatchAnswered(p)
  PROVE  PayInv'
<1> USE DEF PayInv, TypeOK, PatchAnswered, Reply, GoTo
<1>1. TypeOK'
  BY DEF orderVars, OrderTypeOK
<1>2. Progress(p)'
  BY DEF Progress, OrderOf, orderVars
<1>3. QED BY <1>1, <1>2, OwnStep DEF Progress

LEMMA PatchFailsStep ==
  ASSUME PayInv, NEW p \in Payments, PatchFails(p)
  PROVE  PayInv'
<1> USE DEF PayInv, TypeOK, PatchFails, TryAgain, Reply, GoTo
<1>1. TypeOK'
  BY DEF orderVars, OrderTypeOK
<1>2. Progress(p)'
  BY DEF Progress, OrderOf, orderVars
<1>3. QED BY <1>1, <1>2, OwnStep DEF Progress

LEMMA BreakerRefusesStep ==
  ASSUME PayInv, NEW p \in Payments, BreakerRefuses(p)
  PROVE  PayInv'
<1> USE DEF PayInv, TypeOK, BreakerRefuses, Reply, GoTo
<1>1. TypeOK'
  BY DEF orderVars, OrderTypeOK
<1>2. Progress(p)'
  BY DEF Progress, OrderOf, orderVars
<1>3. QED BY <1>1, <1>2, OwnStep DEF Progress

-------------------------------------------------------------------------------
(* A step of the Order Service, or of the Payment Service's calls to it,   *)
(* keeps what the invariant says of a placed order's owner.                *)
LEMMA OwnersStand ==
  ASSUME PayInv, NEW o \in Orders, NEW user \in Users, PlaceOrder(o, user)
  PROVE  \A x \in Orders : owner[x] \in Users => owner'[x] = owner[x]
  BY DEF PayInv, TypeOK, OrderTypeOK, PlaceOrder, PlacedAreOwned

LEMMA SendPatchStep ==
  ASSUME PayInv, NEW p \in Payments, SendPatch(p)
  PROVE  PayInv'
<1> DEFINE k == tries[p] + 1
<1> USE DEF PayInv, TypeOK, SendPatch, PatchStatus, GoTo
<1>1. /\ tries[p] \in 0 .. MaxAttempts /\ tries[p] < MaxAttempts
      /\ tries'[p] = k /\ <<p, k>> \in Updates /\ k \in 1 .. MaxAttempts
  BY DEF Progress
<1>2. request[p] \in [order : Orders, payer : Users, amount : Amounts]
  BY DEF Progress
<1>3. /\ NextStatus(p) = Outcome(p)
      /\ row[p] \in {"SUCCESS", "REFUNDED", "FAILED"}
  BY DEF Progress, NextStatus, Outcome
<1>4. OrderTypeOK'
  BY <1>1, <1>2 DEF OrderTypeOK, Answered, Quiet, Answers, Running, OrderOf,
                    BodyAccepted
<1>5. TypeOK'
  BY <1>1, <1>4
<1>6. \A q \in Payments : Progress(q)'
  BY <1>1 DEF Progress, OrderOf
<1>7. JournalIsTruthful' /\ PlacedAreOwned'
  BY DEF JournalIsTruthful, OrderOf, PlacedAreOwned
<1>8. NotifiesWhatIsJournaled'
  BY <1>1, <1>3 DEF NotifiesWhatIsJournaled, Serving, Answered, OrderOf, Outcome,
                    OrderTypeOK
<1>9. Unsent'
  BY <1>1 DEF Unsent, Serving, OrderTypeOK
<1>10. RefundsAreOfCharges'
  BY DEF RefundsAreOfCharges
<1>11. QED BY <1>5, <1>6, <1>7, <1>8, <1>9, <1>10

(* A step of the Order Service that starts no call of a payment keeps the  *)
(* invariant if the calls it leaves running keep their order and target.   *)
LEMMA OrderStep ==
  ASSUME PayInv, UNCHANGED <<payVars, refund>>, OrderTypeOK', PlacedAreOwned',
         \A x \in Orders : owner[x] \in Users => owner'[x] = owner[x],
         \A p \in Payments, k \in 1 .. MaxAttempts :
           Serving(<<p, k>>)' =>
             /\ Serving(<<p, k>>)
             /\ call'[<<p, k>>].order = call[<<p, k>>].order
             /\ call'[<<p, k>>].target = call[<<p, k>>].target
  PROVE  PayInv'
<1> USE DEF PayInv, payVars
<1>1. TypeOK'
  BY DEF TypeOK
<1>2. \A p \in Payments : request[p] # NoRequest =>
         request[p].payer \in Users /\ OrderOf(p) \in Orders
  BY DEF TypeOK, OrderOf
<1>3. \A p \in Payments : Progress(p)'
  BY <1>2 DEF Progress, OrderOf
<1>4. JournalIsTruthful'
  BY <1>2 DEF JournalIsTruthful, OrderOf, Progress
<1>5. NotifiesWhatIsJournaled' /\ Unsent'
  BY DEF NotifiesWhatIsJournaled, Unsent, OrderOf, Outcome
<1>6. RefundsAreOfCharges'
  BY DEF RefundsAreOfCharges
<1>7. QED BY <1>1, <1>3, <1>4, <1>5, <1>6

LEMMA OrderServiceStepStep ==
  ASSUME PayInv, OrderServiceStep
  PROVE  PayInv'
<1> USE DEF PayInv, TypeOK, OrderTypeOK, OrderServiceStep
<1>1. ASSUME NEW o \in Orders, NEW user \in Users, PlaceOrder(o, user)
      PROVE  PayInv'
  <2>1. OrderTypeOK' /\ PlacedAreOwned'
    BY <1>1 DEF PlaceOrder, PlacedAreOwned, Placed, Statuses,
                Lifecycle!Placed, Lifecycle!Statuses
  <2>2. \A x \in Orders : owner[x] \in Users => owner'[x] = owner[x]
    BY <1>1, OwnersStand
  <2>3. QED BY <1>1, <2>1, <2>2, OrderStep DEF PlaceOrder, Serving
<1>2. ASSUME NEW u \in Console, NEW user, NEW o \in Orders, NEW s \in Placed,
             PatchStatus(u, user, o, s)
      PROVE  PayInv'
  <2>1. u \in Updates /\ \A p \in Payments, k \in 1 .. MaxAttempts : <<p, k>> # u
    BY DEF Console
  <2>2. call' \in [Updates -> Quiet \cup Running]
    <3>1. [at |-> "load", order |-> o, target |-> s] \in Running
            \/ ~BodyAccepted(s)
      BY DEF BodyAccepted, Running
    <3>2. Answered("rejected") \in Quiet
      BY DEF Answered, Quiet, Answers
    <3>3. QED BY <1>2, <2>1, <3>1, <3>2 DEF PatchStatus
  <2>3. OrderTypeOK' /\ PlacedAreOwned'
    BY <1>2, <2>2 DEF PatchStatus, PlacedAreOwned
  <2>4. QED BY <1>2, <2>1, <2>3, OrderStep DEF PatchStatus, Serving
<1>3. ASSUME NEW u \in Updates, LoadOrder(u)
      PROVE  PayInv'
  <2>1. OrderTypeOK' /\ PlacedAreOwned'
    BY <1>3 DEF LoadOrder, PlacedAreOwned, Answered, Quiet, Answers, Running
  <2>2. \A v \in Updates :
          Serving(v)' => /\ Serving(v)
                         /\ call'[v].order = call[v].order
                         /\ call'[v].target = call[v].target
    BY <1>3 DEF LoadOrder, Serving, Answered, Quiet, Answers, Running
  <2>3. owner' = owner
    BY <1>3 DEF LoadOrder
  <2>4. QED BY <2>1, <2>2, <2>3, OrderStep, AttemptsAreUpdates
<1>4. ASSUME NEW u \in Updates, SaveOrder(u)
      PROVE  PayInv'
  <2>1. call[u].order \in Orders /\ call[u].target \in Settable
    BY <1>4 DEF SaveOrder, Quiet, Answers, Running
  <2>2. call' \in [Updates -> Quiet \cup Running]
    BY <1>4 DEF SaveOrder, Answered, Quiet, Answers
  <2>3. call[u].target \in Placed \cap Statuses /\ call[u].target # "NONE"
    BY <2>1 DEF Settable, Placed, Statuses, Lifecycle!Placed, Lifecycle!Statuses
  <2>4. OrderTypeOK'
    BY <1>4, <2>1, <2>2, <2>3 DEF SaveOrder
  <2>5. PlacedAreOwned'
    BY <1>4, <2>1, <2>3 DEF SaveOrder, PlacedAreOwned
  <2>6. QED BY <1>4, <2>4, <2>5, OrderStep DEF SaveOrder, Serving, Answered
<1>5. ASSUME NEW u \in Updates, FailUpdate(u)
      PROVE  PayInv'
  <2>1. OrderTypeOK' /\ PlacedAreOwned'
    BY <1>5 DEF FailUpdate, PlacedAreOwned, Answered, Quiet, Answers
  <2>2. QED BY <1>5, <2>1, OrderStep DEF FailUpdate, Serving, Answered
<1>6. CASE OrderServiceStops
  <2>1. OrderTypeOK' /\ PlacedAreOwned'
    BY <1>6 DEF OrderServiceStops, PlacedAreOwned, Answered, Quiet, Answers
  <2>2. QED BY <1>6, <2>1, OrderStep DEF OrderServiceStops, Serving, Answered
<1>7. QED
  BY <1>1, <1>2, <1>3, <1>4, <1>5, <1>6 DEF HandleUpdate

-------------------------------------------------------------------------------
LEMMA RequestRefundStep ==
  ASSUME PayInv, NEW r \in Refunds, NEW p \in Payments, NEW user, NEW a \in Amounts,
         RequestRefund(r, p, user, a)
  PROVE  PayInv'
<1> USE DEF PayInv, RequestRefund, orderVars, payVars
<1>1. TypeOK'
  BY DEF TypeOK, OrderTypeOK, Answered, Quiet, Answers, Serving
<1>2. \A q \in Payments : Progress(q)'
  BY DEF Progress, OrderOf
<1>3. JournalIsTruthful' /\ PlacedAreOwned'
  BY DEF JournalIsTruthful, OrderOf, PlacedAreOwned
<1>4. NotifiesWhatIsJournaled' /\ Unsent'
  BY DEF NotifiesWhatIsJournaled, Unsent, Serving, OrderOf, Outcome
<1>5. RefundsAreOfCharges'
  BY DEF RefundsAreOfCharges, Refundable, Answered, TypeOK
<1>6. QED BY <1>1, <1>2, <1>3, <1>4, <1>5

LEMMA SaveRefundStep ==
  ASSUME PayInv, NEW r \in Refunds, SaveRefund(r)
  PROVE  PayInv'
<1> DEFINE p == refund[r].payment
<1> USE DEF PayInv, SaveRefund, orderVars
<1>1. p \in Payments /\ row[p] \in {"SUCCESS", "REFUNDED"}
  BY DEF TypeOK, Quiet, Answers, RefundsAreOfCharges
<1>2. captured[p] /\ row' = [row EXCEPT ![p] = "REFUNDED"]
  BY <1>1 DEF JournalIsTruthful
<1>3. TypeOK'
  BY <1>1, <1>2 DEF TypeOK, OrderTypeOK, Answered, Quiet, Answers
<1>4. \A q \in Payments : Progress(q)'
  BY <1>1, <1>2 DEF Progress, OrderOf, TypeOK
<1>5. JournalIsTruthful' /\ PlacedAreOwned'
  BY <1>1, <1>2 DEF JournalIsTruthful, OrderOf, TypeOK, PlacedAreOwned
<1>6. NotifiesWhatIsJournaled' /\ Unsent'
  BY <1>1, <1>2 DEF NotifiesWhatIsJournaled, Unsent, Serving, OrderOf, Outcome, TypeOK
<1>7. RefundsAreOfCharges'
  BY <1>1, <1>2 DEF RefundsAreOfCharges, Answered, TypeOK, Quiet, Answers
<1>8. QED BY <1>3, <1>4, <1>5, <1>6, <1>7

LEMMA FailRefundStep ==
  ASSUME PayInv, NEW r \in Refunds, FailRefund(r)
  PROVE  PayInv'
<1> USE DEF PayInv, FailRefund, orderVars, payVars
<1>1. TypeOK'
  BY DEF TypeOK, OrderTypeOK, Answered, Quiet, Answers, Serving
<1>2. \A q \in Payments : Progress(q)'
  BY DEF Progress, OrderOf
<1>3. JournalIsTruthful' /\ PlacedAreOwned'
  BY DEF JournalIsTruthful, OrderOf, PlacedAreOwned
<1>4. NotifiesWhatIsJournaled' /\ Unsent'
  BY DEF NotifiesWhatIsJournaled, Unsent, Serving, OrderOf, Outcome
<1>5. RefundsAreOfCharges'
  BY DEF RefundsAreOfCharges, Answered, TypeOK
<1>6. QED BY <1>1, <1>2, <1>3, <1>4, <1>5

LEMMA PaymentServiceStopsStep ==
  ASSUME PayInv, PaymentServiceStops
  PROVE  PayInv'
<1> USE DEF PayInv, PaymentServiceStops, orderVars
<1>1. TypeOK'
  BY DEF TypeOK, OrderTypeOK, Answered, Quiet, Answers
<1>2. \A q \in Payments : Progress(q)'
  BY DEF Progress, OrderOf, TypeOK
<1>3. JournalIsTruthful' /\ PlacedAreOwned'
  BY DEF JournalIsTruthful, OrderOf, PlacedAreOwned
<1>4. NotifiesWhatIsJournaled' /\ Unsent'
  BY DEF NotifiesWhatIsJournaled, Unsent, Serving, OrderOf, Outcome
<1>5. RefundsAreOfCharges'
  BY DEF RefundsAreOfCharges, Answered, TypeOK
<1>6. QED BY <1>1, <1>2, <1>3, <1>4, <1>5

LEMMA PayNextInv == PayInv /\ [Next]_vars => PayInv'
<1> SUFFICES ASSUME PayInv, [Next]_vars PROVE PayInv'
  OBVIOUS
<1>1. CASE UNCHANGED vars
  BY <1>1 DEF vars, orderVars, payVars, PayInv, TypeOK, OrderTypeOK,
     Progress, JournalIsTruthful, NotifiesWhatIsJournaled, Unsent, Serving,
     RefundsAreOfCharges, PlacedAreOwned, OrderOf, Outcome
<1>2. ASSUME NEW p \in Payments, ProcessPayment(p)
      PROVE  PayInv'
  BY <1>2, FetchOrderStep, CreateRowStep, MarkProcessingStep, CallGatewayStep,
     SettleRowStep, StepFailsStep, SendPatchStep, PatchUnsentStep,
     PatchAnsweredStep, PatchFailsStep, BreakerRefusesStep DEF ProcessPayment
<1>3. CASE Next
  BY <1>2, <1>3, PayStep, OrderServiceStepStep, RequestRefundStep, SaveRefundStep,
     FailRefundStep, PaymentServiceStopsStep DEF Next
<1>4. QED BY <1>1, <1>3

(* The inductive invariant of the Payment Service and its notifications.   *)
THEOREM PaymentSafety == Spec => []PayInv
  BY PayInitInv, PayNextInv, PTL DEF Spec

(* The journal never lies about money, wherever a payment is cut short.    *)
THEOREM JournalTruth == Spec => []JournalIsTruthful
<1>1. PayInv => JournalIsTruthful
  BY DEF PayInv
<1>2. QED BY <1>1, PaymentSafety, PTL

(* The Order Service is only ever told what the journal holds.             *)
THEOREM NotificationTruth == Spec => []NotifiesWhatIsJournaled
<1>1. PayInv => NotifiesWhatIsJournaled
  BY DEF PayInv
<1>2. QED BY <1>1, PaymentSafety, PTL
-------------------------------------------------------------------------------
(* Every step of the two services is a step of the payment lifecycle, or   *)
(* leaves the journal and the gateway's books as they are.                 *)
LEMMA JournalStep ==
  ASSUME PayInv, [Next]_vars
  PROVE  [Journal!Next]_Journal!vars
<1> USE DEF PayInv, TypeOK, Journal!vars, Journal!Next, Journal!Move
<1>1. CASE UNCHANGED <<row, captured>>
  BY <1>1
<1>2. ASSUME NEW p \in Payments, CreateRow(p)
      PROVE  Journal!Open(p)
  BY <1>2 DEF CreateRow, Progress, Journal!Open
<1>3. ASSUME NEW p \in Payments, MarkProcessing(p)
      PROVE  Journal!Begin(p)
  BY <1>3 DEF MarkProcessing, Progress, Journal!Begin
<1>4. ASSUME NEW p \in Payments, CallGateway(p)
      PROVE  Journal!Charge(p) \/ UNCHANGED <<row, captured>>
  <2>1. row[p] = "PROCESSING" /\ captured[p] = FALSE /\ UNCHANGED row
    BY <1>4 DEF CallGateway, Progress
  <2>2. \/ captured' = [captured EXCEPT ![p] = TRUE]
        \/ captured' = [captured EXCEPT ![p] = FALSE]
    BY <1>4 DEF CallGateway
  <2>3. CASE captured' = [captured EXCEPT ![p] = TRUE]
    BY <2>1, <2>3 DEF Journal!Charge
  <2>4. CASE captured' = [captured EXCEPT ![p] = FALSE]
    <3>1. captured' = captured
      BY <2>1, <2>4
    <3>2. QED BY <2>1, <3>1
  <2>5. QED BY <2>2, <2>3, <2>4
<1>5. ASSUME NEW p \in Payments, SettleRow(p)
      PROVE  Journal!Settle(p)
  BY <1>5 DEF SettleRow, Progress, Journal!Settle
<1>6. ASSUME NEW r \in Refunds, SaveRefund(r)
      PROVE  \/ \E p \in Payments : Journal!Refund(p)
             \/ UNCHANGED <<row, captured>>
  <2> DEFINE p == refund[r].payment
  <2>1. p \in Payments /\ row[p] \in {"SUCCESS", "REFUNDED"}
    BY <1>6 DEF SaveRefund, RefundsAreOfCharges, Quiet, Answers
  <2>2. row' = [row EXCEPT ![p] = "REFUNDED"] /\ UNCHANGED captured
    BY <1>6 DEF SaveRefund
  <2>3. CASE row[p] = "SUCCESS"
    BY <2>1, <2>2, <2>3 DEF Journal!Refund
  <2>4. CASE row[p] = "REFUNDED"
    BY <2>1, <2>2, <2>4
  <2>5. QED BY <2>1, <2>3, <2>4
<1>7. ASSUME NEW p \in Payments, ProcessPayment(p)
      PROVE  Journal!Next \/ UNCHANGED <<row, captured>>
  BY <1>2, <1>3, <1>4, <1>5, <1>7 DEF ProcessPayment, FetchOrder, StepFails,
     SendPatch, PatchUnsent, PatchAnswered, PatchFails, BreakerRefuses
<1>8. QED
  BY <1>1, <1>6, <1>7 DEF Next, vars, payVars, OrderServiceStep, Pay,
     RequestRefund, FailRefund, PaymentServiceStops

(* The journal implements the payment lifecycle: a charge is announced in  *)
(* the journal first, made at most once, and settled to the truth.         *)
THEOREM JournalRefinement == Spec => ImplementsLifecycle
<1>1. Init => Journal!Init
  BY DEF Init, Journal!Init
<1>2. PayInv /\ [Next]_vars => [Journal!Next]_Journal!vars
  BY JournalStep
<1>3. QED
  BY <1>1, <1>2, PaymentSafety, PTL DEF Spec, ImplementsLifecycle, Journal!Spec

-------------------------------------------------------------------------------
(* The Payment Service uses the Order Service only as the Order Service    *)
(* allows: each step of the two is one of the Order Service's, or leaves   *)
(* orders and calls as they are.                                           *)
LEMMA OrderServiceUsed ==
  ASSUME PayInv, [Next]_vars
  PROVE  [OrderNext]_orderVars
<1>1. CASE UNCHANGED orderVars
  BY <1>1
<1>2. CASE OrderServiceStep
  BY <1>2 DEF OrderServiceStep, OrderNext, Console
<1>3. ASSUME NEW p \in Payments, SendPatch(p)
      PROVE  OrderNext
  <2> DEFINE u == <<p, tries'[p]>>
  <2>1. u \in Updates
    BY <1>3 DEF SendPatch, PayInv, TypeOK, Progress
  <2>2. request[p] \in [order : Orders, payer : Users, amount : Amounts]
    BY <1>3 DEF SendPatch, PayInv, TypeOK, Progress
  <2>3. NextStatus(p) \in Placed
    BY DEF NextStatus, Placed, Lifecycle!Placed
  <2>4. PatchStatus(u, request[p].payer, OrderOf(p), NextStatus(p))
    BY <1>3 DEF SendPatch
  <2>5. QED BY <2>1, <2>2, <2>3, <2>4 DEF OrderNext, OrderOf
<1>4. QED
  BY <1>1, <1>2, <1>3 DEF Next, vars, ProcessPayment, Pay, FetchOrder, CreateRow,
     MarkProcessing, CallGateway, SettleRow, StepFails, PatchUnsent,
     PatchAnswered, PatchFails, BreakerRefuses, RequestRefund, SaveRefund,
     FailRefund, PaymentServiceStops

(* So what holds of the Order Service alone holds of it in the company of  *)
(* payments, their retries and their timeouts: no stage is skipped.        *)
THEOREM StagesKeptByPayments == Spec => []NoStageSkipped
<1>1. Init => OrderInit
  BY DEF Init
<1>2. PayInv /\ [Next]_vars => [OrderNext]_orderVars
  BY OrderServiceUsed
<1>3. Spec => OrderSpec
  BY <1>1, <1>2, PaymentSafety, PTL DEF Spec, OrderSpec
<1>4. QED BY <1>3, StagesKept
===============================================================================
