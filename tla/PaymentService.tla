---------------------------- MODULE PaymentService ----------------------------
(***************************************************************************)
(* The Payment Service together with the Order Service it reads orders     *)
(* from and reports to.  processPayment is one action per await: fetch the *)
(* order, insert the journal row, mark it PROCESSING, charge, settle the   *)
(* row, PATCH the order's status (with the client's timeout and retries),  *)
(* answer.  Each of its writes stands on its own: there is no transaction  *)
(* around them and nothing resumes a payment that was cut short.           *)
(***************************************************************************)
EXTENDS OrderService, Naturals

CONSTANTS Payments,     \* calls of POST /payments, each used once
          Refunds,      \* calls of POST /payments/:id/refund in service
          Amounts,      \* amounts a body may carry
          Total,        \* total_amount of each order, never updated
          MaxAttempts   \* 1 + HTTP_RETRY_COUNT

ASSUME AmountsArePositive == Amounts \subseteq Nat \ {0}
ASSUME TotalsAreAmounts == Total \in [Orders -> Amounts]
ASSUME AtLeastOneAttempt == MaxAttempts \in Nat \ {0}
ASSUME AttemptsAreUpdates == Payments \X (1 .. MaxAttempts) \subseteq Updates

VARIABLES at,           \* the await each processPayment is at, or its answer
          request,      \* the order, payer and amount of each call
          verdict,      \* gatewayResult.status, or that the gateway threw
          tries,        \* PATCH attempts made for each payment
          row,          \* status of the payment's journal row
          captured,     \* auxiliary: the gateway has taken the money
          refund        \* where each refund call is

payVars == <<at, request, verdict, tries, row, captured>>
vars == <<orderVars, payVars, refund>>

\* PATCH calls that do not come from the payment service
Console == Updates \ (Payments \X (1 .. MaxAttempts))

RowStatuses == {"NONE", "PENDING", "PROCESSING", "SUCCESS", "FAILED", "REFUNDED"}
Payable == {"PENDING", "PAYMENT_PENDING", "PAYMENT_FAILED"}
Replies == {"created", "rejected", "failed"}
Awaits == {"fetch", "create", "mark", "gateway", "settle", "notify", "patch"}
NoRequest == [order |-> "none"]

OrderOf(p) == request[p].order
GoTo(p, step) == at' = [at EXCEPT ![p] = step]

-------------------------------------------------------------------------------
Init ==
  /\ OrderInit
  /\ at = [p \in Payments |-> "idle"]
  /\ request = [p \in Payments |-> NoRequest]
  /\ verdict = [p \in Payments |-> "none"]
  /\ tries = [p \in Payments |-> 0]
  /\ row = [p \in Payments |-> "NONE"]
  /\ captured = [p \in Payments |-> FALSE]
  /\ refund = [r \in Refunds |-> Answered("idle")]

(***************************************************************************)
(* POST /payments.  A body without an amount is charged the order's total, *)
(* which the controller has just read: it is the body that carries it.     *)
(***************************************************************************)
Pay(p, o, user, amount) ==
  /\ at[p] = "idle"
  /\ GoTo(p, "fetch")
  /\ request' = [request EXCEPT ![p] = [order |-> o, payer |-> user, amount |-> amount]]
  /\ UNCHANGED <<orderVars, verdict, tries, row, captured, refund>>

\* Mutant: whose order it is is not checked.
EligibleForAnyone(p) ==
  /\ status[OrderOf(p)] \in Payable
  /\ request[p].amount = Total[OrderOf(p)]

\* The order exists, is the payer's, may be paid, and costs what the body says.
Eligible(p) ==
  /\ owner[OrderOf(p)] = request[p].payer
  /\ status[OrderOf(p)] \in Payable
  /\ request[p].amount = Total[OrderOf(p)]

FetchOrder(p) ==
  /\ at[p] = "fetch"
  /\ GoTo(p, IF Eligible(p) THEN "create" ELSE "rejected")
  /\ UNCHANGED <<orderVars, request, verdict, tries, row, captured, refund>>

CreateRow(p) ==
  /\ at[p] = "create"
  /\ row' = [row EXCEPT ![p] = "PENDING"]
  /\ GoTo(p, "mark")
  /\ UNCHANGED <<orderVars, request, verdict, tries, captured, refund>>

\* Mutant: the row is marked in memory only.
MarkUnsaved(p) ==
  /\ at[p] = "mark"
  /\ GoTo(p, "gateway")
  /\ UNCHANGED <<orderVars, request, verdict, tries, row, captured, refund>>

MarkProcessing(p) ==
  /\ at[p] = "mark"
  /\ row' = [row EXCEPT ![p] = "PROCESSING"]
  /\ GoTo(p, "gateway")
  /\ UNCHANGED <<orderVars, request, verdict, tries, captured, refund>>

\* The mock gateway charges or declines; the service also expects a throw.
CallGateway(p) ==
  /\ at[p] = "gateway"
  /\ \E v \in {"SUCCESS", "FAILED", "threw"} :
       /\ verdict' = [verdict EXCEPT ![p] = v]
       /\ captured' = [captured EXCEPT ![p] = v = "SUCCESS"]
  /\ GoTo(p, "settle")
  /\ UNCHANGED <<orderVars, request, tries, row, refund>>

\* Mutant: the row is not saved before the order is told.
SettleUnsaved(p) ==
  /\ at[p] = "settle"
  /\ GoTo(p, "notify")
  /\ UNCHANGED <<orderVars, request, verdict, tries, row, captured, refund>>

SettleRow(p) ==
  /\ at[p] = "settle"
  /\ row' = [row EXCEPT ![p] = IF verdict[p] = "SUCCESS" THEN "SUCCESS" ELSE "FAILED"]
  /\ GoTo(p, "notify")
  /\ UNCHANGED <<orderVars, request, verdict, tries, captured, refund>>

\* The GET, an INSERT or an UPDATE fails for good: the caller gets a 5xx and
\* the row stays as it was.
StepFails(p) ==
  /\ at[p] \in {"fetch", "create", "mark", "settle"}
  /\ GoTo(p, "failed")
  /\ UNCHANGED <<orderVars, request, verdict, tries, row, captured, refund>>

(***************************************************************************)
(* orderClient.updateOrderStatus, with the payer's own token.  A refusal   *)
(* is final; a 5xx, a reset or the timeout is tried again, although a call *)
(* that timed out may still be running in the Order Service.  Whatever     *)
(* comes of it, the outcome of the PATCH is logged and swallowed.          *)
(***************************************************************************)
Reply(p) == IF verdict[p] = "threw" THEN "failed" ELSE "created"
Attempt(p) == <<p, tries[p]>>
TryAgain(p) == GoTo(p, IF tries'[p] < MaxAttempts THEN "notify" ELSE Reply(p))

NextStatus(p) == IF verdict[p] = "SUCCESS" THEN "PAID" ELSE "PAYMENT_FAILED"

SendPatch(p) ==
  /\ at[p] = "notify"
  /\ tries' = [tries EXCEPT ![p] = @ + 1]
  /\ PatchStatus(<<p, tries'[p]>>, request[p].payer, OrderOf(p), NextStatus(p))
  /\ GoTo(p, "patch")
  /\ UNCHANGED <<request, verdict, row, captured, refund>>

\* No connection: the request does not reach the Order Service.
PatchUnsent(p) ==
  /\ at[p] = "notify"
  /\ tries' = [tries EXCEPT ![p] = @ + 1]
  /\ TryAgain(p)
  /\ UNCHANGED <<orderVars, request, verdict, row, captured, refund>>

PatchAnswered(p) ==
  /\ at[p] = "patch"
  /\ call[Attempt(p)].at \in {"ok", "rejected"}
  /\ GoTo(p, Reply(p))
  /\ UNCHANGED <<orderVars, request, verdict, tries, row, captured, refund>>

\* Mutant: the failed attempt is not counted.
PatchFailsUncounted(p) ==
  /\ at[p] = "patch"
  /\ tries' = [tries EXCEPT ![p] = @ - 1]
  /\ GoTo(p, "notify")
  /\ UNCHANGED <<orderVars, request, verdict, row, captured, refund>>

\* Answered 5xx, timed out while still being served, or its answer was lost.
PatchFails(p) ==
  /\ at[p] = "patch"
  /\ UNCHANGED tries
  /\ TryAgain(p)
  /\ UNCHANGED <<orderVars, request, verdict, row, captured, refund>>

\* The client's circuit breaker for this URL is open: no attempt is made.
BreakerRefuses(p) ==
  /\ at[p] = "notify" /\ tries[p] = 0
  /\ GoTo(p, Reply(p))
  /\ UNCHANGED <<orderVars, request, verdict, tries, row, captured, refund>>

-------------------------------------------------------------------------------
(***************************************************************************)
(* POST /payments/:id/refund: findById and every check on what it returns, *)
(* then save.  validateStatusTransition lets REFUNDED "move" to REFUNDED.  *)
(***************************************************************************)
RefundableUnlessOpen(p, user, amount) ==     \* mutant: FAILED may be refunded
  /\ row[p] \in {"SUCCESS", "FAILED", "REFUNDED"}
  /\ user = request[p].payer \/ user \in Admins
  /\ amount <= request[p].amount

Refundable(p, user, amount) ==
  /\ row[p] \in {"SUCCESS", "REFUNDED"}
  /\ user = request[p].payer \/ user \in Admins
  /\ amount <= request[p].amount

RequestRefund(r, p, user, amount) ==
  /\ refund[r].at # "save"
  /\ refund' = [refund EXCEPT ![r] =
                  IF Refundable(p, user, amount)
                  THEN [at |-> "save", payment |-> p]
                  ELSE Answered("rejected")]
  /\ UNCHANGED <<orderVars, payVars>>

\* Only the status is written: no refunded amount is kept.
SaveRefund(r) ==
  /\ refund[r].at = "save"
  /\ row' = [row EXCEPT ![refund[r].payment] = "REFUNDED"]
  /\ refund' = [refund EXCEPT ![r] = Answered("ok")]
  /\ UNCHANGED <<orderVars, at, request, verdict, tries, captured>>

FailRefund(r) ==
  /\ refund[r].at = "save"
  /\ refund' = [refund EXCEPT ![r] = Answered("failed")]
  /\ UNCHANGED <<orderVars, payVars>>

\* SIGTERM: every payment and refund under way is dropped where it stands.
PaymentServiceStops ==
  /\ \/ \E p \in Payments : at[p] \in Awaits
     \/ \E r \in Refunds : refund[r].at = "save"
  /\ at' = [p \in Payments |-> IF at[p] \in Awaits THEN "failed" ELSE at[p]]
  /\ refund' = [r \in Refunds |-> IF refund[r].at = "save" THEN Answered("failed")
                                                           ELSE refund[r]]
  /\ UNCHANGED <<orderVars, request, verdict, tries, row, captured>>

-------------------------------------------------------------------------------
ProcessPayment(p) ==
  \/ FetchOrder(p) \/ CreateRow(p) \/ MarkProcessing(p)
  \/ CallGateway(p) \/ SettleRow(p) \/ StepFails(p)
  \/ SendPatch(p) \/ PatchUnsent(p) \/ PatchAnswered(p) \/ PatchFails(p)
  \/ BreakerRefuses(p)

OrderServiceStep ==
  /\ \/ \E o \in Orders, user \in Users : PlaceOrder(o, user)
     \/ \E u \in Console, user \in Users, o \in Orders, s \in Placed :
          PatchStatus(u, user, o, s)
     \/ \E u \in Updates : HandleUpdate(u)
     \/ OrderServiceStops
  /\ UNCHANGED <<payVars, refund>>

Next ==
  \/ OrderServiceStep
  \/ \E p \in Payments :
       \/ \E o \in Orders, user \in Users, a \in Amounts : Pay(p, o, user, a)
       \/ ProcessPayment(p)
  \/ \E r \in Refunds :
       \/ \E p \in Payments, user \in Users, a \in Amounts : RequestRefund(r, p, user, a)
       \/ SaveRefund(r)
       \/ FailRefund(r)
  \/ PaymentServiceStops

Spec == Init /\ [][Next]_vars

\* Every await of the two services settles: queries by the driver, calls by
\* axios' timeout, the gateway by its own bounded delay.
FairSpec ==
  /\ Spec
  /\ \A p \in Payments : WF_vars(ProcessPayment(p))
  /\ \A u \in Updates : WF_vars(HandleUpdate(u) /\ UNCHANGED <<payVars, refund>>)

-------------------------------------------------------------------------------
TypeOK ==
  /\ OrderTypeOK
  /\ at \in [Payments -> {"idle"} \cup Awaits \cup Replies]
  /\ request \in [Payments -> {NoRequest} \cup
                      [order : Orders, payer : Users, amount : Amounts]]
  /\ verdict \in [Payments -> {"none", "SUCCESS", "FAILED", "threw"}]
  /\ tries \in [Payments -> 0 .. MaxAttempts]
  /\ row \in [Payments -> RowStatuses]
  /\ captured \in [Payments -> BOOLEAN]
  /\ refund \in [Refunds -> Quiet \cup
                      [at : {"save"}, payment : Payments]]

(***************************************************************************)
(* Wherever a payment is cut short, by a failed query or by the process    *)
(* stopping, the journal does not lie about money: money was taken only    *)
(* for a row that says PROCESSING (its fate unknown) or SUCCESS (since     *)
(* perhaps REFUNDED), and a row that says SUCCESS or REFUNDED stands for   *)
(* money that was taken, from the order's owner, at the order's total.     *)
(***************************************************************************)
JournalIsTruthful ==
  \A p \in Payments :
    /\ captured[p] => row[p] \in {"PROCESSING", "SUCCESS", "REFUNDED"}
    /\ row[p] \in {"SUCCESS", "REFUNDED"} =>
         /\ captured[p]
         /\ owner[OrderOf(p)] = request[p].payer
         /\ request[p].amount = Total[OrderOf(p)]

(***************************************************************************)
(* The two services agree on what happened: a PATCH that the payment       *)
(* service sent, however late the Order Service gets round to it and       *)
(* whatever became of its sender, marks the payment's own order, as PAID   *)
(* only if the journal already holds the charge, as PAYMENT_FAILED only if *)
(* the journal holds that there was none.                                  *)
(***************************************************************************)
Outcome(p) == IF row[p] = "FAILED" THEN "PAYMENT_FAILED" ELSE "PAID"

NotifiesWhatIsJournaled ==
  \A p \in Payments, k \in 1 .. MaxAttempts :
    Serving(<<p, k>>) =>
      /\ row[p] \in {"SUCCESS", "REFUNDED", "FAILED"}
      /\ call[<<p, k>>].order = OrderOf(p)
      /\ call[<<p, k>>].target = Outcome(p)

(***************************************************************************)
(* The journal implements the payment lifecycle: write-ahead, charge once, *)
(* settle to the truth, refund only what was charged, under every          *)
(* interleaving of payments, refunds, retries and stops.                   *)
(***************************************************************************)
Journal == INSTANCE PaymentLifecycle
ImplementsLifecycle == Journal!Spec

(***************************************************************************)
(* A payer is always answered, however the order service behaves: the      *)
(* retries of the last PATCH are bounded and its failure is swallowed.     *)
(***************************************************************************)
PayersAreAnswered ==
  \A p \in Payments : at[p] = "fetch" ~> at[p] \in Replies

-------------------------------------------------------------------------------
(* What the documentation promises and the code does not keep.             *)

(* An order is charged at most once: README's double-billing check.        *)
ChargedOnce ==
  \A p, q \in Payments :
    captured[p] /\ captured[q] /\ OrderOf(p) = OrderOf(q) => p = q

(* After a successful payment is answered, its order has been PAID.        *)
SuccessMarksPaid ==
  \A p \in Payments :
    at[p] = "created" /\ verdict[p] = "SUCCESS" => "PAID" \in held[OrderOf(p)]

-------------------------------------------------------------------------------
(* What the invariants above rest on: how far the row, the charge and the  *)
(* verdict are at each await.                                              *)
Progress(p) ==
  /\ captured[p] = (verdict[p] = "SUCCESS")
  /\ at[p] = "idle" => tries[p] = 0
  /\ at[p] # "idle" => request[p] # NoRequest
  /\ at[p] \in {"idle", "fetch", "create", "rejected"} => row[p] = "NONE"
  /\ at[p] = "mark" => row[p] = "PENDING"
  /\ at[p] \in {"gateway", "settle"} => row[p] = "PROCESSING"
  /\ at[p] \in {"idle", "fetch", "create", "mark", "gateway", "rejected"}
       => verdict[p] = "none" /\ tries[p] = 0
  /\ at[p] = "settle" => verdict[p] # "none" /\ tries[p] = 0
  /\ at[p] \in {"notify", "patch", "created"} =>
       row[p] \in IF captured[p] THEN {"SUCCESS", "REFUNDED"} ELSE {"FAILED"}
  /\ at[p] \in Awaits \ {"fetch"} =>
       /\ owner[OrderOf(p)] = request[p].payer
       /\ request[p].amount = Total[OrderOf(p)]
  /\ at[p] = "notify" => tries[p] < MaxAttempts

Unsent == \A p \in Payments, k \in 1 .. MaxAttempts :
            k > tries[p] => ~Serving(<<p, k>>)

PlacedAreOwned ==
  \A o \in Orders : status[o] = "NONE" => owner[o] = Nobody

RefundsAreOfCharges ==
  \A r \in Refunds : refund[r].at = "save" =>
    row[refund[r].payment] \in {"SUCCESS", "REFUNDED"}

PayInv ==
  /\ TypeOK
  /\ \A p \in Payments : Progress(p)
  /\ JournalIsTruthful
  /\ NotifiesWhatIsJournaled
  /\ Unsent
  /\ RefundsAreOfCharges
  /\ PlacedAreOwned
===============================================================================
