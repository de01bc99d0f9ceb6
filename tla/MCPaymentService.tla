--------------------------- MODULE MCPaymentService ---------------------------
EXTENDS PaymentService

CONSTANT Consoles      \* PATCH calls made by operators

MCUpdates == Consoles \cup (Payments \X (1 .. MaxAttempts))
MCTotal == [o \in Orders |-> CHOOSE a \in Amounts : \A b \in Amounts : b <= a]

\* The services on a good day: no query, call or process fails under them.
Fault ==
  \/ PaymentServiceStops \/ OrderServiceStops
  \/ \E u \in Updates : FailUpdate(u)
  \/ \E p \in Payments :
       StepFails(p) \/ PatchUnsent(p) \/ PatchFails(p) \/ BreakerRefuses(p)

CalmSpec == Init /\ [][Next /\ ~Fault]_vars

\* ... and no two payments are in progress at once.
OneAtATime == \A p, q \in Payments : at[p] \in Awaits /\ at[q] \in Awaits => p = q

CalmSequentialSpec == Init /\ [][Next /\ ~Fault /\ OneAtATime']_vars
===============================================================================
