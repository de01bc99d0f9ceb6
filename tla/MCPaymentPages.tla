---------------------------- MODULE MCPaymentPages ----------------------------
EXTENDS PaymentPages, TLC

MCUpdates == Payments \X (1 .. MaxAttempts)
MCKeys == {<<"payments", NoOrder>>}
MCTotal == [o \in Orders |-> CHOOSE a \in Amounts : \A b \in Amounts : b <= a]

\* Neither an action nor an invariant names a payment.
Interchangeable == Permutations(Payments)

\* Bounds: the pages visited, where the others mount no more than these do; once
\* the order is placed the tab stays with it, since the form, whose order is at
\* hand, mounts as little as the shop does; the order's answer is in before its
\* first payment is submitted, since it takes the tab to the form as a link does;
\* and no PATCH gets through, since the payer's is refused and the page's query is
\* not of orders.
Visited == {"shop", "checkout", "review", "form", "payments"} \cup Reports
Shopping == {"shop", "checkout", "review"}
MCNext ==
  /\ PagesNext
  /\ view'.at \in Visited
  /\ view'.at \in Shopping => view' = view \/ \A o \in Orders : status[o] = "NONE"
  /\ view'.at = "confirmed" => view'.payment # NoPayment
  /\ placing' # {} => \A p \in Payments : at'[p] = "idle"
  /\ \A p \in Payments : at'[p] # "patch"

MCSpec == PagesInit /\ [][MCNext]_allVars
===============================================================================
