---------------------------- MODULE OrderLifecycle ----------------------------
(***************************************************************************)
(* What the Order Service promises about one order, whoever updates it and *)
(* however many at once: the row is placed PENDING and from then on moves  *)
(* along the edges of the state machine that isValidTransition draws.      *)
(***************************************************************************)
CONSTANT Orders

VARIABLE status        \* the persisted status of each order

\* OrderStatus; "NONE" stands for an id with no row
Placed == {"PENDING", "PAYMENT_PENDING", "PAID", "PAYMENT_FAILED",
           "PROCESSING", "CANCELLED", "COMPLETED"}
Statuses == Placed \cup {"NONE"}

\* allowedTransitions, without the from = to shortcut
Successors(s) ==
  CASE s = "PENDING"         -> {"PAYMENT_PENDING", "CANCELLED"}
    [] s = "PAYMENT_PENDING" -> {"PAID", "PAYMENT_FAILED", "CANCELLED"}
    [] s = "PAYMENT_FAILED"  -> {"PAYMENT_PENDING", "CANCELLED"}
    [] s = "PAID"            -> {"PROCESSING", "CANCELLED"}
    [] s = "PROCESSING"      -> {"COMPLETED", "CANCELLED"}
    [] OTHER                 -> {}

Init == status = [o \in Orders |-> "NONE"]

Place(o) ==
  /\ status[o] = "NONE"
  /\ status' = [status EXCEPT ![o] = "PENDING"]

Advance(o) ==
  \E s \in Successors(status[o]) : status' = [status EXCEPT ![o] = s]

Next == \E o \in Orders : Place(o) \/ Advance(o)

Spec == Init /\ [][Next]_status
===============================================================================
