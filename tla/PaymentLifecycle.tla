--------------------------- MODULE PaymentLifecycle ---------------------------
(***************************************************************************)
(* What the payment journal promises about money: a row is written before  *)
(* the gateway is asked to charge, the charge happens while the row says   *)
(* PROCESSING and at most once, the row then tells truthfully whether it   *)
(* happened, and only money that was taken is ever marked given back.      *)
(***************************************************************************)
CONSTANT Payments

VARIABLES row,         \* status of each payment's journal row, or "NONE"
          captured     \* has the gateway taken the money?

vars == <<row, captured>>

Init ==
  /\ row = [p \in Payments |-> "NONE"]
  /\ captured = [p \in Payments |-> FALSE]

Move(p, from, to) == row[p] = from /\ row' = [row EXCEPT ![p] = to]

Open(p)   == Move(p, "NONE", "PENDING") /\ UNCHANGED captured
Begin(p)  == Move(p, "PENDING", "PROCESSING") /\ UNCHANGED captured
Charge(p) == /\ row[p] = "PROCESSING" /\ ~captured[p]
             /\ captured' = [captured EXCEPT ![p] = TRUE]
             /\ UNCHANGED row
Settle(p) == /\ Move(p, "PROCESSING", IF captured[p] THEN "SUCCESS" ELSE "FAILED")
             /\ UNCHANGED captured
Refund(p) == Move(p, "SUCCESS", "REFUNDED") /\ UNCHANGED captured

Next == \E p \in Payments :
          Open(p) \/ Begin(p) \/ Charge(p) \/ Settle(p) \/ Refund(p)

Spec == Init /\ [][Next]_vars
===============================================================================
