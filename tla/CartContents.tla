---------------------------- MODULE CartContents ------------------------------
(***************************************************************************)
(* What the Cart Service promises when its calls do not get in each        *)
(* other's way: a call takes effect all at once, between its arrival and   *)
(* its answer, on its own user's cart, or it fails and has none; it is     *)
(* answered "ok" only after its effect.                                    *)
(***************************************************************************)
EXTENDS Naturals, Functions

CONSTANTS Users, Products, Stock, ItemIds, Calls, Requests

VARIABLES basket,     \* each user's lines: item id -> [product, quantity]
          asked       \* what each call asks, and how far it is

vars == <<basket, asked>>

NoLines == [i \in {} |-> 0]

Ended == [at : {"idle", "ok", "failed"}]

Init ==
  /\ basket = [u \in Users |-> NoLines]
  /\ asked = [c \in Calls |-> [at |-> "idle"]]

Ask(c) ==
  /\ asked[c] \in Ended
  /\ \E r \in Requests : asked' = [asked EXCEPT ![c] = [at |-> "asked", req |-> r]]
  /\ UNCHANGED basket

Line(r) == [product |-> r.product, quantity |-> r.quantity]
WithLine(b, i, line) == [j \in DOMAIN b \cup {i} |-> IF j = i THEN line ELSE b[j]]

\* The lines a request may leave behind; none if it cannot be granted.
Added(r, b) ==
  LET same == {i \in DOMAIN b : b[i].product = r.product}
  IN  IF same # {}
      THEN {[b EXCEPT ![i].quantity = @ + r.quantity] : i \in same}
      ELSE {WithLine(b, i, Line(r)) : i \in ItemIds \ DOMAIN b}

Outcomes(r, b) ==
  CASE r.op = "add"    -> Added(r, b)
    [] r.op = "set"    -> IF r.id \in DOMAIN b
                          THEN {[b EXCEPT ![r.id].quantity = r.quantity]} ELSE {}
    [] r.op = "remove" -> {Restrict(b, DOMAIN b \ {r.id})}
    [] r.op = "clear"  -> {NoLines}
    [] r.op = "get"    -> {b}

InStock(b) == \A i \in DOMAIN b : b[i].quantity <= Stock[b[i].product]

End(c, a) == asked' = [asked EXCEPT ![c] = [at |-> a]]

\* The effect, ahead of the answer or together with it.
Act(c) ==
  LET r == asked[c].req
  IN  /\ asked[c].at = "asked"
      /\ \E b \in Outcomes(r, basket[r.user]) :
           InStock(b) /\ basket' = [basket EXCEPT ![r.user] = b]
      /\ asked' = [asked EXCEPT ![c].at = "done"] \/ End(c, "ok")

Answer(c) ==
  /\ asked[c].at = "done"
  /\ End(c, "ok") \/ End(c, "failed")
  /\ UNCHANGED basket

Refuse(c) ==
  /\ asked[c].at = "asked"
  /\ End(c, "failed")
  /\ UNCHANGED basket

\* Any number of calls may be refused or cut off at once.
Stop ==
  /\ asked' = [c \in Calls |-> IF asked[c] \in Ended THEN asked[c]
                                                   ELSE [at |-> "failed"]]
  /\ UNCHANGED basket

Next == Stop \/ \E c \in Calls : Ask(c) \/ Act(c) \/ Answer(c) \/ Refuse(c)

Spec == Init /\ [][Next]_vars
===============================================================================
