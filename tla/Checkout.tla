------------------------------- MODULE Checkout --------------------------------
(***************************************************************************)
(* POST /orders, createOrder, on top of the Cart Service: the Order        *)
(* Service asks the Auth Service who is calling, reads the cart, looks     *)
(* every line's product up in the Product Service, saves the order, and    *)
(* then clears the cart with a DELETE that is retried and whose failure is *)
(* swallowed.  The shopper's own calls go on meanwhile, from another tab   *)
(* say, and run from await to await as CartService has them.               *)
(***************************************************************************)
EXTENDS CartService

CONSTANTS Checkouts,    \* calls of POST /orders, each used once
          MaxAttempts   \* 1 + HTTP_RETRY_COUNT, for the DELETE

\* <<k, 0>> is the GET of checkout k that is answered, if one is, and <<k, i>>
\* the i-th attempt of its DELETE.
OrderCalls == Checkouts \X (0 .. MaxAttempts)
ShopperCalls == Calls \ OrderCalls

ASSUME AtLeastOneAttempt == MaxAttempts \in Nat \ {0}
ASSUME OrdersCallTheCart == OrderCalls \subseteq Calls

VARIABLES at,           \* the await each createOrder is at, or its answer
          user,         \* whose checkout it is
          lines,        \* the cart as it was read
          left,         \* lines whose product is still to be looked up
          order,        \* the saved order's lines; none if there is no order
          tries,        \* DELETE attempts made
          shared        \* auxiliary: checkouts that a writing call of the
                        \* shopper's overlapped, from the read of the cart on

orderVars == <<at, user, lines, left, order, tries>>
checkoutVars == <<vars, orderVars, shared>>

Steps == {"auth", "cart", "check", "save", "clear", "delete"}
Answers == {"created", "rejected", "failed"}
Pending(k) == at[k] \in Steps
GoTo(k, step) == at' = [at EXCEPT ![k] = step]

\* The checkout has read the cart and may still clear it, itself or by an
\* attempt that it has given up.
Serving(k) == \E i \in 1 .. MaxAttempts : Running(<<k, i>>)
PastRead(k) == at[k] \in {"check", "save", "clear", "delete"} \/ Serving(k)
Writing(c) == Running(c) /\ call[c].req.op # "get"

-------------------------------------------------------------------------------
CheckoutInit ==
  /\ Init
  /\ at = [k \in Checkouts |-> "idle"]
  /\ user \in [Checkouts -> Users]
  /\ lines = [k \in Checkouts |-> NoLines]
  /\ left = [k \in Checkouts |-> {}]
  /\ order = [k \in Checkouts |-> NoLines]
  /\ tries = [k \in Checkouts |-> 0]
  /\ shared = {}

ShopperCallsCart(c, r) ==
  /\ Receive(c, r)
  /\ shared' = shared \cup {k \in Checkouts : PastRead(k) /\ user[k] = r.user /\ r.op # "get"}
  /\ UNCHANGED orderVars

\* Any call goes on, also one whose answer the Order Service no longer waits for.
CartServiceServes ==
  /\ CartServiceStops \/ \E c \in Calls : Handle(c)
  /\ UNCHANGED <<orderVars, shared>>

-------------------------------------------------------------------------------
CreateOrder(k) ==
  /\ at[k] = "idle"
  /\ GoTo(k, "auth")
  /\ UNCHANGED <<vars, user, lines, left, order, tries, shared>>

\* authClient.validateToken, then the GET /cart.
ValidateToken(k) ==
  /\ at[k] = "auth"
  /\ \/ GoTo(k, "rejected") /\ UNCHANGED vars
     \/ GoTo(k, "cart") /\ Receive(<<k, 0>>, [op |-> "get", user |-> user[k]])
  /\ UNCHANGED <<user, lines, left, order, tries, shared>>

\* The Cart Service's read that answers the GET; a cart that has to be made
\* first is an empty one.
GetCart(k) ==
  LET b == LinesOf(cart[user[k]])
  IN  /\ at[k] = "cart"
      /\ ReadCart(<<k, 0>>) \/ CreateCart(<<k, 0>>)
      /\ call'[<<k, 0>>].at = "ok"
      /\ lines' = [lines EXCEPT ![k] = b]
      /\ left' = [left EXCEPT ![k] = DOMAIN b]
      /\ GoTo(k, IF b = NoLines THEN "rejected" ELSE "check")
      /\ shared' = IF \E c \in ShopperCalls : Writing(c) /\ User(c) = user[k]
                   THEN shared \cup {k} ELSE shared
      /\ UNCHANGED <<user, order, tries>>

\* Mutant: a line whose product is refused is dropped from the order.
CheckLineDropping(k) ==
  /\ at[k] = "check"
  /\ \E i \in left[k] :
       /\ left' = [left EXCEPT ![k] = @ \ {i}]
       /\ lines' = [lines EXCEPT ![k] = Restrict(@, DOMAIN @ \ {i})] \/ UNCHANGED lines
       /\ GoTo(k, IF left[k] = {i} THEN "save" ELSE "check")
  /\ UNCHANGED <<vars, user, order, tries, shared>>

\* One turn of the loop over the lines: getProductById and the checks.  An
\* administrator edits products, so either outcome may be met each time.
CheckLine(k) ==
  /\ at[k] = "check"
  /\ \E i \in left[k] :
       /\ left' = [left EXCEPT ![k] = @ \ {i}]
       /\ GoTo(k, "rejected") \/ GoTo(k, IF left[k] = {i} THEN "save" ELSE "check")
  /\ UNCHANGED <<vars, user, lines, order, tries, shared>>

\* Mutant: the order is saved with the lines the cart has by now.
SaveFresh(k) ==
  /\ at[k] = "save"
  /\ order' = [order EXCEPT ![k] = LinesOf(cart[user[k]])]
  /\ GoTo(k, "clear")
  /\ UNCHANGED <<vars, user, lines, left, tries, shared>>

SaveOrder(k) ==
  /\ at[k] = "save"
  /\ order' = [order EXCEPT ![k] = lines[k]]
  /\ GoTo(k, "clear")
  /\ UNCHANGED <<vars, user, lines, left, tries, shared>>

\* A GET or the save fails for good: the caller gets a 4xx or 5xx.
StepFails(k) ==
  /\ at[k] \in {"auth", "cart", "check", "save"}
  /\ GoTo(k, "failed")
  /\ UNCHANGED <<vars, user, lines, left, order, tries, shared>>

(***************************************************************************)
(* cartClient.clearCart.  An attempt may not reach the Cart Service, may   *)
(* fail there, or may be served long after axios has given it up.          *)
(***************************************************************************)
SendClear(k) ==
  /\ at[k] = "clear"
  /\ tries' = [tries EXCEPT ![k] = @ + 1]
  /\ UNCHANGED vars \/ Receive(<<k, tries[k] + 1>>, [op |-> "clear", user |-> user[k]])
  /\ GoTo(k, "delete")
  /\ UNCHANGED <<user, lines, left, order, shared>>

ClearAnswered(k) ==
  /\ at[k] = "delete"
  /\ call[<<k, tries[k]>>].at = "ok"
  /\ GoTo(k, "created")
  /\ UNCHANGED <<vars, user, lines, left, order, tries, shared>>

\* Mutant: the failed attempt is not counted.
ClearFailsUncounted(k) ==
  /\ at[k] = "delete"
  /\ tries' = [tries EXCEPT ![k] = @ - 1]
  /\ GoTo(k, "clear")
  /\ UNCHANGED <<vars, user, lines, left, order, shared>>

\* Mutant: a checkout whose cart was not cleared is started over.
ClearFailsRestarting(k) ==
  /\ at[k] = "delete"
  /\ GoTo(k, "cart")
  /\ order' = [order EXCEPT ![k] = NoLines]
  /\ UNCHANGED <<vars, user, lines, left, tries, shared>>

\* A 5xx, a reset or the timeout: again, or logged and swallowed.
ClearFails(k) ==
  /\ at[k] = "delete"
  /\ GoTo(k, IF tries[k] < MaxAttempts THEN "clear" ELSE "created")
  /\ UNCHANGED <<vars, user, lines, left, order, tries, shared>>

\* A 4xx (the token has expired), or an open breaker: swallowed at once.
ClearRefused(k) ==
  /\ at[k] = "clear"
  /\ GoTo(k, "created")
  /\ UNCHANGED <<vars, user, lines, left, order, tries, shared>>

OrderServiceStops ==
  /\ \E k \in Checkouts : Pending(k)
  /\ at' = [k \in Checkouts |-> IF Pending(k) THEN "failed" ELSE at[k]]
  /\ UNCHANGED <<vars, user, lines, left, order, tries, shared>>

Proceed(k) ==
  \/ ValidateToken(k) \/ GetCart(k) \/ CheckLine(k) \/ SaveOrder(k) \/ StepFails(k)
  \/ SendClear(k) \/ ClearAnswered(k) \/ ClearFails(k) \/ ClearRefused(k)

CheckoutNext ==
  \/ \E c \in ShopperCalls, r \in Requests : ShopperCallsCart(c, r)
  \/ CartServiceServes
  \/ \E k \in Checkouts : CreateOrder(k) \/ Proceed(k)
  \/ OrderServiceStops

CheckoutSpec == CheckoutInit /\ [][CheckoutNext]_checkoutVars

\* Every await of createOrder settles: axios has a timeout, the driver too.
FairCheckoutSpec ==
  CheckoutSpec /\ \A k \in Checkouts : WF_checkoutVars(Proceed(k))

-------------------------------------------------------------------------------
CheckoutTypeOK ==
  /\ at \in [Checkouts -> {"idle"} \cup Steps \cup Answers]
  /\ user \in [Checkouts -> Users]
  /\ DOMAIN lines = Checkouts /\ DOMAIN order = Checkouts
  /\ left \in [Checkouts -> SUBSET ItemIds]
  /\ tries \in [Checkouts -> 0 .. MaxAttempts]
  /\ shared \subseteq Checkouts

(***************************************************************************)
(* Nothing vanishes from a cart: a line leaves it by a call of the shopper *)
(* that takes it out, or by the DELETE of a checkout of theirs that        *)
(* ordered that very line, in that quantity.  What a checkout has not      *)
(* ordered it takes only if the shopper wrote to the cart while it was     *)
(* under way: an addition served whole after the checkout's read, or one   *)
(* that was between its own read and its write by then.  So a checkout     *)
(* that fails or is cut short anywhere costs nothing.                      *)
(***************************************************************************)
TakesOut(c, i) ==
  /\ Running(c) /\ cart[User(c)] = items[i].cart
  /\ call[c].req.op = "clear" \/ (call[c].req.op = "remove" /\ call[c].req.id = i)

Buys(k, i) ==
  /\ Serving(k) /\ cart[user[k]] = items[i].cart
  /\ k \in shared \/ (i \in DOMAIN order[k] /\ order[k][i] = items[i])

NothingVanishes ==
  [][\A i \in DOMAIN items \ DOMAIN items' :
       \/ \E c \in ShopperCalls : TakesOut(c, i)
       \/ \E k \in Checkouts : Buys(k, i)]_checkoutVars

(***************************************************************************)
(* A cart is emptied under its shopper only for an order that is saved,    *)
(* for that shopper, with what the checkout read and checked.              *)
(***************************************************************************)
ClearsFollowOrders ==
  \A k \in Checkouts : at[k] \in {"clear", "delete"} \/ Serving(k) =>
    order[k] = lines[k] /\ lines[k] # NoLines /\ left[k] = {}

(***************************************************************************)
(* Until the last DELETE of a checkout is served, the cart is what the     *)
(* checkout read or is empty, unless the shopper has written to it.        *)
(***************************************************************************)
OnlySharedAtRisk ==
  \A k \in Checkouts : PastRead(k) /\ k \notin shared =>
    /\ LinesOf(cart[user[k]]) \in {lines[k], NoLines}
    /\ \A c \in ShopperCalls : ~(Writing(c) /\ User(c) = user[k])

(***************************************************************************)
(* Every checkout is answered, whatever the Cart Service does with the     *)
(* DELETE: the order is not lost to a cart that cannot be cleared.         *)
(***************************************************************************)
CheckoutsAnswered == \A k \in Checkouts : at[k] = "auth" ~> at[k] \in Answers

-------------------------------------------------------------------------------
Progress(k) ==
  /\ at[k] = "check" => left[k] # {} /\ left[k] \subseteq DOMAIN lines[k]
  /\ at[k] = "save" => left[k] = {} /\ lines[k] # NoLines
  /\ at[k] = "clear" => tries[k] < MaxAttempts
  /\ at[k] = "delete" => tries[k] \in 1 .. MaxAttempts
  /\ at[k] \in {"idle", "auth", "cart", "check", "save"} => ~Serving(k) /\ tries[k] = 0
  /\ order[k] # NoLines => at[k] \in {"clear", "delete", "created", "failed"}

SentByOrders(k) ==
  /\ Running(<<k, 0>>) => call[<<k, 0>>].req = [op |-> "get", user |-> user[k]]
  /\ \A i \in 1 .. MaxAttempts :
       Running(<<k, i>>) => /\ call[<<k, i>>].at = "clear"
                            /\ call[<<k, i>>].req = [op |-> "clear", user |-> user[k]]

CheckoutInv ==
  /\ CartInv
  /\ CheckoutTypeOK
  /\ \A k \in Checkouts : Progress(k) /\ SentByOrders(k)
  /\ ClearsFollowOrders
  /\ OnlySharedAtRisk
===============================================================================
