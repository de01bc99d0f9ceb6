---------------------------- MODULE Checkout_proofs ----------------------------
(***************************************************************************)
(* Safety of the checkout, for any shoppers, products, stocks, cart lines  *)
(* and calls, number of checkouts and of DELETE attempts.                  *)
(***************************************************************************)
EXTENDS Checkout, CartService_proofs

USE AtLeastOneAttempt
USE DEF Steps, Answers, Pending, GoTo, Serving, PastRead, Writing,
        Ends, Running, User, orderVars

-------------------------------------------------------------------------------
(* What a step of the Cart Service does to its calls and its tables.       *)
MovesOn(c) ==
  /\ DOMAIN call' = Calls /\ \A d \in Calls \ {c} : call'[d] = call[d]
  /\ ~Running(c)' \/ (call'[c].req = call[c].req /\ call[c].at # "clear")

LEMMA EndsCall ==
  ASSUME CartInv, NEW c \in Calls, NEW a \in Ends, End(c, a)
  PROVE  MovesOn(c)
<1>1. DOMAIN call = Calls
  BY DEF CartInv, TypeOK
<1>2. QED BY <1>1 DEF End, Idle, MovesOn

LEMMA ChangesCall ==
  ASSUME CartInv, NEW c \in Calls, NEW r, call' = [call EXCEPT ![c] = r],
         r.req = call[c].req, call[c].at # "clear"
  PROVE  MovesOn(c)
<1>1. DOMAIN call = Calls
  BY DEF CartInv, TypeOK
<1>2. QED BY <1>1 DEF MovesOn

LEMMA HandledCall ==
  ASSUME CartInv, NEW c \in Calls, Handle(c)
  PROVE  Running(c) /\ MovesOn(c)
<1>1. /\ DOMAIN call = Calls
      /\ call[c] = [at |-> call[c].at, req |-> call[c].req, mine |-> call[c].mine,
                    seen |-> call[c].seen]
      /\ call[c].mine = [cart |-> call[c].mine.cart, lines |-> call[c].mine.lines]
  BY CallsAreSound DEF CartInv, CallsSound, IsCall, IsCopy
<1>2. Running(c)
  BY DEF Handle, FindItem, CheckProduct, ReadCart, CreateCart, SaveLooks, SaveWrites, DeleteItem,
         ClearCart, FailCall
<1> SUFFICES MovesOn(c)
  BY <1>2
<1>3. \A a : call[c].at # "clear" /\ Await(c, a) => MovesOn(c)
  BY <1>1, ChangesCall DEF Await
<1>4. ASSUME NEW k, NEW ls, Merge(c, k, ls), call[c].at # "clear"
      PROVE  MovesOn(c)
  <2>1. CASE End(c, "rejected")
    BY <2>1, EndsCall
  <2>2. CASE \E m : call' = [call EXCEPT ![c].at = "save", ![c].mine = [cart |-> k, lines |-> m]]
    <3>1. PICK m, n : n = [cart |-> k, lines |-> m]
                      /\ call' = [call EXCEPT ![c].at = "save", ![c].mine = n]
      BY <2>2
    <3>2. /\ call'[c] = [at |-> "save", req |-> call[c].req, mine |-> n, seen |-> call[c].seen]
          /\ DOMAIN call' = Calls /\ \A d \in Calls \ {c} : call'[d] = call[d]
      BY <1>1, <3>1, AtAndMine
    <3>3. QED BY <3>2, <1>4 DEF MovesOn
  <2>3. QED BY <1>4, <2>1, <2>2 DEF Merge
<1>5. CASE FindItem(c)
  <2>1. PICK a, n : End(c, "rejected")
                    \/ call' = [call EXCEPT ![c] = [@ EXCEPT !.at = a, !.mine = n]]
    BY <1>5 DEF FindItem
  <2>2. CASE call' = [call EXCEPT ![c] = [@ EXCEPT !.at = a, !.mine = n]]
    <3>1. PICK k : k = [call[c] EXCEPT !.at = a, !.mine = n]
      OBVIOUS
    <3>2. call' = [call EXCEPT ![c] = k] /\ k.req = call[c].req
      BY <1>1, <2>2, <3>1
    <3>3. QED BY <1>5, <3>2, ChangesCall DEF FindItem
  <2>3. QED BY <2>1, <2>2, EndsCall
<1>6. CASE CheckProduct(c)
  <2>1. PICK i, q : i = call[c].req.id /\ q = call[c].req.quantity
    OBVIOUS
  <2>2. CASE call' = [call EXCEPT ![c].at = "save", ![c].mine.lines[i].quantity = q]
    <3>1. PICK n : n = [cart |-> call[c].mine.cart,
                        lines |-> [call[c].mine.lines EXCEPT ![i].quantity = q]]
      OBVIOUS
    <3>2. /\ call'[c] = [at |-> "save", req |-> call[c].req, mine |-> n, seen |-> call[c].seen]
          /\ DOMAIN call' = Calls /\ \A d \in Calls \ {c} : call'[d] = call[d]
      BY <1>1, <2>2, <3>1, AtAndQuantity
    <3>3. call'[c].req = call[c].req
      BY <3>2
    <3>4. call[c].at = "check"
      BY <1>6 DEF CheckProduct
    <3>5. QED BY <3>2, <3>3, <3>4 DEF MovesOn
  <2>3. End(c, "rejected") \/ Await(c, "read")
        \/ call' = [call EXCEPT ![c].at = "save", ![c].mine.lines[i].quantity = q]
    BY <1>6, <2>1 DEF CheckProduct
  <2>4. QED BY <1>3, <1>6, <2>2, <2>3, EndsCall DEF CheckProduct
<1>7. CASE ReadCart(c)
  BY <1>3, <1>4, <1>7, EndsCall DEF ReadCart
<1>8. CASE CreateCart(c)
  BY <1>4, <1>8, EndsCall DEF CreateCart
<1>9. CASE SaveLooks(c)
  <2>1. PICK m : call' = [call EXCEPT ![c] = [@ EXCEPT !.at = "write", !.seen = m]]
    BY <1>9 DEF SaveLooks
  <2>2. /\ call'[c] = [at |-> "write", req |-> call[c].req, mine |-> call[c].mine, seen |-> m]
        /\ DOMAIN call' = Calls /\ \A d \in Calls \ {c} : call'[d] = call[d]
    BY <1>1, <2>1, AtAndSeen
  <2>3. QED BY <1>9, <2>2 DEF SaveLooks, MovesOn
<1>10. CASE SaveWrites(c)
  <2>1. CASE End(c, "failed")
    BY <2>1, EndsCall
  <2>2. CASE call' = [call EXCEPT ![c] = [@ EXCEPT !.at = "show", !.mine = NoCopy, !.seen = NoCopy]]
    <3>1. /\ call'[c] = [at |-> "show", req |-> call[c].req, mine |-> NoCopy, seen |-> NoCopy]
          /\ DOMAIN call' = Calls /\ \A d \in Calls \ {c} : call'[d] = call[d]
      BY <1>1, <2>2, AtMineAndSeen
    <3>2. QED BY <1>10, <3>1 DEF SaveWrites, MovesOn
  <2>3. QED BY <1>10, <2>1, <2>2 DEF SaveWrites
<1>11. CASE DeleteItem(c)
  <2>1. PICK k : k = [call[c] EXCEPT !.at = "show", !.mine = NoCopy]
    OBVIOUS
  <2>2. call' = [call EXCEPT ![c] = k] /\ k.req = call[c].req
    BY <1>1, <1>11, <2>1 DEF DeleteItem
  <2>3. QED BY <1>11, <2>2, ChangesCall DEF DeleteItem
<1>12. CASE ClearCart(c)
  BY <1>12, EndsCall DEF ClearCart
<1>13. CASE FailCall(c)
  BY <1>13, EndsCall DEF FailCall
<1>14. QED
  BY <1>5, <1>6, <1>7, <1>8, <1>9, <1>10, <1>11, <1>12, <1>13 DEF Handle

(* The GETs and the DELETEs of a cart leave its lines, or leave none.      *)
LEMMA ReadsAndClears ==
  ASSUME CartInv, NEW c \in Calls, Handle(c), call[c].req.op \in {"get", "clear"},
         NEW v \in Users
  PROVE  /\ LinesOf(cart[v])' \in {LinesOf(cart[v]), NoLines}
         /\ call[c].req.op = "get" => LinesOf(cart[v])' = LinesOf(cart[v]) /\ items' = items
<1>1. /\ cart \in [Users -> CartIds \cup {NoCart}] /\ items \in [DOMAIN items -> Rows]
      /\ \A i \in DOMAIN items : items[i].cart # NoCart
      /\ call[c].at \notin Ends => User(c) \in Users
  BY RunningCall, NoCartIsNoId DEF CartInv, TypeOK, Rows
<1>2. call[c].at \in {"show", "open", "clear"} /\ (call[c].at = "clear" => call[c].req.op = "clear")
  BY HandledCall, CallsAreSound DEF CartInv, CallsSound, IsCall, Awaits
<1>3. CASE UNCHANGED <<cart, items>>
  BY <1>3 DEF LinesOf
<1>4. CASE CreateCart(c) /\ cart[User(c)] = NoCart
  <2>1. PICK k \in FreshCarts : cart' = [cart EXCEPT ![User(c)] = k]
    BY <1>4 DEF CreateCart
  <2>2. \A i \in DOMAIN items : items[i].cart # k
    BY <2>1 DEF CartInv, RowsBelong, FreshCarts
  <2>3. items' = items /\ {i \in DOMAIN items : items[i].cart = cart'[v]}
                            = {i \in DOMAIN items : items[i].cart = cart[v]}
    BY <1>1, <1>4, <2>1, <2>2 DEF CreateCart
  <2>4. QED BY <2>3 DEF LinesOf
<1>5. CASE ClearCart(c)
  <2>1. CASE v # User(c)
    BY <1>2, <1>5, <2>1, OthersKeepTheirLines DEF ClearCart
  <2>2. CASE v = User(c)
    <3>1. cart'[v] = NoCart /\ DOMAIN items' \subseteq DOMAIN items
          /\ \A i \in DOMAIN items' : items'[i] = items[i]
      BY <1>1, <1>5, <2>2 DEF ClearCart, Restrict
    <3>2. {i \in DOMAIN items' : items'[i].cart = cart'[v]} = {}
      BY <1>1, <3>1
    <3>3. LinesOf(cart[v])' = NoLines
      BY <3>2 DEF LinesOf, Restrict, NoLines
    <3>4. QED BY <1>2, <1>5, <3>3 DEF ClearCart
  <2>3. QED BY <2>1, <2>2
<1>6. QED
  BY <1>2, <1>3, <1>4, <1>5 DEF Handle, FindItem, CheckProduct, ReadCart, CreateCart, SaveLooks,
     SaveWrites, DeleteItem, FailCall

(* Rows are deleted by a call of the user in whose cart they are.          *)
LEMMA WhoDeletes ==
  ASSUME CartInv, NEW c \in Calls, Handle(c), NEW i \in DOMAIN items, i \notin DOMAIN items'
  PROVE  /\ cart[User(c)] = items[i].cart
         /\ call[c].req.op = "clear" \/ (call[c].req.op = "remove" /\ call[c].req.id = i)
<1>1. items' # items
  OBVIOUS
<1>2. CASE DeleteItem(c)
  <2>1. call[c].req.op = "remove" /\ call[c].mine.cart # NoCart /\ Copied(c, call[c].req.id)
    BY <1>2, CallsAreSound DEF DeleteItem, CartInv, CallsSound, IsCall, Copied
  <2>2. i = call[c].req.id
    BY <1>2 DEF DeleteItem, Restrict
  <2>3. PICK u \in Users : items[i].cart = cart[u]
    BY DEF CartInv, RowsBelong
  <2>4. QED BY <2>1, <2>2, <2>3 DEF CartInv, RowsBelong, CartsAreOwn
<1>3. CASE ClearCart(c)
  <2>1. call[c].req.op = "clear"
    BY <1>3, CallsAreSound DEF ClearCart, CartInv, CallsSound, IsCall
  <2>2. QED BY <1>3, <2>1 DEF ClearCart, Restrict
<1>4. ~SaveWrites(c)
  BY <1>1 DEF SaveWrites
<1>5. QED
  BY <1>1, <1>2, <1>3, <1>4 DEF Handle, FindItem, CheckProduct, ReadCart, CreateCart, SaveLooks,
     FailCall

-------------------------------------------------------------------------------
(* The calls of the Order Service and those of the shoppers.               *)
LEMMA OrdersCalls ==
  /\ 0 \in 0 .. MaxAttempts /\ \A i \in 1 .. MaxAttempts : i \in 0 .. MaxAttempts
  /\ \A k \in Checkouts, i \in 0 .. MaxAttempts : <<k, i>> \in Calls
  /\ \A c \in ShopperCalls : c \in Calls /\ \A k \in Checkouts, i \in 0 .. MaxAttempts : c # <<k, i>>
  /\ \A c \in Calls \ ShopperCalls : \E k \in Checkouts, i \in 0 .. MaxAttempts : c = <<k, i>>
  BY OrdersCallTheCart DEF OrderCalls, ShopperCalls

LEMMA CheckoutInitInv == CheckoutInit => CheckoutInv
<1> SUFFICES ASSUME CheckoutInit PROVE CheckoutInv
  OBVIOUS
<1>1. CartInv
  BY CartInit DEF CheckoutInit
<1>2. CheckoutTypeOK
  BY DEF CheckoutInit, CheckoutTypeOK
<1>3. \A c \in Calls : ~Running(c)
  BY DEF CheckoutInit, Init, Idle
<1>4. \A k \in Checkouts : at[k] = "idle" /\ ~Serving(k) /\ ~Running(<<k, 0>>)
                           /\ order[k] = NoLines /\ tries[k] = 0
  BY <1>3, OrdersCalls DEF CheckoutInit
<1>5. \A k \in Checkouts : Progress(k) /\ SentByOrders(k)
  BY <1>3, <1>4, OrdersCalls DEF Progress, SentByOrders
<1>6. ClearsFollowOrders /\ OnlySharedAtRisk
  BY <1>4 DEF ClearsFollowOrders, OnlySharedAtRisk
<1>7. QED BY <1>1, <1>2, <1>5, <1>6 DEF CheckoutInv

(* A step of one checkout that leaves the lines of the carts and all calls *)
(* but its own keeps the invariant if it keeps the checkout's own part.    *)
LEMMA OwnStep ==
  ASSUME CheckoutInv, CartInv', CheckoutTypeOK', NEW k \in Checkouts,
         user' = user, shared \subseteq shared',
         \A v \in Users : LinesOf(cart[v])' = LinesOf(cart[v]),
         \A j \in Checkouts \ {k} :
           UNCHANGED <<at[j], lines[j], left[j], order[j], tries[j]>>,
         \A c \in Calls : (\A i \in 0 .. MaxAttempts : c # <<k, i>>) => UNCHANGED call[c],
         Progress(k)', SentByOrders(k)',
         at'[k] \in {"clear", "delete"} \/ Serving(k)' =>
           order'[k] = lines'[k] /\ lines'[k] # NoLines /\ left'[k] = {},
         PastRead(k)' /\ k \notin shared' =>
           /\ LinesOf(cart[user[k]]) \in {lines'[k], NoLines}
           /\ \A c \in ShopperCalls : ~(Writing(c) /\ User(c) = user[k])
  PROVE  CheckoutInv'
<1> USE DEF CheckoutInv
<1>1. \A j \in Checkouts \ {k}, i \in 0 .. MaxAttempts :
        <<j, i>> \in Calls /\ UNCHANGED call[<<j, i>>]
  BY OrdersCalls
<1>2. \A j \in Checkouts \ {k} : Serving(j)' = Serving(j)
  BY <1>1, OrdersCalls
<1>3. \A j \in Checkouts : Progress(j)' /\ SentByOrders(j)'
  <2> SUFFICES ASSUME NEW j \in Checkouts, j # k PROVE Progress(j)' /\ SentByOrders(j)'
    OBVIOUS
  <2>1. Progress(j)'
    BY <1>2 DEF Progress
  <2>2. SentByOrders(j)'
    BY <1>1, OrdersCalls DEF SentByOrders
  <2>3. QED BY <2>1, <2>2
<1>4. ClearsFollowOrders'
  BY <1>2 DEF ClearsFollowOrders
<1>5. \A c \in ShopperCalls : UNCHANGED call[c]
  BY OrdersCalls
<1>6. \A j \in Checkouts : user[j] \in Users
  BY DEF CheckoutTypeOK
<1>7. OnlySharedAtRisk'
  BY <1>2, <1>5, <1>6 DEF OnlySharedAtRisk
<1>8. QED BY <1>3, <1>4, <1>7

LEMMA CreateOrderStep ==
  ASSUME CheckoutInv, NEW k \in Checkouts, CreateOrder(k), CartInv'
  PROVE  CheckoutInv'
<1> USE DEF CreateOrder, vars, CheckoutInv, CheckoutTypeOK
<1>1. CheckoutTypeOK'
  OBVIOUS
<1>2. Progress(k) /\ Serving(k)' = Serving(k) /\ SentByOrders(k)'
  BY DEF SentByOrders
<1>3. Progress(k)' /\ ~PastRead(k)'
  BY <1>2 DEF Progress
<1>4. \A v \in Users : LinesOf(cart[v])' = LinesOf(cart[v])
  BY DEF LinesOf
<1>5. QED BY <1>1, <1>2, <1>3, <1>4, OwnStep

LEMMA CheckLineStep ==
  ASSUME CheckoutInv, NEW k \in Checkouts, CheckLine(k), CartInv'
  PROVE  CheckoutInv'
<1> USE DEF CheckLine, vars, CheckoutInv, CheckoutTypeOK
<1>1. CheckoutTypeOK'
  OBVIOUS
<1>2. Progress(k) /\ Serving(k)' = Serving(k) /\ SentByOrders(k)'
  BY DEF SentByOrders
<1>3. Progress(k)'
  <2>1. left[k] \subseteq DOMAIN lines[k] /\ ~Serving(k)' /\ order'[k] = NoLines /\ tries[k] = 0
    BY <1>2 DEF Progress
  <2>2. PICK i \in left[k] : /\ left' = [left EXCEPT ![k] = @ \ {i}]
                            /\ at'[k] \in {"rejected", IF left[k] = {i} THEN "save" ELSE "check"}
    OBVIOUS
  <2>3. i \in DOMAIN lines[k] /\ DOMAIN NoLines = {}
    BY <2>1 DEF NoLines
  <2>4. lines[k] # NoLines /\ lines' = lines /\ left'[k] = left[k] \ {i}
    BY <2>2, <2>3
  <2>5. QED BY <2>1, <2>2, <2>4 DEF Progress
<1>4. at'[k] \in {"clear", "delete"} \/ Serving(k)' =>
        order'[k] = lines'[k] /\ lines'[k] # NoLines /\ left'[k] = {}
  BY <1>2 DEF Progress, ClearsFollowOrders
<1>5. PastRead(k)' /\ k \notin shared' =>
        /\ LinesOf(cart[user[k]]) \in {lines'[k], NoLines}
        /\ \A c \in ShopperCalls : ~(Writing(c) /\ User(c) = user[k])
  BY <1>2 DEF OnlySharedAtRisk
<1>6. \A v \in Users : LinesOf(cart[v])' = LinesOf(cart[v])
  BY DEF LinesOf
<1>7. QED BY <1>1, <1>2, <1>3, <1>4, <1>5, <1>6, OwnStep

LEMMA SaveOrderStep ==
  ASSUME CheckoutInv, NEW k \in Checkouts, SaveOrder(k), CartInv'
  PROVE  CheckoutInv'
<1> USE DEF SaveOrder, vars, CheckoutInv, CheckoutTypeOK
<1>1. CheckoutTypeOK'
  OBVIOUS
<1>2. Progress(k) /\ Serving(k)' = Serving(k) /\ SentByOrders(k)'
  BY DEF SentByOrders
<1>3. Progress(k)'
  BY <1>2 DEF Progress
<1>4. at'[k] \in {"clear", "delete"} \/ Serving(k)' =>
        order'[k] = lines'[k] /\ lines'[k] # NoLines /\ left'[k] = {}
  BY <1>2 DEF Progress, ClearsFollowOrders
<1>5. PastRead(k)' /\ k \notin shared' =>
        /\ LinesOf(cart[user[k]]) \in {lines'[k], NoLines}
        /\ \A c \in ShopperCalls : ~(Writing(c) /\ User(c) = user[k])
  BY <1>2 DEF OnlySharedAtRisk
<1>6. \A v \in Users : LinesOf(cart[v])' = LinesOf(cart[v])
  BY DEF LinesOf
<1>7. QED BY <1>1, <1>2, <1>3, <1>4, <1>5, <1>6, OwnStep

LEMMA StepFailsStep ==
  ASSUME CheckoutInv, NEW k \in Checkouts, StepFails(k), CartInv'
  PROVE  CheckoutInv'
<1> USE DEF StepFails, vars, CheckoutInv, CheckoutTypeOK
<1>1. CheckoutTypeOK'
  OBVIOUS
<1>2. Progress(k) /\ Serving(k)' = Serving(k) /\ SentByOrders(k)'
  BY DEF SentByOrders
<1>3. Progress(k)'
  BY <1>2 DEF Progress
<1>4. at'[k] \in {"clear", "delete"} \/ Serving(k)' =>
        order'[k] = lines'[k] /\ lines'[k] # NoLines /\ left'[k] = {}
  BY <1>2 DEF Progress, ClearsFollowOrders
<1>5. PastRead(k)' /\ k \notin shared' =>
        /\ LinesOf(cart[user[k]]) \in {lines'[k], NoLines}
        /\ \A c \in ShopperCalls : ~(Writing(c) /\ User(c) = user[k])
  BY <1>2 DEF OnlySharedAtRisk
<1>6. \A v \in Users : LinesOf(cart[v])' = LinesOf(cart[v])
  BY DEF LinesOf
<1>7. QED BY <1>1, <1>2, <1>3, <1>4, <1>5, <1>6, OwnStep

LEMMA ClearAnsweredStep ==
  ASSUME CheckoutInv, NEW k \in Checkouts, ClearAnswered(k), CartInv'
  PROVE  CheckoutInv'
<1> USE DEF ClearAnswered, vars, CheckoutInv, CheckoutTypeOK
<1>1. CheckoutTypeOK'
  OBVIOUS
<1>2. Progress(k) /\ Serving(k)' = Serving(k) /\ SentByOrders(k)'
  BY DEF SentByOrders
<1>3. Progress(k)'
  BY <1>2 DEF Progress
<1>4. at'[k] \in {"clear", "delete"} \/ Serving(k)' =>
        order'[k] = lines'[k] /\ lines'[k] # NoLines /\ left'[k] = {}
  BY <1>2 DEF Progress, ClearsFollowOrders
<1>5. PastRead(k)' /\ k \notin shared' =>
        /\ LinesOf(cart[user[k]]) \in {lines'[k], NoLines}
        /\ \A c \in ShopperCalls : ~(Writing(c) /\ User(c) = user[k])
  BY <1>2 DEF OnlySharedAtRisk
<1>6. \A v \in Users : LinesOf(cart[v])' = LinesOf(cart[v])
  BY DEF LinesOf
<1>7. QED BY <1>1, <1>2, <1>3, <1>4, <1>5, <1>6, OwnStep

LEMMA ClearFailsStep ==
  ASSUME CheckoutInv, NEW k \in Checkouts, ClearFails(k), CartInv'
  PROVE  CheckoutInv'
<1> USE DEF ClearFails, vars, CheckoutInv, CheckoutTypeOK
<1>1. CheckoutTypeOK'
  OBVIOUS
<1>2. Progress(k) /\ Serving(k)' = Serving(k) /\ SentByOrders(k)'
  BY DEF SentByOrders
<1>3. Progress(k)'
  BY <1>2 DEF Progress
<1>4. at'[k] \in {"clear", "delete"} \/ Serving(k)' =>
        order'[k] = lines'[k] /\ lines'[k] # NoLines /\ left'[k] = {}
  BY <1>2 DEF Progress, ClearsFollowOrders
<1>5. PastRead(k)' /\ k \notin shared' =>
        /\ LinesOf(cart[user[k]]) \in {lines'[k], NoLines}
        /\ \A c \in ShopperCalls : ~(Writing(c) /\ User(c) = user[k])
  BY <1>2 DEF OnlySharedAtRisk
<1>6. \A v \in Users : LinesOf(cart[v])' = LinesOf(cart[v])
  BY DEF LinesOf
<1>7. QED BY <1>1, <1>2, <1>3, <1>4, <1>5, <1>6, OwnStep

LEMMA ClearRefusedStep ==
  ASSUME CheckoutInv, NEW k \in Checkouts, ClearRefused(k), CartInv'
  PROVE  CheckoutInv'
<1> USE DEF ClearRefused, vars, CheckoutInv, CheckoutTypeOK
<1>1. CheckoutTypeOK'
  OBVIOUS
<1>2. Progress(k) /\ Serving(k)' = Serving(k) /\ SentByOrders(k)'
  BY DEF SentByOrders
<1>3. Progress(k)'
  BY <1>2 DEF Progress
<1>4. at'[k] \in {"clear", "delete"} \/ Serving(k)' =>
        order'[k] = lines'[k] /\ lines'[k] # NoLines /\ left'[k] = {}
  BY <1>2 DEF Progress, ClearsFollowOrders
<1>5. PastRead(k)' /\ k \notin shared' =>
        /\ LinesOf(cart[user[k]]) \in {lines'[k], NoLines}
        /\ \A c \in ShopperCalls : ~(Writing(c) /\ User(c) = user[k])
  BY <1>2 DEF OnlySharedAtRisk
<1>6. \A v \in Users : LinesOf(cart[v])' = LinesOf(cart[v])
  BY DEF LinesOf
<1>7. QED BY <1>1, <1>2, <1>3, <1>4, <1>5, <1>6, OwnStep

(* A call that is received is a call of its own.                           *)
LEMMA ReceivedCall ==
  ASSUME CartInv, NEW c \in Calls, NEW r \in Requests, Receive(c, r)
  PROVE  /\ ~Running(c) /\ call'[c].at = FirstAwait(r.op) /\ call'[c].req = r
         /\ \A d \in Calls \ {c} : call'[d] = call[d]
         /\ \A v \in Users : LinesOf(cart[v])' = LinesOf(cart[v])
<1>1. DOMAIN call = Calls
  BY DEF CartInv, TypeOK
<1>2. PICK k : k = [Idle(FirstAwait(r.op)) EXCEPT !.req = r]
  OBVIOUS
<1>3. k.at = FirstAwait(r.op) /\ k.req = r /\ call' = [call EXCEPT ![c] = k]
  BY <1>2 DEF Receive, Idle
<1>4. \A v \in Users : LinesOf(cart[v])' = LinesOf(cart[v])
  BY DEF Receive, LinesOf
<1>5. QED BY <1>1, <1>3, <1>4 DEF Receive

LEMMA OrdersRequests ==
  ASSUME NEW u \in Users
  PROVE  [op |-> "get", user |-> u] \in Requests /\ [op |-> "clear", user |-> u] \in Requests
  BY DEF Requests

LEMMA ValidateTokenStep ==
  ASSUME CheckoutInv, NEW k \in Checkouts, ValidateToken(k), CartInv'
  PROVE  CheckoutInv'
<1> USE DEF ValidateToken, CheckoutInv, CheckoutTypeOK
<1>1. CheckoutTypeOK'
  OBVIOUS
<1>2. Progress(k) /\ SentByOrders(k) /\ <<k, 0>> \in Calls /\ user[k] \in Users
  BY OrdersCalls
<1>3. PICK r : r = [op |-> "get", user |-> user[k]]
  OBVIOUS
<1>4. r \in Requests
  BY <1>2, <1>3, OrdersRequests
<1>5. /\ \A c \in Calls \ {<<k, 0>>} : call'[c] = call[c]
      /\ \A v \in Users : LinesOf(cart[v])' = LinesOf(cart[v])
      /\ call'[<<k, 0>>] = call[<<k, 0>>] \/ call'[<<k, 0>>].req = r
  <2>1. CASE UNCHANGED vars
    BY <2>1 DEF vars, LinesOf
  <2>2. CASE Receive(<<k, 0>>, r)
    BY <1>2, <1>4, <2>2, ReceivedCall
  <2>3. QED BY <1>3, <2>1, <2>2
<1>6. \A i \in 1 .. MaxAttempts : <<k, i>> \in Calls /\ <<k, i>> # <<k, 0>>
  BY OrdersCalls
<1>7. SentByOrders(k)' /\ Serving(k)' = Serving(k)
  <2>1. \A i \in 1 .. MaxAttempts : call'[<<k, i>>] = call[<<k, i>>]
    BY <1>5, <1>6
  <2>2. Serving(k)' = Serving(k) /\ user' = user
    BY <2>1
  <2>3. QED BY <1>2, <1>3, <1>5, <2>1, <2>2 DEF SentByOrders
<1>8. Progress(k)' /\ ~PastRead(k)'
  BY <1>2, <1>7 DEF Progress
<1>9. \A c \in Calls : (\A i \in 0 .. MaxAttempts : c # <<k, i>>) => UNCHANGED call[c]
  BY <1>5, OrdersCalls
<1>10. QED BY <1>1, <1>5, <1>7, <1>8, <1>9, OwnStep

LEMMA GetCartStep ==
  ASSUME CheckoutInv, NEW k \in Checkouts, GetCart(k), CartInv'
  PROVE  CheckoutInv'
<1> USE DEF CheckoutInv, CheckoutTypeOK
<1>1. PICK g \in Calls : g = <<k, 0>>
  BY OrdersCalls
<1>2. at[k] = "cart" /\ Handle(g) /\ call'[g].at = "ok"
  BY <1>1 DEF GetCart, Handle
<1>3. Progress(k) /\ SentByOrders(k) /\ user[k] \in Users
  OBVIOUS
<1>4. Running(g) /\ call[g].req.op = "get" /\ \A c \in Calls \ {g} : call'[c] = call[c]
  BY <1>1, <1>2, <1>3, HandledCall DEF SentByOrders, MovesOn
<1>5. \A v \in Users : LinesOf(cart[v])' = LinesOf(cart[v])
  BY <1>2, <1>4, ReadsAndClears
<1>6. PICK b : b = LinesOf(cart[user[k]])
  OBVIOUS
<1>7. DOMAIN b \subseteq ItemIds /\ DOMAIN NoLines = {}
  BY <1>6, CartLines DEF CartInv, TypeOK, NoLines
<1>8. b # NoLines => DOMAIN b # {}
  BY <1>6, <1>7 DEF LinesOf, Restrict, NoLines
<1>9. /\ lines' = [lines EXCEPT ![k] = b] /\ left' = [left EXCEPT ![k] = DOMAIN b]
      /\ at' = [at EXCEPT ![k] = IF b = NoLines THEN "rejected" ELSE "check"]
      /\ UNCHANGED <<user, order, tries>> /\ shared' \in {shared, shared \cup {k}}
      /\ k \notin shared' => \A c \in ShopperCalls : ~(Writing(c) /\ User(c) = user[k])
  BY <1>6 DEF GetCart
<1>10. CheckoutTypeOK'
  BY <1>7, <1>9
<1>11. \A i \in 1 .. MaxAttempts : <<k, i>> \in Calls /\ <<k, i>> # g
  BY <1>1, OrdersCalls
<1>12. SentByOrders(k)' /\ Serving(k)' = Serving(k)
  <2>1. \A i \in 1 .. MaxAttempts : call'[<<k, i>>] = call[<<k, i>>]
    BY <1>4, <1>11
  <2>2. Serving(k)' = Serving(k)
    BY <2>1
  <2>3. ~Running(<<k, 0>>)'
    BY <1>1, <1>2
  <2>4. user' = user
    BY <1>9
  <2>5. \A i \in 1 .. MaxAttempts :
          Running(<<k, i>>)' => /\ call'[<<k, i>>].at = "clear"
                                /\ call'[<<k, i>>].req = [op |-> "clear", user |-> user'[k]]
    BY <1>3, <2>1, <2>4 DEF SentByOrders
  <2>6. SentByOrders(k)'
    BY <2>3, <2>5 DEF SentByOrders
  <2>7. QED BY <2>2, <2>6
<1>13. /\ ~Serving(k) /\ tries[k] = 0 /\ order[k] = NoLines
       /\ lines'[k] = b /\ left'[k] = DOMAIN b /\ tries' = tries /\ order' = order
       /\ at'[k] = IF b = NoLines THEN "rejected" ELSE "check"
  BY <1>2, <1>3, <1>9 DEF Progress
<1>14. Progress(k)'
  BY <1>8, <1>12, <1>13 DEF Progress
<1>15. \A c \in Calls : (\A i \in 0 .. MaxAttempts : c # <<k, i>>) => UNCHANGED call[c]
  BY <1>1, <1>4, OrdersCalls
<1>16. PICK n : n = user[k] /\ LinesOf(cart[n]) = b
  BY <1>6
<1>17. at'[k] \in {"clear", "delete"} \/ Serving(k)' => FALSE
  BY <1>12, <1>13
<1>18. \A j \in Checkouts \ {k} :
         UNCHANGED <<at[j], lines[j], left[j], order[j], tries[j]>>
  BY <1>9
<1>19. QED BY <1>5, <1>6, <1>9, <1>10, <1>12, <1>13, <1>14, <1>15, <1>17, <1>18, OwnStep

LEMMA SendClearStep ==
  ASSUME CheckoutInv, NEW k \in Checkouts, SendClear(k), CartInv'
  PROVE  CheckoutInv'
<1> USE DEF SendClear, CheckoutInv, CheckoutTypeOK
<1>1. PICK n : n = tries[k] + 1
  OBVIOUS
<1>2. Progress(k) /\ SentByOrders(k) /\ user[k] \in Users
  OBVIOUS
<1>3. n \in 1 .. MaxAttempts /\ tries'[k] = n /\ n \in 0 .. MaxAttempts
  BY <1>1, <1>2 DEF Progress
<1>4. CheckoutTypeOK'
  BY <1>1, <1>3
<1>5. PICK d, r : d = <<k, n>> /\ r = [op |-> "clear", user |-> user[k]]
  OBVIOUS
<1>6. r \in Requests /\ d \in Calls
  BY <1>2, <1>3, <1>5, OrdersRequests, OrdersCalls
<1>7. /\ \A c \in Calls \ {d} : call'[c] = call[c]
      /\ \A v \in Users : LinesOf(cart[v])' = LinesOf(cart[v])
      /\ call'[d] = call[d] \/ (call'[d].req = r /\ call'[d].at = "clear")
  <2>1. CASE UNCHANGED vars
    BY <2>1 DEF vars, LinesOf
  <2>2. CASE Receive(d, r)
    <3>1. FirstAwait(r.op) = "clear"
      BY <1>5 DEF FirstAwait
    <3>2. QED BY <1>6, <2>2, <3>1, ReceivedCall
  <2>3. QED BY <1>1, <1>5, <2>1, <2>2
<1>8. <<k, 0>> \in Calls \ {d} /\ \A i \in 1 .. MaxAttempts : <<k, i>> \in Calls
  BY <1>3, <1>5, OrdersCalls
<1>9. SentByOrders(k)'
  <2>1. call'[<<k, 0>>] = call[<<k, 0>>] /\ user' = user
    BY <1>7, <1>8
  <2>2. Running(<<k, 0>>)' => call'[<<k, 0>>].req = [op |-> "get", user |-> user'[k]]
    BY <1>2, <2>1 DEF SentByOrders
  <2>3. ASSUME NEW i \in 1 .. MaxAttempts, Running(<<k, i>>)'
        PROVE  /\ call'[<<k, i>>].at = "clear"
               /\ call'[<<k, i>>].req = [op |-> "clear", user |-> user'[k]]
    <3>1. CASE call'[<<k, i>>] = call[<<k, i>>]
      BY <1>2, <2>1, <2>3, <3>1 DEF SentByOrders
    <3>2. CASE <<k, i>> = d
      BY <1>2, <1>5, <1>7, <2>1, <2>3, <3>2 DEF SentByOrders
    <3>3. QED BY <1>7, <1>8, <3>1, <3>2
  <2>4. QED BY <2>2, <2>3 DEF SentByOrders
<1>10. Progress(k)'
  BY <1>2, <1>3 DEF Progress
<1>11. at'[k] \in {"clear", "delete"} \/ Serving(k)' =>
         order'[k] = lines'[k] /\ lines'[k] # NoLines /\ left'[k] = {}
  BY DEF ClearsFollowOrders
<1>12. PastRead(k)' /\ k \notin shared' =>
         /\ LinesOf(cart[user[k]]) \in {lines'[k], NoLines}
         /\ \A c \in ShopperCalls : ~(Writing(c) /\ User(c) = user[k])
  BY DEF OnlySharedAtRisk
<1>13. \A c \in Calls : (\A i \in 0 .. MaxAttempts : c # <<k, i>>) => UNCHANGED call[c]
  BY <1>3, <1>5, <1>7
<1>14. QED BY <1>4, <1>7, <1>9, <1>10, <1>11, <1>12, <1>13, OwnStep

LEMMA OrdersAsk ==
  ASSUME CheckoutInv, NEW k \in Checkouts, NEW i \in 0 .. MaxAttempts, NEW c, c = <<k, i>>,
         Running(c)
  PROVE  /\ call[c].req.op = IF i = 0 THEN "get" ELSE "clear"
         /\ call[c].req.user = user[k]
<1>1. SentByOrders(k)
  BY DEF CheckoutInv
<1>2. CASE i = 0
  BY <1>1, <1>2 DEF SentByOrders
<1>3. CASE i # 0
  <2>1. i \in 1 .. MaxAttempts
    BY <1>3
  <2>2. QED BY <1>1, <1>3, <2>1 DEF SentByOrders
<1>4. QED BY <1>2, <1>3

(* A step of the carts' side leaves every checkout where it is; a call     *)
(* that still runs was running, or is a shopper's and has just come.       *)
LEMMA CartsStep ==
  ASSUME CheckoutInv, CartInv', UNCHANGED orderVars, shared \subseteq shared', shared' \subseteq Checkouts,
         \A c \in Calls \ ShopperCalls :
           Running(c)' => Running(c) /\ call'[c].req = call[c].req
                            /\ (call[c].at = "clear" => call'[c].at = "clear"),
         \A k \in Checkouts : PastRead(k) /\ k \notin shared' =>
           /\ LinesOf(cart[user[k]])' \in {LinesOf(cart[user[k]]), NoLines}
           /\ \A c \in ShopperCalls : Writing(c)' /\ User(c)' = user[k] =>
                Writing(c) /\ User(c) = user[k]
  PROVE  CheckoutInv'
<1> USE DEF CheckoutInv
<1>1. CheckoutTypeOK'
  BY DEF CheckoutTypeOK
<1>2. \A k \in Checkouts, i \in 0 .. MaxAttempts : <<k, i>> \in Calls \ ShopperCalls
  BY OrdersCalls
<1>3. \A k \in Checkouts : SentByOrders(k) /\ Progress(k)
  OBVIOUS
<1>4. \A k \in Checkouts : SentByOrders(k)' /\ (Serving(k)' => Serving(k))
  BY <1>2, <1>3, OrdersCalls DEF SentByOrders
<1>5. \A k \in Checkouts : Progress(k)'
  BY <1>3, <1>4 DEF Progress
<1>6. ClearsFollowOrders'
  BY <1>4 DEF ClearsFollowOrders
<1>7. OnlySharedAtRisk'
  <2> SUFFICES ASSUME NEW k \in Checkouts, PastRead(k)', k \notin shared'
               PROVE  /\ LinesOf(cart[user[k]])' \in {lines[k], NoLines}
                      /\ \A c \in ShopperCalls : ~(Writing(c)' /\ User(c)' = user[k])
    BY DEF OnlySharedAtRisk
  <2>1. PastRead(k) /\ k \notin shared
    BY <1>4
  <2>2. /\ LinesOf(cart[user[k]]) \in {lines[k], NoLines}
        /\ \A c \in ShopperCalls : ~(Writing(c) /\ User(c) = user[k])
    BY <2>1 DEF OnlySharedAtRisk
  <2>3. QED BY <2>1, <2>2
<1>8. QED BY <1>1, <1>4, <1>5, <1>6, <1>7

LEMMA ShopperCallsCartStep ==
  ASSUME CheckoutInv, NEW c \in ShopperCalls, NEW r \in Requests, ShopperCallsCart(c, r), CartInv'
  PROVE  CheckoutInv'
<1> USE DEF CheckoutInv
<1>1. c \in Calls /\ Receive(c, r) /\ UNCHANGED orderVars
  BY OrdersCalls DEF ShopperCallsCart
<1>2. /\ call'[c].req = r /\ \A d \in Calls \ {c} : call'[d] = call[d]
      /\ \A v \in Users : LinesOf(cart[v])' = LinesOf(cart[v])
  BY <1>1, ReceivedCall
<1>3. \A d \in Calls \ ShopperCalls :
        Running(d)' => Running(d) /\ call'[d].req = call[d].req
                         /\ (call[d].at = "clear" => call'[d].at = "clear")
  BY <1>2
<1>4. shared \subseteq shared' /\ shared' \subseteq Checkouts
  BY DEF ShopperCallsCart, CheckoutTypeOK
<1>5. ASSUME NEW k \in Checkouts, PastRead(k), k \notin shared'
      PROVE  /\ LinesOf(cart[user[k]])' \in {LinesOf(cart[user[k]]), NoLines}
             /\ \A d \in ShopperCalls : Writing(d)' /\ User(d)' = user[k] =>
                  Writing(d) /\ User(d) = user[k]
  <2>1. user[k] \in Users /\ user' = user
    BY <1>1 DEF CheckoutTypeOK
  <2>2. ~(user[k] = r.user /\ r.op # "get")
    BY <1>5 DEF ShopperCallsCart
  <2>3. \A d \in ShopperCalls \ {c} : call'[d] = call[d]
    BY <1>2, OrdersCalls
  <2>4. LinesOf(cart[user[k]])' = LinesOf(cart[user[k]])
    <3>1. PICK v \in Users : v = user[k]
      BY <2>1
    <3>2. LinesOf(cart[v])' = LinesOf(cart[v])
      BY <1>2
    <3>3. QED BY <2>1, <3>1, <3>2 DEF LinesOf
  <2>5. QED BY <1>2, <2>2, <2>3, <2>4
<1>6. QED BY <1>1, <1>3, <1>4, <1>5, CartsStep

LEMMA CartServiceServesStep ==
  ASSUME CheckoutInv, CartServiceServes, CartInv'
  PROVE  CheckoutInv'
<1> USE DEF CheckoutInv
<1>1. UNCHANGED orderVars /\ shared' = shared /\ shared \subseteq Checkouts
  BY DEF CartServiceServes, CheckoutTypeOK
<1>2. CASE CartServiceStops
  <2>1. \A c \in Calls : Running(c)' => FALSE
    <3>1. DOMAIN call' = Calls /\ \A c \in Calls : call'[c] = IF Running(c) THEN Idle("failed") ELSE call[c]
      BY <1>2 DEF CartServiceStops
    <3>2. QED BY <3>1 DEF Idle
  <2>2. \A v : LinesOf(cart[v])' = LinesOf(cart[v])
    BY <1>2 DEF CartServiceStops, LinesOf
  <2>3. \A k \in Checkouts : LinesOf(cart[user[k]])' = LinesOf(cart[user[k]])
    BY <1>1, <1>2 DEF CartServiceStops, LinesOf
  <2>4. \A c \in ShopperCalls : ~Running(c)'
    BY <2>1, OrdersCalls
  <2>5. QED BY <1>1, <2>1, <2>3, <2>4, CartsStep
<1>3. ASSUME NEW c \in Calls, Handle(c)
      PROVE  CheckoutInv'
  <2>1. /\ Running(c) /\ \A d \in Calls \ {c} : call'[d] = call[d]
        /\ ~Running(c)' \/ (call'[c].req = call[c].req /\ call[c].at # "clear")
    BY <1>3, HandledCall DEF MovesOn
  <2>2. \A d \in Calls :
          Running(d)' => Running(d) /\ call'[d].req = call[d].req
                           /\ (call[d].at = "clear" => call'[d].at = "clear")
    BY <2>1
  <2>3. ASSUME NEW k \in Checkouts, PastRead(k), k \notin shared'
        PROVE  LinesOf(cart[user[k]])' \in {LinesOf(cart[user[k]]), NoLines}
    <3>1. PICK v \in Users : v = user[k] /\ v = user'[k]
      BY <1>1 DEF CheckoutTypeOK
    <3>2. LinesOf(cart[v])' \in {LinesOf(cart[v]), NoLines}
      <4>1. CASE v # User(c)
        BY <1>3, <4>1, OthersKeepTheirLines
      <4>2. CASE v = User(c) /\ c \in ShopperCalls
        <5>1. call[c].req.op = "get"
          BY <1>1, <2>1, <2>3, <3>1, <4>2 DEF OnlySharedAtRisk
        <5>2. QED BY <1>3, <5>1, ReadsAndClears
      <4>3. CASE c \notin ShopperCalls
        <5>1. PICK j \in Checkouts, i \in 0 .. MaxAttempts : c = <<j, i>>
          BY <4>3, OrdersCalls
        <5>2. call[c].req.op \in {"get", "clear"}
          BY <2>1, <5>1, OrdersAsk
        <5>3. QED BY <1>3, <5>2, ReadsAndClears
      <4>4. QED BY <4>1, <4>2, <4>3
    <3>3. LinesOf(cart[user[k]])' = LinesOf(cart[v])'
      BY <3>1 DEF LinesOf
    <3>4. QED BY <3>1, <3>2, <3>3
  <2>4. \A d \in ShopperCalls : d \in Calls
    BY OrdersCalls
  <2>5. \A k \in Checkouts : \A d \in ShopperCalls :
          Writing(d)' /\ User(d)' = user[k] => Writing(d) /\ User(d) = user[k]
    BY <2>2, <2>4
  <2>6. QED BY <1>1, <2>2, <2>3, <2>5, CartsStep
<1>4. QED BY <1>2, <1>3 DEF CartServiceServes

LEMMA OrderServiceStopsStep ==
  ASSUME CheckoutInv, OrderServiceStops, CartInv'
  PROVE  CheckoutInv'
<1> USE DEF OrderServiceStops, CheckoutInv, vars
<1>1. CheckoutTypeOK'
  BY DEF CheckoutTypeOK
<1>2. \A k \in Checkouts : SentByOrders(k)' /\ Serving(k)' = Serving(k)
  BY DEF SentByOrders
<1>3. \A k \in Checkouts : at'[k] = at[k] \/ (at'[k] = "failed" /\ Pending(k))
  BY DEF CheckoutTypeOK
<1>4. \A k \in Checkouts : at'[k] \in Steps => FALSE
  BY DEF CheckoutTypeOK
<1>5. \A k \in Checkouts : Progress(k)'
  BY <1>2, <1>3, <1>4 DEF Progress
<1>6. ClearsFollowOrders' /\ OnlySharedAtRisk'
  <2>1. \A k \in Checkouts :
          /\ PastRead(k)' => PastRead(k)
          /\ at'[k] \in {"clear", "delete"} \/ Serving(k)' => Serving(k)
    BY <1>2, <1>4
  <2>2. UNCHANGED <<cart, items, call, user, lines, left, order, shared>>
    OBVIOUS
  <2>3. ClearsFollowOrders'
    BY <2>1, <2>2 DEF ClearsFollowOrders
  <2>4. OnlySharedAtRisk'
    BY <2>1, <2>2 DEF OnlySharedAtRisk, LinesOf
  <2>5. QED BY <2>3, <2>4
<1>7. QED BY <1>1, <1>2, <1>5, <1>6

(* What a checkout does of the Cart Service's, the Cart Service may do.    *)
LEMMA CartsGoOn == CheckoutInv /\ [CheckoutNext]_checkoutVars => CartInv'
<1> SUFFICES ASSUME CheckoutInv, [CheckoutNext]_checkoutVars PROVE CartInv'
  OBVIOUS
<1>1. [Next]_vars \/ \E k \in Checkouts : ValidateToken(k) \/ GetCart(k) \/ SendClear(k)
  BY OrdersCalls DEF CheckoutNext, checkoutVars, Next, ShopperCallsCart, CartServiceServes,
     CreateOrder, Proceed, CheckLine, SaveOrder, StepFails, ClearAnswered, ClearFails,
     ClearRefused, OrderServiceStops
<1>2. ASSUME NEW k \in Checkouts, ValidateToken(k) \/ GetCart(k) \/ SendClear(k)
      PROVE  [Next]_vars
  <2>1. user[k] \in Users
    BY DEF CheckoutInv, CheckoutTypeOK
  <2>2. CASE ValidateToken(k)
    BY <2>1, <2>2, OrdersRequests, OrdersCalls DEF ValidateToken, Next
  <2>3. CASE GetCart(k)
    BY <2>3, OrdersCalls DEF GetCart, Handle, Next
  <2>4. CASE SendClear(k)
    <3>1. tries[k] + 1 \in 0 .. MaxAttempts
      BY <2>4 DEF SendClear, CheckoutInv, CheckoutTypeOK, Progress
    <3>2. <<k, tries[k] + 1>> \in Calls
      BY <3>1, OrdersCalls
    <3>3. QED BY <2>1, <2>4, <3>2, OrdersRequests DEF SendClear, Next
  <2>5. QED BY <1>2, <2>2, <2>3, <2>4
<1>3. QED BY <1>1, <1>2, CartStep DEF CheckoutInv

LEMMA CheckoutNextInv == CheckoutInv /\ [CheckoutNext]_checkoutVars => CheckoutInv'
<1> SUFFICES ASSUME CheckoutInv, [CheckoutNext]_checkoutVars PROVE CheckoutInv'
  OBVIOUS
<1>1. CartInv'
  BY CartsGoOn
<1>2. CASE UNCHANGED checkoutVars
  <2>1. /\ UNCHANGED <<cart, items, call, at, user, lines, left, order, tries, shared>>
        /\ CheckoutTypeOK /\ ClearsFollowOrders /\ OnlySharedAtRisk
    BY <1>2 DEF checkoutVars, vars, CheckoutInv
  <2>2. CheckoutTypeOK' /\ ClearsFollowOrders'
    BY <2>1 DEF CheckoutTypeOK, ClearsFollowOrders
  <2>3. OnlySharedAtRisk'
    BY <2>1 DEF OnlySharedAtRisk, LinesOf
  <2>4. \A k \in Checkouts : Progress(k)' /\ SentByOrders(k)'
    <3>1. \A k \in Checkouts : Progress(k) /\ SentByOrders(k)
      BY DEF CheckoutInv
    <3>2. \A k \in Checkouts : Progress(k)'
      BY <2>1, <3>1 DEF Progress
    <3>3. \A k \in Checkouts : SentByOrders(k)'
      BY <2>1, <3>1 DEF SentByOrders
    <3>4. QED BY <3>2, <3>3
  <2>5. QED BY <1>1, <2>2, <2>3, <2>4 DEF CheckoutInv
<1>3. ASSUME NEW k \in Checkouts, CreateOrder(k) \/ Proceed(k)
      PROVE  CheckoutInv'
  BY <1>1, <1>3, CreateOrderStep, ValidateTokenStep, GetCartStep, CheckLineStep,
     SaveOrderStep, StepFailsStep, SendClearStep, ClearAnsweredStep, ClearFailsStep,
     ClearRefusedStep DEF Proceed
<1>4. CASE CheckoutNext
  BY <1>1, <1>3, <1>4, ShopperCallsCartStep, CartServiceServesStep, OrderServiceStopsStep
     DEF CheckoutNext
<1>5. QED BY <1>2, <1>4

-------------------------------------------------------------------------------
(* The inductive invariant of the checkout: a DELETE under way belongs to  *)
(* a saved order, and until it is served the cart is what the order has,   *)
(* or is empty, unless the shopper has written to it.                      *)
THEOREM CheckoutSafety == CheckoutSpec => []CheckoutInv
  BY CheckoutInitInv, CheckoutNextInv, PTL DEF CheckoutSpec

(* No line vanishes from a cart, wherever a checkout is cut short and      *)
(* however late its DELETEs are served: the shopper took it out, or a      *)
(* checkout ordered it, or the shopper wrote while a checkout was on.      *)
THEOREM NothingIsLost == CheckoutSpec => NothingVanishes
<1> DEFINE Kept == \A i \in DOMAIN items \ DOMAIN items' :
             \/ \E c \in ShopperCalls : TakesOut(c, i)
             \/ \E k \in Checkouts : Buys(k, i)
<1>1. CheckoutInv /\ [CheckoutNext]_checkoutVars => [Kept]_checkoutVars
  <2> SUFFICES ASSUME CheckoutInv, CheckoutNext,
                      NEW i \in DOMAIN items, i \notin DOMAIN items'
               PROVE  \/ \E c \in ShopperCalls : TakesOut(c, i)
                      \/ \E k \in Checkouts : Buys(k, i)
    OBVIOUS
  <2> USE DEF CheckoutInv
  <2>1. items' # items
    OBVIOUS
  <2>2. PICK c \in Calls : Handle(c)
    <3>1. \A k \in Checkouts : <<k, 0>> \in Calls
      BY OrdersCalls
    <3>2. QED
      BY <2>1, <3>1 DEF CheckoutNext, ShopperCallsCart, CartServiceServes, CartServiceStops,
         CreateOrder, Proceed, ValidateToken, GetCart, CheckLine, SaveOrder, StepFails, SendClear,
         ClearAnswered, ClearFails, ClearRefused, OrderServiceStops, Receive, Handle, vars
  <2>3. /\ Running(c) /\ cart[User(c)] = items[i].cart
        /\ call[c].req.op = "clear" \/ (call[c].req.op = "remove" /\ call[c].req.id = i)
    BY <2>2, WhoDeletes, HandledCall
  <2>4. CASE c \in ShopperCalls
    BY <2>3, <2>4 DEF TakesOut
  <2>5. CASE c \notin ShopperCalls
    <3>1. PICK k \in Checkouts, j \in 0 .. MaxAttempts : c = <<k, j>>
      BY <2>5, OrdersCalls
    <3>2. j # 0 /\ User(c) = user[k]
      BY <2>3, <3>1, OrdersAsk
    <3>3. Serving(k) /\ User(c) = user[k]
      <4>1. j \in 1 .. MaxAttempts
        BY <3>2
      <4>2. QED BY <2>3, <3>1, <3>2, <4>1
    <3>4. CASE k \notin shared
      <4>1. LinesOf(cart[user[k]]) \in {lines[k], NoLines} /\ order[k] = lines[k]
        BY <3>3, <3>4 DEF OnlySharedAtRisk, ClearsFollowOrders
      <4>2. i \in DOMAIN LinesOf(cart[user[k]]) /\ LinesOf(cart[user[k]])[i] = items[i]
        BY <2>3, <3>3 DEF LinesOf, Restrict
      <4>3. DOMAIN NoLines = {}
        BY DEF NoLines
      <4>4. QED BY <2>3, <3>3, <4>1, <4>2, <4>3 DEF Buys
    <3>5. QED BY <2>3, <3>3, <3>4 DEF Buys
  <2>6. QED BY <2>4, <2>5
<1>2. QED BY <1>1, CheckoutSafety, PTL DEF CheckoutSpec, NothingVanishes

(* No cart is emptied but for a saved order of what was read and checked.  *)
THEOREM OrdersComeFirst == CheckoutSpec => []ClearsFollowOrders
<1>1. CheckoutInv => ClearsFollowOrders
  BY DEF CheckoutInv
<1>2. QED BY <1>1, CheckoutSafety, PTL
===============================================================================
