----------------------------- MODULE CartService ------------------------------
(***************************************************************************)
(* The Cart Service: each handler runs from await to await, and what it    *)
(* knows of the cart is the copy it has read.  TypeORM's save compares     *)
(* that copy with what the tables hold at a second read, and then writes   *)
(* the difference in one transaction: a row that is in the copy only is    *)
(* inserted (again), one that is in the tables only is detached from its   *)
(* cart, which cart_items.cart_id NOT NULL refuses.                        *)
(***************************************************************************)
EXTENDS Naturals, Functions

CONSTANTS Users, Products,
          Stock,        \* what the Product Service says of each; 0: no such product
          CartIds, ItemIds,      \* primary keys
          Calls,        \* calls the service can be serving
          NoCart

ASSUME StockIsNat == Stock \in [Products -> Nat]
ASSUME NoCartIsNoId == NoCart \notin CartIds

VARIABLES cart,         \* id of each user's row of carts, or NoCart
          items,        \* cart_items: id -> row
          call          \* where each call is, and its copies

vars == <<cart, items, call>>

NoLines == [i \in {} |-> 0]
NoCopy == [cart |-> NoCart, lines |-> NoLines]
Row(k, p, q) == [cart |-> k, product |-> p, quantity |-> q]
Idle(a) == [at |-> a, req |-> [op |-> "none"], mine |-> NoCopy, seen |-> NoCopy]

\* A body asks for a positive quantity; one above every stock stands for all.
Quantities == {q \in 1 .. 9 : \A p \in Products : q <= Stock[p] + 1}
Requests ==
  [op : {"get", "clear"}, user : Users]
    \cup [op : {"add"}, user : Users, product : Products, quantity : Quantities]
    \cup [op : {"set"}, user : Users, id : ItemIds, quantity : Quantities]
    \cup [op : {"remove"}, user : Users, id : ItemIds]

Ends == {"idle", "ok", "rejected", "failed"}
Running(c) == call[c].at \notin Ends
User(c) == call[c].req.user
Await(c, step) == call' = [call EXCEPT ![c].at = step]
End(c, a) == call' = [call EXCEPT ![c] = Idle(a)]

WithLine(lines, i, row) ==
  [j \in DOMAIN lines \cup {i} |-> IF j = i THEN row ELSE lines[j]]

LinesOf(k) == Restrict(items, {i \in DOMAIN items : items[i].cart = k})

\* Keys nobody knows yet: a UUID is never generated twice.
Known(c) == DOMAIN call[c].mine.lines \cup DOMAIN call[c].seen.lines
FreshItems == ItemIds \ (DOMAIN items \cup UNION {Known(c) : c \in Calls})
FreshCarts == CartIds \ ({cart[u] : u \in Users} \cup {call[c].mine.cart : c \in Calls})

-------------------------------------------------------------------------------
Init ==
  /\ cart = [u \in Users |-> NoCart]
  /\ items = NoLines
  /\ call = [c \in Calls |-> Idle("idle")]

FirstAwait(op) ==
  CASE op = "get" -> "show" [] op = "clear" -> "clear" [] op = "add" -> "check"
    [] OTHER -> "find"

Receive(c, r) ==
  /\ ~Running(c)
  /\ call' = [call EXCEPT ![c] = [Idle(FirstAwait(r.op)) EXCEPT !.req = r]]
  /\ UNCHANGED <<cart, items>>

\* Mutant: any user's item is found.
OwnedByAnyone(c, i) == i \in DOMAIN items

\* item.cart.userId is the caller's: the row is in the caller's cart.
Owned(c, i) == i \in DOMAIN items /\ cart[User(c)] = items[i].cart

FindItem(c) ==
  LET r == call[c].req
      copy == [cart |-> items[r.id].cart, lines |-> Restrict(items, {r.id})]
  IN  /\ call[c].at = "find"
      /\ IF Owned(c, r.id)
         THEN call' = [call EXCEPT ![c] =
                [@ EXCEPT !.at = IF r.op = "set" THEN "check" ELSE "delete",
                          !.mine = copy]]
         ELSE End(c, "rejected")
      /\ UNCHANGED <<cart, items>>

\* productClient.getProductById: the product exists and there is enough of it.
CheckProduct(c) ==
  LET r == call[c].req
      p == IF r.op = "add" THEN r.product ELSE call[c].mine.lines[r.id].product
  IN  /\ call[c].at = "check"
      /\ IF r.quantity > Stock[p] THEN End(c, "rejected")
         ELSE IF r.op = "add" THEN Await(c, "read")
         ELSE call' = [call EXCEPT ![c].at = "save",
                                   ![c].mine.lines[r.id].quantity = r.quantity]
      /\ UNCHANGED <<cart, items>>

\* Mutant: the quantity replaces the line's.
MergedReplacing(r, k, lines) ==
  LET same == {i \in DOMAIN lines : lines[i].product = r.product}
  IN  IF same # {}
      THEN {[lines EXCEPT ![i].quantity = r.quantity] : i \in same}
      ELSE {WithLine(lines, i, Row(k, r.product, r.quantity)) : i \in FreshItems}

\* The copy with the addition: to the product's line, or as a new line.
Merged(r, k, lines) ==
  LET same == {i \in DOMAIN lines : lines[i].product = r.product}
  IN  IF same # {}
      THEN {[lines EXCEPT ![i].quantity = @ + r.quantity] : i \in same}
      ELSE {WithLine(lines, i, Row(k, r.product, r.quantity)) : i \in FreshItems}

\* Mutant: the stock is compared with the quantity added only.
MergeUnchecked(c, k, lines) ==
  \E m \in Merged(call[c].req, k, lines) :
    call' = [call EXCEPT ![c].at = "save", ![c].mine = [cart |-> k, lines |-> m]]

Merge(c, k, lines) ==
  \E m \in Merged(call[c].req, k, lines) :
    IF \E i \in DOMAIN m :
         m[i].product = call[c].req.product /\ m[i].quantity > Stock[m[i].product]
    THEN End(c, "rejected")
    ELSE call' = [call EXCEPT ![c].at = "save", ![c].mine = [cart |-> k, lines |-> m]]

\* getCart, at the start of an addition or for the answer: the cart is
\* created if there is none.  UNIQUE (user_id) lets one creation win.
ReadCart(c) ==
  LET k == cart[User(c)]
  IN  /\ call[c].at \in {"read", "show"}
      /\ IF k = NoCart THEN Await(c, IF call[c].at = "read" THEN "create" ELSE "open")
         ELSE IF call[c].at = "read" THEN Merge(c, k, LinesOf(k))
         ELSE End(c, "ok")
      /\ UNCHANGED <<cart, items>>

CreateCart(c) ==
  LET u == User(c)
  IN  /\ call[c].at \in {"create", "open"}
      /\ IF cart[u] # NoCart
         THEN End(c, "failed") /\ UNCHANGED cart
         ELSE \E k \in FreshCarts :
                /\ cart' = [cart EXCEPT ![u] = k]
                /\ IF call[c].at = "create" THEN Merge(c, k, NoLines) ELSE End(c, "ok")
      /\ UNCHANGED items

\* TypeORM's save, first half: what do the tables hold of this copy?  A cart
\* is compared with all its lines, an item with its own row.
SaveLooks(c) ==
  LET k == call[c].mine.cart
      lines == IF call[c].req.op = "add"
               THEN LinesOf(k)
               ELSE Restrict(items, DOMAIN call[c].mine.lines \cap DOMAIN items)
  IN  /\ call[c].at = "save"
      /\ call' = [call EXCEPT ![c] = [@ EXCEPT !.at = "write", !.seen =
                    [cart |-> IF cart[User(c)] = k THEN k ELSE NoCart, lines |-> lines]]]
      /\ UNCHANGED <<cart, items>>

Inserted(c) == DOMAIN call[c].mine.lines \ DOMAIN call[c].seen.lines
Detached(c) == DOMAIN call[c].seen.lines \ DOMAIN call[c].mine.lines
InsertsCart(c) == call[c].req.op = "add" /\ call[c].seen.cart = NoCart

\* Keys, foreign key, UNIQUE (user_id), UNIQUE (cart_id, product_id), NOT NULL.
Violates(c) ==
  LET k == call[c].mine.cart
      new == Inserted(c)
  IN  \/ InsertsCart(c) /\ cart[User(c)] # NoCart
      \/ ~InsertsCart(c) /\ new # {} /\ cart[User(c)] # k
      \/ new \cap DOMAIN items # {}
      \/ \E i \in new, j \in DOMAIN items :
           items[j].cart = k /\ items[j].product = call[c].mine.lines[i].product
      \/ Detached(c) \cap DOMAIN items # {}

\* ... second half: the difference, in one transaction.
SaveWrites(c) ==
  LET mine == call[c].mine.lines
      seen == call[c].seen.lines
      Changed(i) == i \in DOMAIN mine \cap DOMAIN seen /\ mine[i] # seen[i]
  IN  /\ call[c].at = "write"
      /\ IF Violates(c)
         THEN End(c, "failed") /\ UNCHANGED <<cart, items>>
         ELSE /\ cart' = IF InsertsCart(c)
                         THEN [cart EXCEPT ![User(c)] = call[c].mine.cart] ELSE cart
              /\ items' = [i \in DOMAIN items \cup Inserted(c) |->
                             IF i \in Inserted(c) \/ Changed(i) THEN mine[i] ELSE items[i]]
              /\ call' = [call EXCEPT ![c] = [@ EXCEPT !.at = "show",
                            !.mine = NoCopy, !.seen = NoCopy]]

\* DELETE by id: no error if the row has gone meanwhile.
DeleteItem(c) ==
  /\ call[c].at = "delete"
  /\ items' = Restrict(items, DOMAIN items \ {call[c].req.id})
  /\ call' = [call EXCEPT ![c] = [@ EXCEPT !.at = "show", !.mine = NoCopy]]
  /\ UNCHANGED cart

\* Mutant: no cascade.
ClearCartAlone(c) ==
  /\ call[c].at = "clear"
  /\ cart' = [cart EXCEPT ![User(c)] = NoCart]
  /\ End(c, "ok")
  /\ UNCHANGED items

\* DELETE FROM carts: the items go with it (ON DELETE CASCADE).
ClearCart(c) ==
  /\ call[c].at = "clear"
  /\ cart' = [cart EXCEPT ![User(c)] = NoCart]
  /\ items' = Restrict(items, {i \in DOMAIN items : items[i].cart # cart[User(c)]})
  /\ End(c, "ok")

\* The query or the product service fails for good: 5xx.
FailCall(c) ==
  /\ Running(c)
  /\ End(c, "failed")
  /\ UNCHANGED <<cart, items>>

CartServiceStops ==
  /\ \E c \in Calls : Running(c)
  /\ call' = [c \in Calls |-> IF Running(c) THEN Idle("failed") ELSE call[c]]
  /\ UNCHANGED <<cart, items>>

Handle(c) ==
  \/ FindItem(c) \/ CheckProduct(c) \/ ReadCart(c) \/ CreateCart(c)
  \/ SaveLooks(c) \/ SaveWrites(c) \/ DeleteItem(c) \/ ClearCart(c) \/ FailCall(c)

Next ==
  \/ \E c \in Calls : (\E r \in Requests : Receive(c, r)) \/ Handle(c)
  \/ CartServiceStops

Spec == Init /\ [][Next]_vars

-------------------------------------------------------------------------------
Rows == [cart : CartIds, product : Products, quantity : Nat \ {0}]
Copies(k) == [cart : CartIds \cup {NoCart}, lines : [DOMAIN k.lines -> Rows]]
Awaits == {"find", "check", "read", "create", "save", "write", "delete", "clear", "show", "open"}

TypeOK ==
  /\ cart \in [Users -> CartIds \cup {NoCart}]
  /\ DOMAIN items \subseteq ItemIds /\ items \in [DOMAIN items -> Rows]
  /\ DOMAIN call = Calls
  /\ \A c \in Calls :
       /\ call[c] \in [at : Awaits \cup Ends, req : Requests \cup {[op |-> "none"]},
                       mine : Copies(call[c].mine), seen : Copies(call[c].seen)]
       /\ DOMAIN call[c].mine.lines \cup DOMAIN call[c].seen.lines \subseteq ItemIds

(***************************************************************************)
(* No line asks for more than there is, however additions, updates and     *)
(* checkouts overlap: the check is made against a copy that may be stale,  *)
(* but it is the copy that is written.                                     *)
(***************************************************************************)
QuantityWithinStock ==
  \A i \in DOMAIN items : items[i].quantity \in 1 .. Stock[items[i].product]

(***************************************************************************)
(* A user's cart changes only by a step of a call of that user, also when  *)
(* a late save brings a cart back.                                         *)
(***************************************************************************)
OwnCartOnly ==
  [][\A u \in Users :
       LinesOf(cart[u])' # LinesOf(cart[u]) =>
         \E c \in Calls : Running(c) /\ User(c) = u /\ call'[c] # call[c]]_vars

(***************************************************************************)
(* Calls that come one at a time act on the cart all at once or not at     *)
(* all, whatever fails in the middle of them.                              *)
(***************************************************************************)
Asked(c) ==
  CASE ~Running(c) -> [at |-> IF call[c].at = "rejected" THEN "failed" ELSE call[c].at]
    [] call[c].at \in {"show", "open"} /\ call[c].req.op # "get"
         -> [at |-> "done", req |-> call[c].req]
    [] OTHER -> [at |-> "asked", req |-> call[c].req]

Basket(u) ==
  LET b == LinesOf(cart[u])
  IN  [i \in DOMAIN b |-> [product |-> b[i].product, quantity |-> b[i].quantity]]

Contents == INSTANCE CartContents WITH
  basket <- [u \in Users |-> Basket(u)],
  asked <- [c \in Calls |-> Asked(c)]
ActsAtOnce == Contents!Spec

(***************************************************************************)
(* A product enters a cart only by a call that adds that product: what was *)
(* removed or cleared stays away until it is added again.                  *)
(***************************************************************************)
Adding(c, p) == call[c].at = "write" /\ call[c].req.op = "add" /\ call[c].req.product = p

OnlyAdditionsAdd ==
  [][\A i \in DOMAIN items' \ DOMAIN items :
       \E c \in Calls : Adding(c, items'[i].product)]_vars

-------------------------------------------------------------------------------
(* What these rest on: how far a call can be with what it asks; and no two *)
(* users have to do with one cart, of which every row and every copy of a  *)
(* row is, however long ago the copy was made.                             *)
StepsAgree ==
  \A c \in Calls :
    LET k == call[c]
    IN  /\ Running(c) => k.req \in Requests
        /\ ~Running(c) => k = Idle(k.at)
        /\ k.at = "find" => k.req.op \in {"set", "remove"}
        /\ k.at \in {"check", "save", "write"} => k.req.op \in {"add", "set"}
        /\ k.at \in {"read", "create"} => k.req.op = "add"
        /\ k.at \in {"save", "write"} => k.mine.cart # NoCart
        /\ k.at = "delete" => k.req.op = "remove"
        /\ k.at = "clear" => k.req.op = "clear"
        /\ k.at = "delete" \/ (k.at \in {"check", "save", "write"} /\ k.req.op = "set") =>
             k.mine.cart # NoCart /\ DOMAIN k.mine.lines = {k.req.id}

Copied(c, i) == i \in DOMAIN call[c].mine.lines

CopiesAreSound ==
  \A c \in Calls : \A i \in ItemIds :
    Copied(c, i) =>
      LET row == call[c].mine.lines[i]
      IN  row.cart = call[c].mine.cart /\ row.quantity <= Stock[row.product]

CartsAreOwn ==
  /\ \A u, v \in Users : cart[u] # NoCart /\ cart[u] = cart[v] => u = v
  /\ \A c \in Calls, u \in Users :
       call[c].mine.cart # NoCart /\ call[c].mine.cart = cart[u] => u = User(c)
  /\ \A c, d \in Calls :
       call[c].mine.cart # NoCart /\ call[c].mine.cart = call[d].mine.cart => User(c) = User(d)

RowsBelong ==
  /\ \A i \in DOMAIN items : \E u \in Users : items[i].cart = cart[u]
  /\ \A c \in Calls : \A i \in DOMAIN items :
       Copied(c, i) => items[i].cart = call[c].mine.cart
  /\ \A c, d \in Calls, i \in ItemIds :
       Copied(c, i) /\ Copied(d, i) => call[c].mine.cart = call[d].mine.cart

(***************************************************************************)
(* Two calls that race for carts and rows never come to work on another    *)
(* user's: every row is of a cart somebody has, a copy is of the cart its  *)
(* rows are in, as long as they are, and a copy asks for no more than the  *)
(* stock at the time of the check.                                         *)
(***************************************************************************)
CartInv ==
  /\ TypeOK /\ StepsAgree /\ CopiesAreSound /\ CartsAreOwn /\ RowsBelong
  /\ QuantityWithinStock
===============================================================================
