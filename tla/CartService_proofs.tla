-------------------------- MODULE CartService_proofs ---------------------------
(***************************************************************************)
(* The Cart Service's tables, for any users, products, stocks and calls.   *)
(***************************************************************************)
EXTENDS CartService, TLAPS

USE StockIsNat, NoCartIsNoId
USE DEF Ends, Awaits, Running, Copies, Idle, NoCopy, NoLines, Copied, User

\* A copy as the cart service makes them.
IsCopy(k) ==
  /\ k \in [cart : CartIds \cup {NoCart}, lines : [DOMAIN k.lines -> Rows]]
  /\ DOMAIN k.lines \subseteq ItemIds

\* Where a call may be with its request and its copy.
IsCall(k) ==
  /\ k \in [at : Awaits \cup Ends, req : Requests \cup {[op |-> "none"]},
            mine : Copies(k.mine), seen : Copies(k.seen)]
  /\ IsCopy(k.mine) /\ IsCopy(k.seen)
  /\ k.at \notin Ends => k.req \in Requests
  /\ k.at \in Ends => k = Idle(k.at)
  /\ k.at = "find" => k.req.op \in {"set", "remove"}
  /\ k.at \in {"check", "save", "write"} => k.req.op \in {"add", "set"}
  /\ k.at \in {"read", "create"} => k.req.op = "add"
  /\ k.at \in {"save", "write"} => k.mine.cart # NoCart
  /\ k.at = "delete" => k.req.op = "remove"
  /\ k.at = "clear" => k.req.op = "clear"
  /\ k.at = "delete" \/ (k.at \in {"check", "save", "write"} /\ k.req.op = "set") =>
       k.mine.cart # NoCart /\ DOMAIN k.mine.lines = {k.req.id}
  /\ \A i \in DOMAIN k.mine.lines :
       k.mine.lines[i].cart = k.mine.cart
         /\ k.mine.lines[i].quantity <= Stock[k.mine.lines[i].product]

CallsSound ==
  /\ cart \in [Users -> CartIds \cup {NoCart}]
  /\ DOMAIN items \subseteq ItemIds /\ items \in [DOMAIN items -> Rows]
  /\ DOMAIN call = Calls /\ \A c \in Calls : IsCall(call[c])

LEMMA CallsAreSound ==
  /\ TypeOK /\ StepsAgree /\ CopiesAreSound <=> CallsSound
  /\ (TypeOK /\ StepsAgree /\ CopiesAreSound)' <=> CallsSound'
<1>1. TypeOK /\ StepsAgree /\ CopiesAreSound <=> CallsSound
  BY ZenonT(60) DEF TypeOK, StepsAgree, CopiesAreSound, IsCall, IsCopy, CallsSound
<1>2. (TypeOK /\ StepsAgree /\ CopiesAreSound)' <=> CallsSound'
  BY ZenonT(60) DEF TypeOK, StepsAgree, CopiesAreSound, IsCall, IsCopy, CallsSound
<1>3. QED BY <1>1, <1>2

(* What an update of two fields of a call leaves.                          *)
LEMMA AtAndMine ==
  ASSUME NEW f, NEW c \in DOMAIN f, NEW b, NEW n, NEW g,
         g = [f EXCEPT ![c].at = b, ![c].mine = n],
         f[c] = [at |-> f[c].at, req |-> f[c].req, mine |-> f[c].mine, seen |-> f[c].seen]
  PROVE  /\ g[c] = [at |-> b, req |-> f[c].req, mine |-> n, seen |-> f[c].seen]
         /\ DOMAIN g = DOMAIN f /\ \A d \in DOMAIN f \ {c} : g[d] = f[d]
  OBVIOUS

LEMMA AtMineAndSeen ==
  ASSUME NEW f, NEW c \in DOMAIN f, NEW b, NEW n, NEW m, NEW g,
         g = [f EXCEPT ![c] = [@ EXCEPT !.at = b, !.mine = n, !.seen = m]],
         f[c] = [at |-> f[c].at, req |-> f[c].req, mine |-> f[c].mine, seen |-> f[c].seen]
  PROVE  /\ g[c] = [at |-> b, req |-> f[c].req, mine |-> n, seen |-> m]
         /\ DOMAIN g = DOMAIN f /\ \A d \in DOMAIN f \ {c} : g[d] = f[d]
  OBVIOUS

LEMMA AtAndSeen ==
  ASSUME NEW f, NEW c \in DOMAIN f, NEW b, NEW m, NEW g,
         g = [f EXCEPT ![c] = [@ EXCEPT !.at = b, !.seen = m]],
         f[c] = [at |-> f[c].at, req |-> f[c].req, mine |-> f[c].mine, seen |-> f[c].seen]
  PROVE  /\ g[c] = [at |-> b, req |-> f[c].req, mine |-> f[c].mine, seen |-> m]
         /\ DOMAIN g = DOMAIN f /\ \A d \in DOMAIN f \ {c} : g[d] = f[d]
  OBVIOUS

LEMMA AtAndQuantity ==
  ASSUME NEW f, NEW c \in DOMAIN f, NEW b, NEW i, NEW q, NEW g,
         g = [f EXCEPT ![c].at = b, ![c].mine.lines[i].quantity = q],
         f[c] = [at |-> f[c].at, req |-> f[c].req, mine |-> f[c].mine, seen |-> f[c].seen],
         f[c].mine = [cart |-> f[c].mine.cart, lines |-> f[c].mine.lines]
  PROVE  /\ g[c] = [at |-> b, req |-> f[c].req,
                    mine |-> [cart |-> f[c].mine.cart,
                              lines |-> [f[c].mine.lines EXCEPT ![i].quantity = q]],
                    seen |-> f[c].seen]
         /\ DOMAIN g = DOMAIN f /\ \A d \in DOMAIN f \ {c} : g[d] = f[d]
<1>1. g[c] = [at |-> b, req |-> f[c].req, mine |-> [f[c].mine EXCEPT !.lines[i].quantity = q],
              seen |-> f[c].seen]
  OBVIOUS
<1>2. [f[c].mine EXCEPT !.lines[i].quantity = q]
        = [cart |-> f[c].mine.cart, lines |-> [f[c].mine.lines EXCEPT ![i].quantity = q]]
  OBVIOUS
<1>3. QED BY <1>1, <1>2

LEMMA EmptyCopy == IsCopy(NoCopy)
  BY DEF IsCopy

LEMMA EndedCall == ASSUME NEW a \in Ends PROVE IsCall(Idle(a))
  BY EmptyCopy DEF IsCall, IsCopy

(* A call moves on, and its copy is of the cart it was of, or it has none. *)
LEMMA KeepsTheTables ==
  ASSUME CartInv, UNCHANGED <<cart, items>>, NEW c \in Calls, DOMAIN call' = Calls,
         \A d \in Calls \ {c} : call'[d] = call[d], IsCall(call'[c]),
         \/ call'[c].mine = NoCopy
         \/ /\ call'[c].req = call[c].req
            /\ call'[c].mine.cart = call[c].mine.cart
            /\ DOMAIN call'[c].mine.lines \subseteq DOMAIN call[c].mine.lines
  PROVE  CartInv'
<1> USE DEF CartInv
<1>1. (TypeOK /\ StepsAgree /\ CopiesAreSound)'
  BY CallsAreSound DEF CallsSound
<1>2. CartsAreOwn' /\ RowsBelong'
  BY DEF CartsAreOwn, RowsBelong
<1>3. QuantityWithinStock'
  BY DEF QuantityWithinStock
<1>4. QED BY <1>1, <1>2, <1>3

LEMMA CartInit == Init => CartInv
<1> SUFFICES ASSUME Init PROVE CartInv
  OBVIOUS
<1>1. TypeOK /\ StepsAgree /\ CopiesAreSound
  BY CallsAreSound, EndedCall DEF Init, CallsSound
<1>2. CartsAreOwn /\ RowsBelong /\ QuantityWithinStock
  BY DEF Init, CartsAreOwn, RowsBelong, QuantityWithinStock
<1>3. QED BY <1>1, <1>2 DEF CartInv

LEMMA EndInv ==
  ASSUME CartInv, UNCHANGED <<cart, items>>, NEW c \in Calls, NEW a \in Ends, End(c, a)
  PROVE  CartInv'
<1>1. DOMAIN call = Calls
  BY DEF CartInv, TypeOK
<1>2. DOMAIN call' = Calls /\ call'[c] = Idle(a) /\ \A d \in Calls \ {c} : call'[d] = call[d]
  BY <1>1 DEF End
<1>3. QED BY <1>2, EndedCall, KeepsTheTables

LEMMA AwaitInv ==
  ASSUME CartInv, UNCHANGED <<cart, items>>, NEW c \in Calls, NEW step, Await(c, step),
         \/ call[c].at \in {"check", "read"} /\ call[c].req.op = "add"
              /\ step \in {"read", "create"}
         \/ call[c].at = "show" /\ step = "open"
  PROVE  CartInv'
<1> DEFINE k == [call[c] EXCEPT !.at = step]
<1>1. DOMAIN call = Calls /\ IsCall(call[c])
  BY CallsAreSound DEF CartInv, CallsSound
<1>2. k.at = step /\ k.req = call[c].req /\ k.mine = call[c].mine /\ k.seen = call[c].seen
      /\ k \in [at : Awaits \cup Ends, req : Requests \cup {[op |-> "none"]},
                mine : Copies(k.mine), seen : Copies(k.seen)]
  BY <1>1 DEF IsCall
<1>3. IsCall(k)
  BY <1>1, <1>2 DEF IsCall
<1>4. DOMAIN call' = Calls /\ call'[c] = k /\ \A d \in Calls \ {c} : call'[d] = call[d]
  BY <1>1 DEF Await
<1>5. QED BY <1>2, <1>3, <1>4, KeepsTheTables

LEMMA NewCall ==
  ASSUME NEW r \in Requests, NEW a \in {"show", "clear", "check", "find"},
         a = "check" => r.op = "add", a = "find" => r.op \in {"set", "remove"},
         a = "clear" => r.op = "clear",
         NEW k, k = [Idle(a) EXCEPT !.req = r]
  PROVE  IsCall(k) /\ k.mine = NoCopy
<1>1. k = [at |-> a, req |-> r, mine |-> NoCopy, seen |-> NoCopy]
  OBVIOUS
<1>2. IsCall([at |-> a, req |-> r, mine |-> NoCopy, seen |-> NoCopy])
  BY EmptyCopy DEF IsCall, IsCopy
<1> HIDE DEF NoCopy, Idle, Copies
<1>3. IsCall(k)
  BY <1>1, <1>2, Zenon
<1>4. k.mine = NoCopy
  BY <1>1
<1>5. QED BY <1>3, <1>4

LEMMA ReceiveInv ==
  ASSUME CartInv, NEW c \in Calls, NEW r \in Requests, Receive(c, r)
  PROVE  CartInv'
<1> HIDE DEF Idle, NoCopy, Copies
<1>1. DOMAIN call = Calls
  BY DEF CartInv, TypeOK
<1>2. FirstAwait(r.op) \in {"show", "clear", "check", "find"}
      /\ (FirstAwait(r.op) = "check" => r.op = "add")
      /\ (FirstAwait(r.op) = "find" => r.op \in {"set", "remove"})
      /\ (FirstAwait(r.op) = "clear" => r.op = "clear")
  BY DEF FirstAwait, Requests
<1>3. PICK k : k = [Idle(FirstAwait(r.op)) EXCEPT !.req = r]
  OBVIOUS
<1>4. call' = [call EXCEPT ![c] = k]
  BY <1>3 DEF Receive
<1>5. IsCall(k) /\ k.mine = NoCopy
  BY <1>2, <1>3, NewCall
<1>6. DOMAIN call' = Calls /\ call'[c] = k /\ \A d \in Calls \ {c} : call'[d] = call[d]
  BY <1>1, <1>4
<1>7. QED BY <1>5, <1>6, KeepsTheTables DEF Receive

-------------------------------------------------------------------------------
(* A call takes a copy of its user's cart, which it may just have created, *)
(* or is done with it.                                                     *)
Takes(c, k) ==
  /\ items' = items /\ DOMAIN call' = Calls /\ \A d \in Calls \ {c} : call'[d] = call[d]
  /\ IsCall(call[c])' /\ User(c) \in Users /\ cart' = [cart EXCEPT ![User(c)] = k]
  /\ \/ call'[c].mine = NoCopy
     \/ call'[c].req = call[c].req /\ call'[c].mine.cart = k
  /\ cart[User(c)] = k \/ (cart[User(c)] = NoCart /\ k \in FreshCarts)
  /\ \A i \in DOMAIN call'[c].mine.lines :
       (i \in DOMAIN items /\ items[i].cart = k) \/ i \in FreshItems

LEMMA TakesCopy ==
  ASSUME CartInv, NEW c \in Calls, NEW k \in CartIds, Takes(c, k)
  PROVE  CartInv'
<1> USE DEF Takes
<1> USE DEF CartInv
<1> DEFINE u == User(c)
<1>0. cart \in [Users -> CartIds \cup {NoCart}] /\ k # NoCart
  BY DEF TypeOK
<1>1. (TypeOK /\ StepsAgree /\ CopiesAreSound)'
  BY <1>0, CallsAreSound DEF CallsSound
<1>2. cart'[u] = k /\ \A v \in Users \ {u} : cart'[v] = cart[v] /\ cart[v] # k
  BY <1>0 DEF CartsAreOwn, FreshCarts
<1>3. \A d \in Calls : call[d].mine.cart = k => User(d) = u
  BY <1>0 DEF CartsAreOwn, FreshCarts
<1>4. CartsAreOwn'
  <2>1. \A v, w \in Users : cart'[v] # NoCart /\ cart'[v] = cart'[w] => v = w
    BY <1>2 DEF CartsAreOwn
  <2>2. \A d \in Calls : call'[d].mine.cart = k => User(d)' = u
    BY <1>3
  <2>3. \A d \in Calls, v \in Users :
          call'[d].mine.cart # NoCart /\ call'[d].mine.cart = cart'[v] => v = User(d)'
    BY <1>2, <2>2 DEF CartsAreOwn
  <2>4. \A d, e \in Calls :
          call'[d].mine.cart # NoCart /\ call'[d].mine.cart = call'[e].mine.cart
            => User(d)' = User(e)'
    BY <2>2 DEF CartsAreOwn
  <2>5. QED BY <2>1, <2>3, <2>4 DEF CartsAreOwn
<1>5. \A i \in DOMAIN call'[c].mine.lines, d \in Calls \ {c} :
        Copied(d, i) => call[d].mine.cart = k
  BY DEF RowsBelong, FreshItems, Known
<1>6. RowsBelong'
  <2>1. \A i \in DOMAIN items : \E v \in Users : items[i].cart = cart'[v]
    <3> SUFFICES ASSUME NEW i \in DOMAIN items PROVE \E v \in Users : items[i].cart = cart'[v]
      OBVIOUS
    <3>1. PICK v \in Users : items[i].cart = cart[v]
      BY DEF RowsBelong
    <3>2. items[i].cart # NoCart
      BY DEF TypeOK, Rows
    <3>3. cart[v] = cart'[v]
      BY <1>2, <3>1, <3>2
    <3>4. QED BY <3>1, <3>3
  <2>2. \A d \in Calls : \A i \in DOMAIN items :
          Copied(d, i)' => items[i].cart = call'[d].mine.cart
    BY DEF RowsBelong, FreshItems
  <2>3. \A d, e \in Calls, i \in ItemIds :
          Copied(d, i)' /\ Copied(e, i)' => call'[d].mine.cart = call'[e].mine.cart
    BY <1>5 DEF RowsBelong
  <2>4. QED BY <2>1, <2>2, <2>3 DEF RowsBelong
<1>7. QuantityWithinStock'
  BY DEF QuantityWithinStock
<1>8. QED BY <1>1, <1>4, <1>6, <1>7

(* The copy with the addition: its lines are those there were, or fresh.   *)
LEMMA MergedLines ==
  ASSUME NEW r \in Requests, r.op = "add", NEW k \in CartIds, NEW lines,
         lines \in [DOMAIN lines -> Rows], DOMAIN lines \subseteq ItemIds,
         \A i \in DOMAIN lines : lines[i].cart = k, NEW m \in Merged(r, k, lines)
  PROVE  /\ m \in [DOMAIN m -> Rows] /\ DOMAIN m \subseteq ItemIds
         /\ \A i \in DOMAIN m : m[i].cart = k /\ (i \in DOMAIN lines \/ i \in FreshItems)
         /\ \A i \in DOMAIN m : m[i].product # r.product => i \in DOMAIN lines /\ m[i] = lines[i]
<1> DEFINE same == {i \in DOMAIN lines : lines[i].product = r.product}
<1>1. r.product \in Products /\ r.quantity \in Nat \ {0}
  BY DEF Requests, Quantities
<1>2. CASE same # {}
  <2>1. PICK i \in same : m = [lines EXCEPT ![i].quantity = @ + r.quantity]
    BY <1>2 DEF Merged
  <2>2. lines[i] \in Rows
    OBVIOUS
  <2> DEFINE row == [lines[i] EXCEPT !.quantity = @ + r.quantity]
  <2>3. row \in Rows /\ row.cart = k /\ row.product = r.product
    BY <1>1, <2>2 DEF Rows
  <2>4. DOMAIN m = DOMAIN lines /\ m[i] = row /\ \A j \in DOMAIN m \ {i} : m[j] = lines[j]
    BY <2>1
  <2> HIDE DEF row
  <2>5. m = [j \in DOMAIN lines |-> IF j = i THEN row ELSE lines[j]]
    BY <2>1 DEF row
  <2>6. QED BY <2>3, <2>4, <2>5
<1>3. CASE same = {}
  <2>1. PICK i \in FreshItems : m = WithLine(lines, i, Row(k, r.product, r.quantity))
    BY <1>3 DEF Merged
  <2> DEFINE row == Row(k, r.product, r.quantity)
  <2>2. row \in Rows /\ row.cart = k /\ row.product = r.product
    BY <1>1 DEF Rows, Row
  <2> HIDE DEF row
  <2>3. m = [j \in DOMAIN lines \cup {i} |-> IF j = i THEN row ELSE lines[j]]
    BY <2>1 DEF WithLine, row
  <2>4. i \in ItemIds
    BY DEF FreshItems
  <2>5. QED BY <2>2, <2>3, <2>4
<1>4. QED BY <1>2, <1>3

(* The end of an addition's reading.                                       *)
LEMMA MergeInv ==
  ASSUME CartInv, items' = items, NEW c \in Calls, call[c].at \in {"read", "create"},
         NEW k \in CartIds, NEW lines, Merge(c, k, lines),
         lines \in [DOMAIN lines -> Rows], DOMAIN lines \subseteq DOMAIN items,
         \A i \in DOMAIN lines : lines[i] = items[i] /\ items[i].cart = k,
         cart' = [cart EXCEPT ![User(c)] = k],
         cart[User(c)] = k \/ (cart[User(c)] = NoCart /\ k \in FreshCarts)
  PROVE  CartInv'
<1> DEFINE r == call[c].req
<1>1. DOMAIN call = Calls /\ IsCall(call[c])
  BY CallsAreSound DEF CartInv, CallsSound
<1>2. r \in Requests /\ r.op = "add" /\ User(c) \in Users
  BY <1>1 DEF IsCall, Requests
<1>3. PICK m \in Merged(r, k, lines) :
        IF \E i \in DOMAIN m : m[i].product = r.product /\ m[i].quantity > Stock[m[i].product]
        THEN End(c, "rejected")
        ELSE call' = [call EXCEPT ![c].at = "save", ![c].mine = [cart |-> k, lines |-> m]]
  BY DEF Merge
<1>4. /\ m \in [DOMAIN m -> Rows] /\ DOMAIN m \subseteq ItemIds
      /\ \A i \in DOMAIN m : m[i].cart = k /\ (i \in DOMAIN lines \/ i \in FreshItems)
      /\ \A i \in DOMAIN m : m[i].product # r.product => i \in DOMAIN lines /\ m[i] = lines[i]
  <2>1. DOMAIN lines \subseteq ItemIds
    BY DEF CartInv, TypeOK
  <2>2. QED BY <1>2, <1>3, <2>1, MergedLines
<1>5. CASE End(c, "rejected")
  <2>1. DOMAIN call' = Calls /\ call'[c] = Idle("rejected")
        /\ \A d \in Calls \ {c} : call'[d] = call[d]
    BY <1>1, <1>5 DEF End
  <2>2. call'[c].mine = NoCopy /\ DOMAIN call'[c].mine.lines = {} /\ IsCall(call'[c])
    BY <2>1, EndedCall
  <2>3. Takes(c, k)
    BY <1>2, <2>1, <2>2 DEF Takes
  <2> HIDE DEF Idle, NoCopy, Copies, Copied, Ends, Awaits, NoLines
  <2>4. QED BY <2>3, TakesCopy
<1>6. CASE /\ call' = [call EXCEPT ![c].at = "save", ![c].mine = [cart |-> k, lines |-> m]]
           /\ \A i \in DOMAIN m : m[i].product = r.product => m[i].quantity <= Stock[m[i].product]
  <2> DEFINE copy == [cart |-> k, lines |-> m]
             n == [at |-> "save", req |-> r, mine |-> copy, seen |-> call[c].seen]
  <2>1. call[c] = [at |-> call[c].at, req |-> call[c].req, mine |-> call[c].mine,
                   seen |-> call[c].seen]
    BY <1>1 DEF IsCall
  <2>2. call'[c] = n /\ DOMAIN call' = Calls /\ \A d \in Calls \ {c} : call'[d] = call[d]
    BY <1>1, <1>6, <2>1, AtAndMine
  <2> HIDE DEF n
  <2>a. n.at = "save" /\ n.req = r /\ n.mine = copy /\ n.seen = call[c].seen
        /\ n = [at |-> "save", req |-> r, mine |-> copy, seen |-> call[c].seen]
    BY DEF n
  <2>3. n.mine.cart = k /\ n.mine.lines = m /\ IsCopy(n.mine)
    BY <1>4, <2>a DEF IsCopy
  <2>4. \A i \in DOMAIN m : m[i].quantity <= Stock[m[i].product]
    BY <1>4, <1>6 DEF CartInv, QuantityWithinStock, TypeOK, Rows
  <2>5. IsCall(n)
    BY <1>1, <1>2, <1>4, <2>a, <2>3, <2>4 DEF IsCall, IsCopy
  <2>6. call'[c].req = call[c].req /\ call'[c].mine.cart = k
        /\ call'[c].mine.lines = m /\ IsCall(call'[c])
    BY <2>2, <2>3, <2>5, <2>a
  <2>7. \A i \in DOMAIN call'[c].mine.lines :
          (i \in DOMAIN items /\ items[i].cart = k) \/ i \in FreshItems
    BY <1>4, <2>6
  <2>8. Takes(c, k)
    BY <1>2, <2>2, <2>6, <2>7 DEF Takes
  <2> HIDE DEF copy, r, n, Idle, NoCopy, Copies, Copied, Ends, Awaits, NoLines
  <2>9. QED BY <2>8, TakesCopy
<1>7. \A i \in DOMAIN m : m[i].quantity \in Nat /\ Stock[m[i].product] \in Nat
  BY <1>4 DEF Rows
<1>8. QED BY <1>3, <1>5, <1>6, <1>7

-------------------------------------------------------------------------------
LEMMA CartLines ==
  ASSUME TypeOK, NEW k
  PROVE  LET lines == LinesOf(k)
         IN  /\ lines \in [DOMAIN lines -> Rows] /\ DOMAIN lines \subseteq DOMAIN items
             /\ \A i \in DOMAIN lines : lines[i] = items[i] /\ items[i].cart = k
  BY DEF TypeOK, LinesOf, Restrict

LEMMA RunningCall ==
  ASSUME CartInv, NEW c \in Calls, call[c].at \notin Ends
  PROVE  /\ DOMAIN call = Calls /\ IsCall(call[c]) /\ cart \in [Users -> CartIds \cup {NoCart}]
         /\ call[c].req \in Requests /\ User(c) \in Users
         /\ call[c] = [at |-> call[c].at, req |-> call[c].req, mine |-> call[c].mine,
                       seen |-> call[c].seen]
<1>1. DOMAIN call = Calls /\ IsCall(call[c]) /\ cart \in [Users -> CartIds \cup {NoCart}]
  BY CallsAreSound DEF CartInv, CallsSound
<1>2. call[c].req \in Requests
  BY <1>1 DEF IsCall
<1>3. QED BY <1>1, <1>2 DEF Requests, IsCall

LEMMA ReadCartInv ==
  ASSUME CartInv, NEW c \in Calls, ReadCart(c)
  PROVE  CartInv'
<1> DEFINE k == cart[User(c)]
<1>1. /\ DOMAIN call = Calls /\ IsCall(call[c]) /\ cart \in [Users -> CartIds \cup {NoCart}]
      /\ User(c) \in Users
  BY RunningCall DEF ReadCart
<1>2. CASE k = NoCart
  BY <1>1, <1>2, AwaitInv DEF ReadCart, IsCall
<1>3. CASE k # NoCart /\ call[c].at = "read"
  <2>1. k \in CartIds /\ cart' = [cart EXCEPT ![User(c)] = k] /\ items' = items
    BY <1>1, <1>3 DEF ReadCart
  <2>2. Merge(c, k, LinesOf(k))
    BY <1>3 DEF ReadCart
  <2>3. PICK lines : lines = LinesOf(k)
    OBVIOUS
  <2>4. /\ lines \in [DOMAIN lines -> Rows] /\ DOMAIN lines \subseteq DOMAIN items
        /\ \A i \in DOMAIN lines : lines[i] = items[i] /\ items[i].cart = k
    BY <2>3, CartLines DEF CartInv
  <2> HIDE DEF Idle, NoCopy, Copies, Copied, Ends, Awaits, NoLines
  <2>5. Merge(c, k, lines)
    BY <2>2, <2>3
  <2>6. QED BY <1>3, <2>1, <2>4, <2>5, MergeInv
<1>4. CASE k # NoCart /\ call[c].at = "show"
  BY <1>4, EndInv DEF ReadCart
<1>5. QED BY <1>2, <1>3, <1>4 DEF ReadCart

LEMMA CreateCartInv ==
  ASSUME CartInv, NEW c \in Calls, CreateCart(c)
  PROVE  CartInv'
<1>1. /\ DOMAIN call = Calls /\ IsCall(call[c]) /\ cart \in [Users -> CartIds \cup {NoCart}]
      /\ User(c) \in Users
  BY RunningCall DEF CreateCart
<1>2. CASE cart[User(c)] # NoCart
  BY <1>2, EndInv DEF CreateCart
<1>3. CASE cart[User(c)] = NoCart
  <2>1. PICK k \in FreshCarts :
          /\ cart' = [cart EXCEPT ![User(c)] = k]
          /\ IF call[c].at = "create" THEN Merge(c, k, NoLines) ELSE End(c, "ok")
    BY <1>3 DEF CreateCart
  <2>2. k \in CartIds /\ items' = items
    BY DEF FreshCarts, CreateCart
  <2>3. CASE call[c].at = "create"
    <3>1. NoLines \in [DOMAIN NoLines -> Rows] /\ DOMAIN NoLines = {}
      OBVIOUS
    <3>2. Merge(c, k, NoLines)
      BY <2>1, <2>3
    <3> HIDE DEF NoLines
    <3>3. QED BY <1>3, <2>1, <2>2, <2>3, <3>1, <3>2, MergeInv
  <2>4. CASE End(c, "ok")
    <3>1. DOMAIN call' = Calls /\ call'[c] = Idle("ok")
          /\ \A d \in Calls \ {c} : call'[d] = call[d]
      BY <1>1, <2>4 DEF End
    <3>2. call'[c].mine = NoCopy /\ DOMAIN call'[c].mine.lines = {} /\ IsCall(call'[c])
      BY <3>1, EndedCall
    <3>3. Takes(c, k)
      BY <1>1, <1>3, <2>1, <2>2, <3>1, <3>2 DEF Takes
    <3> HIDE DEF Idle, NoCopy, Copies, Copied, Ends, Awaits, NoLines
    <3>4. QED BY <2>2, <3>3, TakesCopy
  <2>5. QED BY <2>1, <2>3, <2>4
<1>4. QED BY <1>2, <1>3

LEMMA FindItemInv ==
  ASSUME CartInv, NEW c \in Calls, FindItem(c)
  PROVE  CartInv'
<1> DEFINE r == call[c].req
           k == cart[User(c)]
<1>1. /\ DOMAIN call = Calls /\ IsCall(call[c]) /\ cart \in [Users -> CartIds \cup {NoCart}]
      /\ r \in Requests /\ User(c) \in Users
      /\ call[c] = [at |-> call[c].at, req |-> call[c].req, mine |-> call[c].mine,
                    seen |-> call[c].seen]
  BY RunningCall DEF FindItem
<1>2. CASE ~Owned(c, r.id)
  BY <1>2, EndInv DEF FindItem
<1>3. CASE Owned(c, r.id)
  <2>1. r.op \in {"set", "remove"} /\ r.id \in ItemIds
    BY <1>1 DEF FindItem, IsCall, Requests
  <2>2. r.id \in DOMAIN items /\ items[r.id].cart = k /\ items[r.id] \in Rows /\ k \in CartIds
    BY <1>3 DEF Owned, CartInv, TypeOK, Rows
  <2>3. PICK copy : copy = [cart |-> k, lines |-> Restrict(items, {r.id})]
    OBVIOUS
  <2>4. copy.cart = k /\ DOMAIN copy.lines = {r.id} /\ copy.lines[r.id] = items[r.id]
        /\ copy \in [cart : CartIds \cup {NoCart}, lines : [DOMAIN copy.lines -> Rows]]
    BY <2>2, <2>3 DEF Restrict
  <2>5. PICK step : step = IF r.op = "set" THEN "check" ELSE "delete"
    OBVIOUS
  <2>6. call' = [call EXCEPT ![c] = [@ EXCEPT !.at = step, !.mine = copy]]
    BY <1>3, <2>2, <2>3, <2>5 DEF FindItem
  <2>7. PICK n : n = [at |-> step, req |-> r, mine |-> copy, seen |-> call[c].seen]
    OBVIOUS
  <2>8. call'[c] = n /\ DOMAIN call' = Calls /\ \A d \in Calls \ {c} : call'[d] = call[d]
    BY <1>1, <2>6, <2>7
  <2>9. items[r.id].quantity <= Stock[items[r.id].product]
    BY <2>2 DEF CartInv, QuantityWithinStock, Rows
  <2>10. IsCall(n)
    BY <1>1, <2>1, <2>2, <2>4, <2>5, <2>7, <2>9 DEF IsCall, IsCopy
  <2>11. cart' = [cart EXCEPT ![User(c)] = k] /\ items' = items
    BY <1>1 DEF FindItem
  <2>12. n.req = r /\ n.mine = copy
    BY <2>7
  <2>13. Takes(c, k)
    BY <1>1, <2>2, <2>4, <2>8, <2>10, <2>11, <2>12 DEF Takes
  <2> HIDE DEF r, k, Idle, NoCopy, Copies, Copied, Ends, Awaits, NoLines
  <2>14. QED BY <2>2, <2>13, TakesCopy
<1>4. QED BY <1>2, <1>3

LEMMA CheckProductInv ==
  ASSUME CartInv, NEW c \in Calls, CheckProduct(c)
  PROVE  CartInv'
<1> DEFINE r == call[c].req
           own == call[c].mine
<1>1. /\ DOMAIN call = Calls /\ IsCall(call[c]) /\ r \in Requests
      /\ call[c] = [at |-> call[c].at, req |-> call[c].req, mine |-> call[c].mine,
                    seen |-> call[c].seen]
  BY RunningCall DEF CheckProduct
<1>2. r.op \in {"add", "set"} /\ call[c].at = "check"
  BY <1>1 DEF CheckProduct, IsCall
<1>3. PICK p : p = IF r.op = "add" THEN r.product ELSE own.lines[r.id].product
  OBVIOUS
<1>4. CASE r.quantity > Stock[p]
  BY <1>3, <1>4, EndInv DEF CheckProduct
<1>5. CASE ~(r.quantity > Stock[p]) /\ r.op = "add"
  BY <1>2, <1>3, <1>5, AwaitInv DEF CheckProduct
<1>6. CASE ~(r.quantity > Stock[p]) /\ r.op = "set"
  <2>1. r.id \in ItemIds /\ r.quantity \in Nat \ {0} /\ DOMAIN own.lines = {r.id}
        /\ own.cart # NoCart /\ IsCopy(own)
    BY <1>1, <1>2, <1>6 DEF IsCall, Requests, Quantities
  <2>2. own = [cart |-> own.cart, lines |-> own.lines] /\ own.lines[r.id] \in Rows
        /\ own.cart \in CartIds
    BY <2>1 DEF IsCopy
  <2>3. call' = [call EXCEPT ![c].at = "save", ![c].mine.lines[r.id].quantity = r.quantity]
    BY <1>3, <1>6 DEF CheckProduct
  <2>4. PICK lines : lines = [own.lines EXCEPT ![r.id].quantity = r.quantity]
    OBVIOUS
  <2>5. PICK copy : copy = [cart |-> own.cart, lines |-> lines]
    OBVIOUS
  <2>6. PICK n : n = [at |-> "save", req |-> r, mine |-> copy, seen |-> call[c].seen]
    OBVIOUS
  <2>7. call'[c] = n /\ DOMAIN call' = Calls /\ \A d \in Calls \ {c} : call'[d] = call[d]
    BY <1>1, <2>2, <2>3, <2>4, <2>5, <2>6, AtAndQuantity
  <2>8. DOMAIN lines = {r.id} /\ lines[r.id] = [own.lines[r.id] EXCEPT !.quantity = r.quantity]
    BY <2>1, <2>4
  <2>9. lines[r.id] \in Rows /\ lines[r.id].cart = own.cart
        /\ lines[r.id].product = p /\ lines[r.id].quantity = r.quantity
    BY <1>1, <1>3, <1>6, <2>1, <2>2, <2>8 DEF Rows, IsCall
  <2>10. r.quantity <= Stock[p]
    BY <1>6, <2>1, <2>9 DEF Rows
  <2>11. lines \in [DOMAIN lines -> Rows]
    BY <2>4, <2>8, <2>9
  <2>12. copy \in [cart : CartIds \cup {NoCart}, lines : [DOMAIN copy.lines -> Rows]]
         /\ IsCopy(copy) /\ copy.cart = own.cart /\ copy.lines = lines
    BY <2>1, <2>2, <2>5, <2>8, <2>11 DEF IsCopy
  <2>13. n.at = "save" /\ n.req = r /\ n.mine = copy /\ n.seen = call[c].seen
    BY <2>6
  <2>14. IsCall(n)
    <3>1. n \in [at : Awaits \cup Ends, req : Requests \cup {[op |-> "none"]},
                 mine : Copies(n.mine), seen : Copies(n.seen)]
          /\ IsCopy(n.mine) /\ IsCopy(n.seen)
      BY <1>1, <2>6, <2>12, <2>13 DEF IsCall
    <3>2. \A i \in DOMAIN n.mine.lines :
            n.mine.lines[i].cart = n.mine.cart
              /\ n.mine.lines[i].quantity <= Stock[n.mine.lines[i].product]
      BY <2>8, <2>9, <2>10, <2>12, <2>13
    <3>3. n.mine.cart # NoCart /\ DOMAIN n.mine.lines = {n.req.id}
      BY <2>1, <2>8, <2>12, <2>13
    <3>4. QED BY <1>1, <1>6, <2>13, <3>1, <3>2, <3>3 DEF IsCall
  <2>15. UNCHANGED <<cart, items>>
    BY DEF CheckProduct
  <2>16. call'[c].req = call[c].req /\ call'[c].mine.cart = call[c].mine.cart
         /\ DOMAIN call'[c].mine.lines \subseteq DOMAIN call[c].mine.lines
    BY <2>1, <2>7, <2>8, <2>12, <2>13
  <2> HIDE DEF r, own, Idle, NoCopy, Copies, Copied, Ends, Awaits, NoLines
  <2>17. IsCall(call'[c])
    BY <2>7, <2>14
  <2>18. QED BY <2>7, <2>15, <2>16, <2>17, KeepsTheTables
<1>7. QED BY <1>2, <1>4, <1>5, <1>6

LEMMA SaveLooksInv ==
  ASSUME CartInv, NEW c \in Calls, SaveLooks(c)
  PROVE  CartInv'
<1> DEFINE k == call[c].mine.cart
<1>1. /\ DOMAIN call = Calls /\ IsCall(call[c]) /\ call[c].at = "save"
      /\ call[c] = [at |-> call[c].at, req |-> call[c].req, mine |-> call[c].mine,
                    seen |-> call[c].seen]
  BY RunningCall DEF SaveLooks
<1>2. PICK lines : lines = IF call[c].req.op = "add" THEN LinesOf(k)
                           ELSE Restrict(items, DOMAIN call[c].mine.lines \cap DOMAIN items)
  OBVIOUS
<1>3. lines \in [DOMAIN lines -> Rows] /\ DOMAIN lines \subseteq ItemIds
  BY <1>2 DEF LinesOf, Restrict, CartInv, TypeOK
<1>4. PICK copy : copy = [cart |-> IF cart[User(c)] = k THEN k ELSE NoCart, lines |-> lines]
  OBVIOUS
<1>5. k \in CartIds /\ k # NoCart
  BY <1>1 DEF IsCall, IsCopy
<1>6. copy \in [cart : CartIds \cup {NoCart}, lines : [DOMAIN copy.lines -> Rows]]
      /\ IsCopy(copy)
  BY <1>3, <1>4, <1>5 DEF IsCopy
<1>7. PICK n : n = [at |-> "write", req |-> call[c].req, mine |-> call[c].mine, seen |-> copy]
  OBVIOUS
<1>8. call' = [call EXCEPT ![c] = [@ EXCEPT !.at = "write", !.seen = copy]]
  BY <1>2, <1>4 DEF SaveLooks
<1>9. call'[c] = n /\ DOMAIN call' = Calls /\ \A d \in Calls \ {c} : call'[d] = call[d]
  BY <1>1, <1>7, <1>8
<1>10. IsCall(n) /\ n.req = call[c].req /\ n.mine = call[c].mine
  BY <1>1, <1>5, <1>6, <1>7 DEF IsCall
<1>11. UNCHANGED <<cart, items>>
  BY DEF SaveLooks
<1> HIDE DEF k, Idle, NoCopy, Copies, Copied, Ends, Awaits, NoLines
<1>12. IsCall(call'[c]) /\ call'[c].req = call[c].req /\ call'[c].mine = call[c].mine
  BY <1>9, <1>10
<1>13. QED BY <1>9, <1>11, <1>12, KeepsTheTables

-------------------------------------------------------------------------------
(* A call deletes rows, with the cart they are of or without it.           *)
Deletes(c, kept) ==
  /\ DOMAIN call' = Calls /\ \A d \in Calls \ {c} : call'[d] = call[d]
  /\ IsCall(call[c])' /\ call'[c].mine = NoCopy
  /\ kept \subseteq DOMAIN items /\ items' = Restrict(items, kept)
  /\ cart' \in [Users -> CartIds \cup {NoCart}]
  /\ \A u \in Users :
       cart'[u] = cart[u] \/ (cart'[u] = NoCart /\ \A i \in kept : items[i].cart # cart[u])

LEMMA DeletesRows ==
  ASSUME CartInv, NEW c \in Calls, NEW kept, Deletes(c, kept)
  PROVE  CartInv'
<1> USE DEF Deletes, CartInv
<1>1. /\ items \in [DOMAIN items -> Rows] /\ DOMAIN items \subseteq ItemIds
      /\ cart \in [Users -> CartIds \cup {NoCart}]
  BY DEF TypeOK
<1>2. DOMAIN items' = kept /\ items' \in [kept -> Rows] /\ \A i \in kept : items'[i] = items[i]
  BY <1>1 DEF Restrict
<1>3. (TypeOK /\ StepsAgree /\ CopiesAreSound)'
  BY <1>1, <1>2, CallsAreSound DEF CallsSound
<1>4. CartsAreOwn'
  BY DEF CartsAreOwn
<1>5. RowsBelong'
  <2>1. \A i \in kept : \E u \in Users : items'[i].cart = cart'[u]
    BY <1>1, <1>2 DEF RowsBelong, Rows
  <2>2. \A d \in Calls : \A i \in kept : Copied(d, i)' => items'[i].cart = call'[d].mine.cart
    BY <1>2 DEF RowsBelong
  <2>3. \A d, e \in Calls, i \in ItemIds :
          Copied(d, i)' /\ Copied(e, i)' => call'[d].mine.cart = call'[e].mine.cart
    BY DEF RowsBelong
  <2>4. QED BY <1>2, <2>1, <2>2, <2>3 DEF RowsBelong
<1>6. QuantityWithinStock'
  BY <1>2 DEF QuantityWithinStock
<1>7. QED BY <1>3, <1>4, <1>5, <1>6

LEMMA DeleteItemInv ==
  ASSUME CartInv, NEW c \in Calls, DeleteItem(c)
  PROVE  CartInv'
<1>1. /\ DOMAIN call = Calls /\ IsCall(call[c]) /\ call[c].at = "delete"
      /\ cart \in [Users -> CartIds \cup {NoCart}]
      /\ call[c] = [at |-> call[c].at, req |-> call[c].req, mine |-> call[c].mine,
                    seen |-> call[c].seen]
  BY RunningCall DEF DeleteItem
<1>2. PICK kept : kept = DOMAIN items \ {call[c].req.id}
  OBVIOUS
<1>3. PICK n : n = [at |-> "show", req |-> call[c].req, mine |-> NoCopy, seen |-> call[c].seen]
  OBVIOUS
<1>4. IsCall(n) /\ n.mine = NoCopy
  BY <1>1, <1>3, EmptyCopy DEF IsCall
<1>5. call'[c] = n /\ DOMAIN call' = Calls /\ \A d \in Calls \ {c} : call'[d] = call[d]
  BY <1>1, <1>3 DEF DeleteItem
<1>6. Deletes(c, kept)
  BY <1>1, <1>2, <1>4, <1>5 DEF Deletes, DeleteItem
<1>7. QED BY <1>6, DeletesRows

LEMMA ClearCartInv ==
  ASSUME CartInv, NEW c \in Calls, ClearCart(c)
  PROVE  CartInv'
<1>1. DOMAIN call = Calls /\ cart \in [Users -> CartIds \cup {NoCart}] /\ User(c) \in Users
  BY RunningCall DEF ClearCart
<1>2. PICK kept : kept = {i \in DOMAIN items : items[i].cart # cart[User(c)]}
  OBVIOUS
<1>3. /\ DOMAIN call' = Calls /\ call'[c] = Idle("ok")
      /\ \A d \in Calls \ {c} : call'[d] = call[d]
  BY <1>1 DEF ClearCart, End
<1>4. IsCall(call'[c]) /\ call'[c].mine = NoCopy
  BY <1>3, EndedCall
<1>5. cart' = [cart EXCEPT ![User(c)] = NoCart] /\ items' = Restrict(items, kept)
  BY <1>2 DEF ClearCart
<1>6. Deletes(c, kept)
  BY <1>1, <1>2, <1>3, <1>4, <1>5 DEF Deletes
<1>7. QED BY <1>6, DeletesRows

(* The copy is written: new rows of the cart it is of, or other quantities *)
(* in rows that still are there.                                           *)
LEMMA SaveWritesInv ==
  ASSUME CartInv, NEW c \in Calls, SaveWrites(c)
  PROVE  CartInv'
<1> DEFINE k == call[c].mine.cart
           mine == call[c].mine.lines
           seen == call[c].seen.lines
           Written(i) == i \in Inserted(c) \/ (i \in DOMAIN mine \cap DOMAIN seen /\ mine[i] # seen[i])
<1>1. /\ DOMAIN call = Calls /\ IsCall(call[c]) /\ call[c].at = "write"
      /\ cart \in [Users -> CartIds \cup {NoCart}] /\ User(c) \in Users
      /\ call[c] = [at |-> call[c].at, req |-> call[c].req, mine |-> call[c].mine,
                    seen |-> call[c].seen]
  BY RunningCall DEF SaveWrites
<1>2. CASE Violates(c)
  BY <1>2, EndInv DEF SaveWrites
<1>3. CASE ~Violates(c)
  <2>1. /\ cart' = IF InsertsCart(c) THEN [cart EXCEPT ![User(c)] = k] ELSE cart
        /\ items' = [i \in DOMAIN items \cup Inserted(c) |->
                        IF Written(i) THEN mine[i] ELSE items[i]]
        /\ call' = [call EXCEPT ![c] = [@ EXCEPT !.at = "show", !.mine = NoCopy, !.seen = NoCopy]]
    BY <1>3 DEF SaveWrites
  <2>2. k \in CartIds /\ k # NoCart /\ DOMAIN mine \subseteq ItemIds /\ mine \in [DOMAIN mine -> Rows]
        /\ \A i \in DOMAIN mine : mine[i].cart = k /\ mine[i].quantity <= Stock[mine[i].product]
    BY <1>1 DEF IsCall, IsCopy
  <2>3. DOMAIN items \subseteq ItemIds /\ items \in [DOMAIN items -> Rows]
    BY DEF CartInv, TypeOK
  <2>4. Inserted(c) \subseteq DOMAIN mine /\ \A i : Written(i) => i \in DOMAIN mine
    BY DEF Inserted
  <2>5. InsertsCart(c) => cart[User(c)] = NoCart
    BY <1>3 DEF Violates
  <2>6. Inserted(c) # {} /\ ~InsertsCart(c) => cart[User(c)] = k
    BY <1>3 DEF Violates
  <2>7. DOMAIN items' = DOMAIN items \cup Inserted(c)
        /\ \A i \in DOMAIN items' : items'[i] = IF Written(i) THEN mine[i] ELSE items[i]
    BY <2>1
  <2>8. items' \in [DOMAIN items' -> Rows] /\ DOMAIN items' \subseteq ItemIds
    <3> HIDE DEF Written, mine, seen, k
    <3>1. \A i \in DOMAIN items' : items'[i] \in Rows
      BY <2>2, <2>3, <2>4, <2>7 DEF Written
    <3>2. items' = [i \in DOMAIN items' |-> items'[i]]
      BY <2>1, <2>7
    <3>3. QED BY <2>2, <2>3, <2>4, <2>7, <3>1, <3>2
  <2>9. cart' \in [Users -> CartIds \cup {NoCart}]
    BY <1>1, <2>1, <2>2
  <2>10. PICK n : n = [at |-> "show", req |-> call[c].req, mine |-> NoCopy, seen |-> NoCopy]
    OBVIOUS
  <2>11. IsCall(n) /\ n.mine = NoCopy
    BY <1>1, <2>10, EmptyCopy DEF IsCall
  <2>12. call'[c] = n /\ DOMAIN call' = Calls /\ \A d \in Calls \ {c} : call'[d] = call[d]
    BY <1>1, <2>1, <2>10, AtMineAndSeen
  <2>13. (TypeOK /\ StepsAgree /\ CopiesAreSound)'
    BY <2>8, <2>9, <2>11, <2>12, CallsAreSound DEF CallsSound, CartInv
  <2>14. DOMAIN call'[c].mine.lines = {} /\ call'[c].mine.cart = NoCart
    BY <2>11, <2>12
  <2>15. \A u \in Users : cart'[u] = cart[u] \/ (u = User(c) /\ cart[u] = NoCart /\ cart'[u] = k)
    BY <1>1, <2>1, <2>5
  <2>16. InsertsCart(c) => cart'[User(c)] = k
    BY <1>1, <2>1
  <2>17. CartsAreOwn'
    <3> HIDE DEF NoCopy, Idle, Copies, NoLines
    <3>1. \A u, v \in Users : cart'[u] # NoCart /\ cart'[u] = cart'[v] => u = v
      BY <1>1, <2>2, <2>15 DEF CartInv, CartsAreOwn
    <3>2. \A d \in Calls, u \in Users :
            call'[d].mine.cart # NoCart /\ call'[d].mine.cart = cart'[u] => u = User(d)'
      BY <1>1, <2>2, <2>12, <2>14, <2>15 DEF CartInv, CartsAreOwn
    <3>3. \A d, e \in Calls :
            call'[d].mine.cart # NoCart /\ call'[d].mine.cart = call'[e].mine.cart
              => User(d)' = User(e)'
      BY <2>12, <2>14 DEF CartInv, CartsAreOwn
    <3>4. QED BY <3>1, <3>2, <3>3 DEF CartsAreOwn
  <2>18. \A i \in DOMAIN items : items'[i].cart = items[i].cart
    BY <2>2, <2>4, <2>7 DEF CartInv, RowsBelong
  <2>19. \A i \in Inserted(c) : items'[i].cart = k
    BY <2>2, <2>4, <2>7
  <2>20. RowsBelong'
    <3> HIDE DEF Written, NoCopy, Idle, Copies, NoLines
    <3>1. \A i \in DOMAIN items' : \E u \in Users : items'[i].cart = cart'[u]
      <4>1. \A i \in DOMAIN items : \E u \in Users : items[i].cart = cart'[u]
        <5> SUFFICES ASSUME NEW i \in DOMAIN items PROVE \E u \in Users : items[i].cart = cart'[u]
          OBVIOUS
        <5>1. PICK u \in Users : items[i].cart = cart[u]
          BY DEF CartInv, RowsBelong
        <5>2. items[i].cart # NoCart
          BY <2>3 DEF Rows
        <5>3. QED BY <2>15, <5>1, <5>2
      <4>2. Inserted(c) # {} => cart'[User(c)] = k
        BY <1>1, <2>1, <2>6, <2>16
      <4>3. QED BY <1>1, <2>7, <2>18, <2>19, <4>1, <4>2
    <3>2. \A d \in Calls : \A i \in DOMAIN items' :
            Copied(d, i)' => items'[i].cart = call'[d].mine.cart
      <4> SUFFICES ASSUME NEW d \in Calls, d # c, NEW i \in DOMAIN items', Copied(d, i)
                   PROVE  items'[i].cart = call[d].mine.cart
        BY <2>12, <2>14
      <4>1. CASE i \in DOMAIN items
        BY <2>18, <4>1 DEF CartInv, RowsBelong
      <4>2. CASE i \in Inserted(c)
        BY <2>2, <2>4, <2>19, <4>2 DEF CartInv, RowsBelong
      <4>3. QED BY <2>7, <4>1, <4>2
    <3>3. \A d, e \in Calls, i \in ItemIds :
            Copied(d, i)' /\ Copied(e, i)' => call'[d].mine.cart = call'[e].mine.cart
      BY <2>12, <2>14 DEF CartInv, RowsBelong
    <3>4. QED BY <3>1, <3>2, <3>3 DEF RowsBelong
  <2>21. QuantityWithinStock'
    <3> SUFFICES ASSUME NEW i \in DOMAIN items'
                 PROVE  items'[i].quantity \in 1 .. Stock[items'[i].product]
      BY DEF QuantityWithinStock
    <3>1. CASE Written(i)
      <4>1. mine[i] \in Rows /\ mine[i].quantity <= Stock[mine[i].product]
        BY <2>2, <2>4, <3>1
      <4>2. mine[i].quantity \in 1 .. Stock[mine[i].product]
        BY <4>1 DEF Rows
      <4>3. QED BY <2>7, <3>1, <4>2
    <3>2. CASE ~Written(i)
      BY <2>7, <3>2 DEF CartInv, QuantityWithinStock
    <3>3. QED BY <3>1, <3>2
  <2>22. QED BY <2>13, <2>17, <2>20, <2>21 DEF CartInv
<1>4. QED BY <1>2, <1>3

-------------------------------------------------------------------------------
LEMMA StopsInv ==
  ASSUME CartInv, CartServiceStops
  PROVE  CartInv'
<1> USE DEF CartInv
<1>1. CallsSound
  BY CallsAreSound
<1>2. DOMAIN call' = Calls /\ UNCHANGED <<cart, items>>
      /\ \A c \in Calls : call'[c] = call[c] \/ call'[c] = Idle("failed")
  BY DEF CartServiceStops
<1>3. \A c \in Calls : IsCall(call'[c]) /\ (call'[c] = call[c] \/ call'[c].mine = NoCopy)
  BY <1>1, <1>2, EndedCall DEF CallsSound
<1>4. (TypeOK /\ StepsAgree /\ CopiesAreSound)'
  BY <1>1, <1>2, <1>3, CallsAreSound DEF CallsSound
<1>5. CartsAreOwn'
  BY <1>2, <1>3 DEF CartsAreOwn
<1>6. RowsBelong'
  BY <1>2, <1>3 DEF RowsBelong
<1>7. QuantityWithinStock'
  BY <1>2 DEF QuantityWithinStock
<1>8. QED BY <1>4, <1>5, <1>6, <1>7

LEMMA FailCallInv ==
  ASSUME CartInv, NEW c \in Calls, FailCall(c)
  PROVE  CartInv'
  BY EndInv DEF FailCall

LEMMA CartStep == CartInv /\ [Next]_vars => CartInv'
<1> SUFFICES ASSUME CartInv, [Next]_vars PROVE CartInv'
  OBVIOUS
<1>1. CASE UNCHANGED vars
  BY <1>1 DEF vars, CartInv, TypeOK, StepsAgree, CopiesAreSound, CartsAreOwn, RowsBelong,
              QuantityWithinStock
<1>2. CASE CartServiceStops
  BY <1>2, StopsInv
<1>3. CASE \E c \in Calls : \E r \in Requests : Receive(c, r)
  BY <1>3, ReceiveInv
<1>4. CASE \E c \in Calls : Handle(c)
  BY <1>4, FindItemInv, CheckProductInv, ReadCartInv, CreateCartInv, SaveLooksInv,
     SaveWritesInv, DeleteItemInv, ClearCartInv, FailCallInv DEF Handle
<1>5. QED BY <1>1, <1>2, <1>3, <1>4 DEF Next

(***************************************************************************)
(* Every user has a cart of their own, every row and every copy of a row   *)
(* is of the cart it was made for, and a copy never holds more than the    *)
(* Product Service said there is.                                          *)
(***************************************************************************)
THEOREM CartSafety == Spec => []CartInv
<1>1. QED BY CartInit, CartStep, PTL DEF Spec

(***************************************************************************)
(* No line of a cart asks for more than the stock of its product, however  *)
(* late the save of a copy is.                                             *)
(***************************************************************************)
THEOREM CartQuantities == Spec => []QuantityWithinStock
<1>1. CartInv => QuantityWithinStock
  BY DEF CartInv
<1>2. QED BY <1>1, CartSafety, PTL

-------------------------------------------------------------------------------
LEMMA SameLines ==
  ASSUME NEW v \in Users, cart'[v] = cart[v],
         \A i : i \in DOMAIN items' /\ items'[i].cart = cart[v]
                 <=> i \in DOMAIN items /\ items[i].cart = cart[v],
         \A i \in DOMAIN items : items[i].cart = cart[v] => items'[i] = items[i]
  PROVE  LinesOf(cart[v])' = LinesOf(cart[v])
<1>1. {i \in DOMAIN items' : items'[i].cart = cart'[v]} = {i \in DOMAIN items : items[i].cart = cart[v]}
  OBVIOUS
<1>2. QED BY <1>1 DEF LinesOf, Restrict

(* A step of one user's call leaves the other users' lines as they are.    *)
LEMMA OthersKeepTheirLines ==
  ASSUME CartInv, NEW c \in Calls, Handle(c), NEW v \in Users, v # User(c)
  PROVE  LinesOf(cart[v])' = LinesOf(cart[v])
<1>0. /\ cart \in [Users -> CartIds \cup {NoCart}] /\ items \in [DOMAIN items -> Rows]
      /\ IsCall(call[c])
      /\ \A i \in DOMAIN items : items[i].cart # NoCart
  BY CallsAreSound DEF CartInv, CallsSound, TypeOK, Rows
<1>1. CASE UNCHANGED <<cart, items>>
  BY <1>1, SameLines
<1>2. CASE CreateCart(c)
  <2>1. cart'[v] = cart[v] /\ items' = items
    BY <1>0, <1>2 DEF CreateCart
  <2>2. QED BY <2>1, SameLines
<1>3. CASE SaveWrites(c) /\ ~Violates(c)
  <2> DEFINE k == call[c].mine.cart
             mine == call[c].mine.lines
             seen == call[c].seen.lines
             Written(i) ==
               i \in Inserted(c) \/ (i \in DOMAIN mine \cap DOMAIN seen /\ mine[i] # seen[i])
  <2>1. cart'[v] = cart[v]
    BY <1>0, <1>3 DEF SaveWrites
  <2>2. items' = [i \in DOMAIN items \cup Inserted(c) |-> IF Written(i) THEN mine[i] ELSE items[i]]
    BY <1>3 DEF SaveWrites
  <2>3. k # NoCart /\ k # cart[v]
    BY <1>0, <1>3 DEF SaveWrites, IsCall, CartInv, CartsAreOwn
  <2>4. \A i : Written(i) => i \in DOMAIN mine /\ mine[i].cart = k
    BY <1>0 DEF Inserted, IsCall
  <2>5. \A i \in DOMAIN items : i \in DOMAIN mine => items[i].cart = k
    BY DEF CartInv, RowsBelong
  <2>6. DOMAIN items' = DOMAIN items \cup Inserted(c)
        /\ \A i \in DOMAIN items' : items'[i] = IF Written(i) THEN mine[i] ELSE items[i]
    BY <2>2
  <2>7. \A i \in Inserted(c) : Written(i)
    OBVIOUS
  <2> HIDE DEF Written, mine, seen, k
  <2>8. \A i : i \in DOMAIN items' /\ items'[i].cart = cart[v]
                <=> i \in DOMAIN items /\ items[i].cart = cart[v]
    BY <2>3, <2>4, <2>5, <2>6, <2>7
  <2>9. \A i \in DOMAIN items : items[i].cart = cart[v] => items'[i] = items[i]
    BY <2>3, <2>4, <2>5, <2>6
  <2>10. QED BY <2>1, <2>8, <2>9, SameLines
<1>4. CASE DeleteItem(c)
  <2> DEFINE id == call[c].req.id
  <2>1. items' = Restrict(items, DOMAIN items \ {id}) /\ cart' = cart
    BY <1>4 DEF DeleteItem
  <2>2. call[c].mine.cart # NoCart /\ Copied(c, id)
    BY <1>0, <1>4 DEF DeleteItem, IsCall
  <2>3. id \in DOMAIN items => items[id].cart # cart[v]
    BY <2>2 DEF CartInv, CartsAreOwn, RowsBelong
  <2> HIDE DEF id
  <2>4. DOMAIN items' = DOMAIN items \ {id} /\ \A i \in DOMAIN items' : items'[i] = items[i]
    BY <2>1 DEF Restrict
  <2>5. QED BY <2>1, <2>3, <2>4, SameLines
<1>5. CASE ClearCart(c)
  <2> DEFINE kept == {i \in DOMAIN items : items[i].cart # cart[User(c)]}
  <2>1. User(c) \in Users
    BY <1>5, RunningCall DEF ClearCart
  <2>2. cart'[v] = cart[v] /\ items' = Restrict(items, kept)
    BY <1>0, <1>5 DEF ClearCart
  <2>3. DOMAIN items' = kept /\ \A i \in DOMAIN items' : items'[i] = items[i]
    BY <2>2 DEF Restrict
  <2>4. \A i \in DOMAIN items : items[i].cart = cart[v] => i \in kept
    BY <1>0, <2>1 DEF CartInv, CartsAreOwn
  <2> HIDE DEF kept
  <2>5. kept \subseteq DOMAIN items
    BY DEF kept
  <2>6. QED BY <2>2, <2>3, <2>4, <2>5, SameLines
<1>6. QED
  BY <1>1, <1>2, <1>3, <1>4, <1>5
     DEF Handle, FindItem, CheckProduct, ReadCart, SaveLooks, SaveWrites, FailCall

(* What a call does to the tables, it does on its way: it moves on.        *)
LEMMA CallsMoveOn ==
  ASSUME CartInv, NEW c \in Calls, Handle(c), ~UNCHANGED <<cart, items>>
  PROVE  Running(c) /\ call'[c].at # call[c].at
<1>1. DOMAIN call = Calls /\ IsCall(call[c])
  BY CallsAreSound DEF CartInv, CallsSound
<1>2. \A a \in Ends : End(c, a) => call'[c].at = a
  BY <1>1 DEF End
<1>3. CASE DeleteItem(c)
  BY <1>1, <1>3 DEF DeleteItem
<1>4. CASE ClearCart(c)
  BY <1>2, <1>4 DEF ClearCart
<1>5. CASE SaveWrites(c)
  <2>1. call' = [call EXCEPT ![c] = [@ EXCEPT !.at = "show", !.mine = NoCopy, !.seen = NoCopy]]
    BY <1>5 DEF SaveWrites
  <2>2. call[c] = [at |-> call[c].at, req |-> call[c].req, mine |-> call[c].mine,
                   seen |-> call[c].seen]
    BY <1>1 DEF IsCall
  <2>3. call'[c].at = "show"
    BY <1>1, <2>1, <2>2, AtMineAndSeen
  <2>4. QED BY <1>5, <2>3 DEF SaveWrites
<1>6. CASE CreateCart(c)
  <2>1. End(c, "ok") \/ \E k : Merge(c, k, NoLines)
    BY <1>6 DEF CreateCart
  <2>2. CASE End(c, "ok")
    BY <1>2, <1>6, <2>2 DEF CreateCart
  <2>3. CASE \E k : Merge(c, k, NoLines)
    <3>1. PICK k, m : End(c, "rejected")
                      \/ call' = [call EXCEPT ![c].at = "save", ![c].mine = [cart |-> k, lines |-> m]]
      BY <2>3 DEF Merge
    <3>2. call[c] = [at |-> call[c].at, req |-> call[c].req, mine |-> call[c].mine,
                     seen |-> call[c].seen]
      BY <1>1 DEF IsCall
    <3>3. CASE End(c, "rejected")
      BY <1>2, <1>6, <3>3 DEF CreateCart
    <3>4. CASE call' = [call EXCEPT ![c].at = "save", ![c].mine = [cart |-> k, lines |-> m]]
      <4>1. PICK copy : copy = [cart |-> k, lines |-> m]
        OBVIOUS
      <4>2. call'[c].at = "save"
        BY <1>1, <3>4, <3>2, <4>1, AtAndMine
      <4>3. QED BY <1>6, <4>2 DEF CreateCart
    <3>5. QED BY <3>1, <3>3, <3>4
  <2>4. QED BY <2>1, <2>2, <2>3
<1>7. QED
  BY <1>3, <1>4, <1>5, <1>6 DEF Handle, FindItem, CheckProduct, ReadCart, SaveLooks, FailCall

(***************************************************************************)
(* Nobody's lines change but by a step of a call of theirs, also when a    *)
(* late save brings back a cart that was cleared.                          *)
(***************************************************************************)
THEOREM CartsArePrivate == Spec => OwnCartOnly
<1> DEFINE Own == \A u \in Users :
             LinesOf(cart[u])' # LinesOf(cart[u]) =>
               \E c \in Calls : Running(c) /\ User(c) = u /\ call'[c] # call[c]
<1>1. CartInv /\ [Next]_vars => [Own]_vars
  <2> SUFFICES ASSUME CartInv, Next PROVE Own
    OBVIOUS
  <2>1. CASE UNCHANGED <<cart, items>>
    BY <2>1 DEF LinesOf
  <2>2. CASE ~UNCHANGED <<cart, items>>
    <3>1. PICK c \in Calls : Handle(c)
      BY <2>2 DEF Next, Receive, CartServiceStops
    <3>2. Running(c) /\ call'[c] # call[c]
      BY <2>2, <3>1, CallsMoveOn
    <3>3. \A v \in Users : v # User(c) => LinesOf(cart[v])' = LinesOf(cart[v])
      BY <3>1, OthersKeepTheirLines
    <3>4. QED BY <3>2, <3>3
  <2>3. QED BY <2>1, <2>2
<1>2. QED BY <1>1, CartSafety, PTL DEF Spec, OwnCartOnly

-------------------------------------------------------------------------------
(* One call at a time.  Nobody else writes, so that what the call has      *)
(* copied is what the tables hold until it writes itself.                  *)
Extended(r, k, lines, m) ==
  \/ \E i \in DOMAIN lines :
       lines[i].product = r.product /\ m = [lines EXCEPT ![i].quantity = @ + r.quantity]
  \/ /\ \A i \in DOMAIN lines : lines[i].product # r.product
     /\ \E i \in ItemIds \ DOMAIN items : m = WithLine(lines, i, Row(k, r.product, r.quantity))

AddsToCart(k) ==
  /\ k.mine.cart = cart[k.req.user]
  /\ \E lines : /\ lines = LinesOf(k.mine.cart)
                /\ Extended(k.req, k.mine.cart, lines, k.mine.lines)
                /\ k.at = "write" => k.seen = [cart |-> k.mine.cart, lines |-> lines]

SetsInCart(k) ==
  LET id == k.req.id
  IN  /\ id \in DOMAIN items /\ items[id].cart = cart[k.req.user]
      /\ k.mine.cart = cart[k.req.user]
      /\ k.mine.lines[id] =
           IF k.at = "check" THEN items[id] ELSE [items[id] EXCEPT !.quantity = k.req.quantity]
      /\ k.at = "write" => k.seen = [cart |-> k.mine.cart, lines |-> Restrict(items, {id})]

UpToDate ==
  \A c \in Calls :
    /\ call[c].at \in {"save", "write"} /\ call[c].req.op = "add" => AddsToCart(call[c])
    /\ call[c].at \in {"check", "save", "write"} /\ call[c].req.op = "set" =>
         SetsInCart(call[c])

-------------------------------------------------------------------------------
(* What CartContents sees of the tables and of the call.                   *)
AsBasket(b) == [i \in DOMAIN b |-> [product |-> b[i].product, quantity |-> b[i].quantity]]

RowsOf(k) == {i \in DOMAIN items : items[i].cart = k}

LEMMA LinesAre ==
  ASSUME NEW k
  PROVE  /\ DOMAIN LinesOf(k) = RowsOf(k) /\ \A i \in RowsOf(k) : LinesOf(k)[i] = items[i]
         /\ LinesOf(k) = [i \in RowsOf(k) |-> items[i]]
  BY DEF LinesOf, Restrict, RowsOf

LEMMA BasketIs ==
  ASSUME NEW u
  PROVE  /\ Basket(u) = AsBasket(LinesOf(cart[u]))
         /\ Basket(u)' = AsBasket([i \in RowsOf(cart[u])' |-> items'[i]])
<1>1. Basket(u) = AsBasket(LinesOf(cart[u]))
  BY DEF Basket, AsBasket
<1>2. LinesOf(cart[u])' = [i \in RowsOf(cart[u])' |-> items'[i]]
  BY DEF LinesOf, Restrict, RowsOf
<1>3. Basket(u)' = AsBasket(LinesOf(cart[u])')
  BY DEF Basket, AsBasket
<1>4. QED BY <1>1, <1>2, <1>3

LEMMA UntouchedBasket ==
  ASSUME NEW u, LinesOf(cart[u])' = LinesOf(cart[u])
  PROVE  Basket(u)' = Basket(u)
  BY DEF Basket

(* One step of the call, as CartContents has it.                           *)
SameBaskets == \A u \in Users : Basket(u)' = Basket(u)

LEMMA AskMaps ==
  ASSUME NEW c, Calls = {c}, SameBaskets, NEW r \in Requests,
         Asked(c) \in Contents!Ended, Asked(c)' = [at |-> "asked", req |-> r]
  PROVE  Contents!Next
  BY DEF SameBaskets, Contents!Next, Contents!Ask

LEMMA RefuseMaps ==
  ASSUME NEW c, Calls = {c}, SameBaskets,
         Asked(c).at = "asked", Asked(c)' = [at |-> "failed"]
  PROVE  Contents!Next
  BY DEF SameBaskets, Contents!Next, Contents!Refuse, Contents!End

LEMMA AnswerMaps ==
  ASSUME NEW c, Calls = {c}, SameBaskets,
         Asked(c).at = "done", Asked(c)' \in {[at |-> "ok"], [at |-> "failed"]}
  PROVE  Contents!Next
  BY DEF SameBaskets, Contents!Next, Contents!Answer, Contents!End

LEMMA StutterMaps ==
  ASSUME NEW c, Calls = {c}, SameBaskets, Asked(c)' = Asked(c)
  PROVE  UNCHANGED Contents!vars
  BY DEF SameBaskets, Contents!vars

LEMMA ActMaps ==
  ASSUME NEW c, Calls = {c}, NEW r, Asked(c) = [at |-> "asked", req |-> r], r.user \in Users,
         Basket(r.user)' \in Contents!Outcomes(r, Basket(r.user)),
         Contents!InStock(Basket(r.user)'),
         \A v \in Users \ {r.user} : Basket(v)' = Basket(v),
         Asked(c)' \in {[at |-> "done", req |-> r], [at |-> "ok"]}
  PROVE  Contents!Next
<1>1. PICK b : b = Basket(r.user)'
  OBVIOUS
<1>2. [u \in Users |-> Basket(u)]' = [[u \in Users |-> Basket(u)] EXCEPT ![r.user] = b]
  BY <1>1
<1>3. \/ [d \in Calls |-> Asked(d)]' = [[d \in Calls |-> Asked(d)] EXCEPT ![c].at = "done"]
      \/ [d \in Calls |-> Asked(d)]' = [[d \in Calls |-> Asked(d)] EXCEPT ![c] = [at |-> "ok"]]
  <2>1. PICK f : f = [d \in Calls |-> Asked(d)]
    OBVIOUS
  <2>2. DOMAIN f = {c} /\ f = [d \in {c} |-> [at |-> "asked", req |-> r]]
    BY <2>1
  <2>3. CASE Asked(c)' = [at |-> "done", req |-> r]
    <3>1. [d \in Calls |-> Asked(d)]' = [d \in {c} |-> [at |-> "done", req |-> r]]
      BY <2>3
    <3>2. [f EXCEPT ![c].at = "done"] = [d \in {c} |-> [at |-> "done", req |-> r]]
      BY <2>2
    <3>3. QED BY <2>1, <3>1, <3>2
  <2>4. CASE Asked(c)' = [at |-> "ok"]
    <3>1. [d \in Calls |-> Asked(d)]' = [d \in {c} |-> [at |-> "ok"]]
      BY <2>4
    <3>2. [f EXCEPT ![c] = [at |-> "ok"]] = [d \in {c} |-> [at |-> "ok"]]
      BY <2>2
    <3>3. QED BY <2>1, <3>1, <3>2
  <2>5. QED BY <2>3, <2>4
<1>4. Contents!Act(c)
  BY <1>1, <1>2, <1>3 DEF Contents!Act, Contents!End
<1>5. QED BY <1>4 DEF Contents!Next

LEMMA SameTables ==
  ASSUME UNCHANGED <<cart, items>>
  PROVE  SameBaskets
  BY DEF SameBaskets, Basket, LinesOf

LEMMA AskedIs ==
  ASSUME NEW c
  PROVE  /\ Running(c) =>
              Asked(c) = [at |-> IF call[c].at \in {"show", "open"} /\ call[c].req.op # "get"
                                 THEN "done" ELSE "asked",
                          req |-> call[c].req]
         /\ Running(c)' =>
              Asked(c)' = [at |-> IF call'[c].at \in {"show", "open"} /\ call'[c].req.op # "get"
                                  THEN "done" ELSE "asked",
                           req |-> call'[c].req]
  BY DEF Asked

LEMMA EndedIs ==
  ASSUME CartInv, NEW c, Calls = {c}, NEW a \in {"ok", "rejected", "failed"}, End(c, a)
  PROVE  UpToDate' /\ Asked(c)' = [at |-> IF a = "rejected" THEN "failed" ELSE a]
<1>1. call'[c] = Idle(a)
  BY DEF End, CartInv, TypeOK
<1>2. UpToDate'
  BY <1>1 DEF UpToDate
<1>3. QED BY <1>1, <1>2 DEF Asked

(* A call that ends in an error, after its effect or without one.          *)
LEMMA FailingMaps ==
  ASSUME CartInv, NEW c, Calls = {c}, Running(c), SameBaskets,
         NEW a \in {"rejected", "failed"}, End(c, a)
  PROVE  UpToDate' /\ Contents!Next
<1>1. UpToDate' /\ Asked(c)' = [at |-> "failed"]
  BY EndedIs
<1>2. Asked(c).at \in {"asked", "done"}
  BY AskedIs
<1>3. QED BY <1>1, <1>2, RefuseMaps, AnswerMaps

(* A call that goes on to its next await.                                  *)
LEMMA GoingOnMaps ==
  ASSUME NEW c, Calls = {c}, SameBaskets, Running(c), Running(c)',
         call'[c].req = call[c].req,
         call[c].req.op = "get" \/ (call'[c].at \in {"show", "open"} <=> call[c].at \in {"show", "open"})
  PROVE  UNCHANGED Contents!vars
<1>1. Asked(c)' = Asked(c)
  BY AskedIs
<1>2. QED BY <1>1, StutterMaps

LEMMA CopyStaysUpToDate ==
  ASSUME NEW c, Calls = {c}, UNCHANGED <<cart, items>>, NEW n, call'[c] = n,
         n.at \in {"save", "write"} /\ n.req.op = "add" => AddsToCart(n),
         n.at \in {"check", "save", "write"} /\ n.req.op = "set" => SetsInCart(n)
  PROVE  UpToDate'
<1>1. AddsToCart(n) => AddsToCart(n)'
  <2>1. LinesOf(n.mine.cart)' = LinesOf(n.mine.cart)
    BY DEF LinesOf
  <2>2. ASSUME NEW lines
        PROVE  Extended(n.req, n.mine.cart, lines, n.mine.lines)'
                 <=> Extended(n.req, n.mine.cart, lines, n.mine.lines)
    BY DEF Extended
  <2>3. QED BY <2>1, <2>2 DEF AddsToCart
<1>2. SetsInCart(n) => SetsInCart(n)'
  BY DEF SetsInCart
<1>3. /\ n.at \in {"save", "write"} /\ n.req.op = "add" => AddsToCart(n)'
      /\ n.at \in {"check", "save", "write"} /\ n.req.op = "set" => SetsInCart(n)'
  BY <1>1, <1>2
<1>4. QED BY <1>3 DEF UpToDate

Implements == UpToDate' /\ (Contents!Next \/ UNCHANGED Contents!vars)

LEMMA ReceiveMaps ==
  ASSUME CartInv, NEW c, Calls = {c}, NEW r \in Requests, Receive(c, r)
  PROVE  Implements
<1>1. call'[c] = [at |-> FirstAwait(r.op), req |-> r, mine |-> NoCopy, seen |-> NoCopy]
  BY DEF Receive, CartInv, TypeOK
<1>2. FirstAwait(r.op) \in {"show", "clear", "check", "find"}
      /\ (FirstAwait(r.op) = "check" => r.op = "add")
      /\ (FirstAwait(r.op) = "show" => r.op = "get")
  BY DEF FirstAwait, Requests
<1>3. UpToDate'
  BY <1>1, <1>2 DEF UpToDate
<1>4. Asked(c)' = [at |-> "asked", req |-> r]
  BY <1>1, <1>2, AskedIs
<1>5. Asked(c) \in Contents!Ended
  BY DEF Receive, Asked, Contents!Ended
<1>6. SameBaskets
  BY SameTables DEF Receive
<1>7. QED BY <1>3, <1>4, <1>5, <1>6, AskMaps DEF Implements

LEMMA FindItemMaps ==
  ASSUME CartInv, NEW c, Calls = {c}, FindItem(c)
  PROVE  Implements
<1> DEFINE r == call[c].req
           k == items[r.id].cart
<1>1. /\ DOMAIN call = Calls /\ r.op \in {"set", "remove"}
      /\ call[c] = [at |-> call[c].at, req |-> call[c].req, mine |-> call[c].mine,
                    seen |-> call[c].seen]
  BY RunningCall DEF FindItem, IsCall
<1>2. SameBaskets /\ UNCHANGED <<cart, items>> /\ call[c].at = "find"
  BY SameTables DEF FindItem
<1>3. CASE ~Owned(c, r.id)
  BY <1>2, <1>3, FailingMaps DEF FindItem, Implements
<1>4. CASE Owned(c, r.id)
  <2>1. PICK copy : copy = [cart |-> k, lines |-> Restrict(items, {r.id})]
    OBVIOUS
  <2>2. copy.cart = k /\ copy.lines[r.id] = items[r.id]
    BY <2>1 DEF Restrict
  <2>3. PICK step : step = IF r.op = "set" THEN "check" ELSE "delete"
    OBVIOUS
  <2>4. call' = [call EXCEPT ![c] = [@ EXCEPT !.at = step, !.mine = copy]]
    BY <1>4, <2>1, <2>3 DEF FindItem
  <2>5. PICK n : n = [at |-> step, req |-> r, mine |-> copy, seen |-> call[c].seen]
    OBVIOUS
  <2>6. call'[c] = n
    BY <1>1, <2>4, <2>5
  <2>7. r.op = "set" => SetsInCart(n)
    BY <1>4, <2>2, <2>3, <2>5 DEF SetsInCart, Owned
  <2>8. UpToDate'
    BY <1>1, <1>2, <2>3, <2>5, <2>6, <2>7, CopyStaysUpToDate
  <2>9. UNCHANGED Contents!vars
    BY <1>2, <2>3, <2>5, <2>6, GoingOnMaps
  <2>10. QED BY <2>8, <2>9 DEF Implements
<1>5. QED BY <1>3, <1>4

LEMMA CheckProductMaps ==
  ASSUME CartInv, UpToDate, NEW c, Calls = {c}, CheckProduct(c)
  PROVE  Implements
<1> DEFINE r == call[c].req
           own == call[c].mine
<1>1. /\ DOMAIN call = Calls /\ IsCall(call[c]) /\ r \in Requests
      /\ call[c] = [at |-> call[c].at, req |-> call[c].req, mine |-> call[c].mine,
                    seen |-> call[c].seen]
  BY RunningCall DEF CheckProduct
<1>2. r.op \in {"add", "set"} /\ call[c].at = "check"
  BY <1>1 DEF CheckProduct, IsCall
<1>3. SameBaskets /\ UNCHANGED <<cart, items>>
  BY SameTables DEF CheckProduct
<1>4. PICK p : p = IF r.op = "add" THEN r.product ELSE own.lines[r.id].product
  OBVIOUS
<1>5. CASE r.quantity > Stock[p]
  BY <1>2, <1>3, <1>4, <1>5, FailingMaps DEF CheckProduct, Implements
<1>6. CASE ~(r.quantity > Stock[p]) /\ r.op = "add"
  <2>1. call' = [call EXCEPT ![c].at = "read"]
    BY <1>4, <1>6 DEF CheckProduct, Await
  <2>2. call'[c].at = "read" /\ call'[c].req = r
    BY <1>1, <2>1
  <2>3. UpToDate'
    BY <2>2 DEF UpToDate
  <2>4. UNCHANGED Contents!vars
    BY <1>2, <1>3, <2>2, GoingOnMaps
  <2>5. QED BY <2>3, <2>4 DEF Implements
<1>7. CASE ~(r.quantity > Stock[p]) /\ r.op = "set"
  <2>1. SetsInCart(call[c]) /\ DOMAIN own.lines = {r.id} /\ IsCopy(own)
    BY <1>1, <1>2, <1>7 DEF UpToDate, IsCall
  <2>2. own = [cart |-> own.cart, lines |-> own.lines]
    BY <2>1 DEF IsCopy
  <2>3. call' = [call EXCEPT ![c].at = "save", ![c].mine.lines[r.id].quantity = r.quantity]
    BY <1>4, <1>7 DEF CheckProduct
  <2>4. PICK lines : lines = [own.lines EXCEPT ![r.id].quantity = r.quantity]
    OBVIOUS
  <2>5. PICK n : n = [at |-> "save", req |-> r, mine |-> [cart |-> own.cart, lines |-> lines],
                      seen |-> call[c].seen]
    OBVIOUS
  <2>6. call'[c] = n
    BY <1>1, <2>2, <2>3, <2>4, <2>5, AtAndQuantity
  <2>7. lines[r.id] = [items[r.id] EXCEPT !.quantity = r.quantity]
    <3>1. own.lines[r.id] = items[r.id]
      BY <1>2, <2>1 DEF SetsInCart
    <3>2. lines[r.id] = [own.lines[r.id] EXCEPT !.quantity = r.quantity]
      BY <2>1, <2>4
    <3>3. QED BY <3>1, <3>2
  <2>8. SetsInCart(n)
    BY <2>1, <2>5, <2>7 DEF SetsInCart
  <2>9. UpToDate'
    BY <1>3, <1>7, <2>5, <2>6, <2>8, CopyStaysUpToDate
  <2>10. UNCHANGED Contents!vars
    BY <1>2, <1>3, <2>5, <2>6, GoingOnMaps
  <2>11. QED BY <2>9, <2>10 DEF Implements
<1>8. QED BY <1>2, <1>5, <1>6, <1>7

LEMMA BasketInStock ==
  ASSUME CartInv', NEW u
  PROVE  Contents!InStock(Basket(u)')
<1>1. \A i \in DOMAIN items' :
        items'[i].quantity <= Stock[items'[i].product]
  BY DEF CartInv, QuantityWithinStock, TypeOK, Rows
<1>2. PICK b : b = Basket(u)'
  OBVIOUS
<1>3. b = AsBasket([i \in RowsOf(cart[u])' |-> items'[i]])
  BY <1>2, BasketIs
<1>4. \A i \in DOMAIN b : i \in DOMAIN items' /\ b[i].product = items'[i].product
                                             /\ b[i].quantity = items'[i].quantity
  BY <1>3 DEF AsBasket, RowsOf
<1>5. QED BY <1>1, <1>2, <1>4 DEF Contents!InStock

(* An answer: of a reading that finds the cart as it is, or of a call that *)
(* took effect before.                                                     *)
LEMMA AnsweringMaps ==
  ASSUME CartInv, CartInv', NEW c, Calls = {c}, SameBaskets,
         call[c].at \in {"show", "open"}, End(c, "ok")
  PROVE  Implements
<1> DEFINE r == call[c].req
<1>1. UpToDate' /\ Asked(c)' = [at |-> "ok"]
  BY EndedIs
<1>2. r.user \in Users /\ Running(c)
  BY RunningCall
<1>3. CASE r.op # "get"
  <2>1. Asked(c).at = "done"
    BY <1>2, <1>3, AskedIs
  <2>2. QED BY <1>1, <2>1, AnswerMaps DEF Implements
<1>4. CASE r.op = "get"
  <2>1. Asked(c) = [at |-> "asked", req |-> r]
    BY <1>2, <1>4, AskedIs
  <2>2. PICK q : q = r
    OBVIOUS
  <2>3. Basket(q.user)' \in Contents!Outcomes(q, Basket(q.user))
    BY <1>2, <1>4, <2>2 DEF SameBaskets, Contents!Outcomes
  <2>4. Contents!InStock(Basket(q.user)')
    BY BasketInStock
  <2>5. Contents!Next
    BY <1>1, <1>2, <2>1, <2>2, <2>3, <2>4, ActMaps DEF SameBaskets
  <2>6. QED BY <1>1, <2>5 DEF Implements
<1>5. QED BY <1>3, <1>4

LEMMA MergeMaps ==
  ASSUME CartInv, NEW c, Calls = {c}, call[c].at \in {"read", "create"}, SameBaskets,
         NEW k, NEW lines, Merge(c, k, lines), items' = items, cart'[User(c)] = k,
         LinesOf(k)' = lines
  PROVE  Implements
<1> DEFINE r == call[c].req
<1>1. /\ DOMAIN call = Calls /\ r.op = "add"
      /\ call[c] = [at |-> call[c].at, req |-> call[c].req, mine |-> call[c].mine,
                    seen |-> call[c].seen]
  BY RunningCall DEF IsCall
<1>2. PICK m \in Merged(r, k, lines) :
        \/ End(c, "rejected")
        \/ call' = [call EXCEPT ![c].at = "save", ![c].mine = [cart |-> k, lines |-> m]]
  BY DEF Merge
<1>3. CASE End(c, "rejected")
  BY <1>3, FailingMaps DEF Implements
<1>4. CASE call' = [call EXCEPT ![c].at = "save", ![c].mine = [cart |-> k, lines |-> m]]
  <2>1. PICK copy : copy = [cart |-> k, lines |-> m]
    OBVIOUS
  <2>2. PICK n : n = [at |-> "save", req |-> r, mine |-> copy, seen |-> call[c].seen]
    OBVIOUS
  <2>3. call'[c] = n
    BY <1>1, <1>4, <2>1, <2>2, AtAndMine
  <2>4. n.at = "save" /\ n.req = r /\ n.mine.cart = k /\ n.mine.lines = m
    BY <2>1, <2>2
  <2>5. Extended(r, k, lines, m)
    BY <1>1, <1>2 DEF Merged, Extended, FreshItems
  <2>6. Extended(n.req, n.mine.cart, lines, n.mine.lines)'
    BY <2>4, <2>5 DEF Extended
  <2>7. LinesOf(n.mine.cart)' = lines
    BY <2>4 DEF LinesOf
  <2>8. AddsToCart(n)'
    BY <2>4, <2>6, <2>7 DEF AddsToCart
  <2>9. UpToDate'
    BY <1>1, <2>3, <2>4, <2>8 DEF UpToDate
  <2>10. UNCHANGED Contents!vars
    BY <2>3, <2>4, GoingOnMaps
  <2>11. QED BY <2>9, <2>10 DEF Implements
<1>5. QED BY <1>2, <1>3, <1>4

LEMMA ReadCartMaps ==
  ASSUME CartInv, CartInv', NEW c, Calls = {c}, ReadCart(c)
  PROVE  Implements
<1> DEFINE k == cart[User(c)]
<1>1. /\ DOMAIN call = Calls
      /\ call[c] = [at |-> call[c].at, req |-> call[c].req, mine |-> call[c].mine,
                    seen |-> call[c].seen]
  BY RunningCall DEF ReadCart
<1>2. SameBaskets /\ UNCHANGED <<cart, items>> /\ call[c].at \in {"read", "show"}
  BY SameTables DEF ReadCart
<1>3. CASE k = NoCart
  <2>1. PICK step : /\ step = IF call[c].at = "read" THEN "create" ELSE "open"
                    /\ call' = [call EXCEPT ![c].at = step]
    BY <1>3 DEF ReadCart, Await
  <2>2. call'[c].at = step /\ call'[c].req = call[c].req
    BY <1>1, <2>1
  <2>3. UpToDate'
    BY <2>1, <2>2 DEF UpToDate
  <2>4. UNCHANGED Contents!vars
    BY <1>2, <2>1, <2>2, GoingOnMaps
  <2>5. QED BY <2>3, <2>4 DEF Implements
<1>4. CASE k # NoCart /\ call[c].at = "read"
  <2>1. PICK own, lines : own = k /\ lines = LinesOf(own)
    OBVIOUS
  <2>2. Merge(c, own, lines)
    BY <1>4, <2>1 DEF ReadCart
  <2>3. LinesOf(own)' = lines
    BY <1>2, <2>1 DEF LinesOf
  <2>4. items' = items /\ cart'[User(c)] = own
    BY <1>2, <2>1
  <2>5. QED BY <1>2, <1>4, <2>2, <2>3, <2>4, MergeMaps
<1>5. CASE k # NoCart /\ call[c].at = "show"
  BY <1>2, <1>5, AnsweringMaps DEF ReadCart
<1>6. QED BY <1>2, <1>3, <1>4, <1>5

(* A new cart is as empty as none.                                         *)
LEMMA NewCartIsEmpty ==
  ASSUME CartInv, NEW u \in Users, cart[u] = NoCart, NEW k \in FreshCarts,
         cart' = [cart EXCEPT ![u] = k], items' = items
  PROVE  SameBaskets /\ LinesOf(k)' = NoLines
<1>1. cart \in [Users -> CartIds \cup {NoCart}] /\ items \in [DOMAIN items -> Rows]
  BY DEF CartInv, TypeOK
<1>2. RowsOf(NoCart) = {}
  BY <1>1 DEF RowsOf, Rows
<1>3. RowsOf(k) = {}
  BY DEF RowsOf, FreshCarts, CartInv, RowsBelong
<1>4. LinesOf(k)' = NoLines
  <2>1. LinesOf(k)' = LinesOf(k)
    BY DEF LinesOf
  <2>2. QED BY <1>3, <2>1, LinesAre
<1>5. ASSUME NEW v \in Users
      PROVE  Basket(v)' = Basket(v)
  <2>1. CASE v = u
    <3>1. LinesOf(cart[v])' = NoLines
      BY <1>1, <1>4, <2>1 DEF LinesOf
    <3>2. LinesOf(cart[v]) = NoLines
      <4>1. LinesOf(NoCart) = NoLines
        BY <1>2, LinesAre
      <4>2. QED BY <2>1, <4>1
    <3>3. QED BY <3>1, <3>2, UntouchedBasket
  <2>2. CASE v # u
    <3>1. LinesOf(cart[v])' = LinesOf(cart[v])
      BY <1>1, <2>2 DEF LinesOf
    <3>2. QED BY <3>1, UntouchedBasket
  <2>3. QED BY <2>1, <2>2
<1>6. QED BY <1>4, <1>5 DEF SameBaskets

LEMMA CreateCartMaps ==
  ASSUME CartInv, CartInv', NEW c, Calls = {c}, CreateCart(c)
  PROVE  Implements
<1>1. User(c) \in Users /\ call[c].at \in {"create", "open"} /\ items' = items
      /\ cart \in [Users -> CartIds \cup {NoCart}]
  BY RunningCall DEF CreateCart
<1>2. CASE cart[User(c)] # NoCart
  <2>1. SameBaskets /\ End(c, "failed")
    BY <1>2, SameTables DEF CreateCart
  <2>2. QED BY <1>1, <2>1, FailingMaps DEF Implements
<1>3. CASE cart[User(c)] = NoCart
  <2>1. PICK k \in FreshCarts :
          /\ cart' = [cart EXCEPT ![User(c)] = k]
          /\ IF call[c].at = "create" THEN Merge(c, k, NoLines) ELSE End(c, "ok")
    BY <1>3 DEF CreateCart
  <2>2. PICK u : u = User(c)
    OBVIOUS
  <2>3. SameBaskets /\ LinesOf(k)' = NoLines
    BY <1>1, <1>3, <2>1, <2>2, NewCartIsEmpty
  <2>4. CASE call[c].at = "create"
    <3>1. PICK lines : lines = NoLines
      OBVIOUS
    <3>2. Merge(c, k, lines) /\ LinesOf(k)' = lines /\ cart'[User(c)] = k
      BY <1>1, <2>1, <2>3, <2>4, <3>1
    <3> HIDE DEF NoLines
    <3>3. QED BY <1>1, <2>3, <2>4, <3>2, MergeMaps
  <2>5. CASE call[c].at = "open"
    BY <2>1, <2>3, <2>5, AnsweringMaps
  <2>6. QED BY <1>1, <2>4, <2>5
<1>4. QED BY <1>2, <1>3

LEMMA SaveLooksMaps ==
  ASSUME CartInv, UpToDate, NEW c, Calls = {c}, SaveLooks(c)
  PROVE  Implements
<1> DEFINE r == call[c].req
           own == call[c].mine
<1>1. /\ DOMAIN call = Calls /\ IsCall(call[c]) /\ r \in Requests /\ call[c].at = "save"
      /\ call[c] = [at |-> call[c].at, req |-> call[c].req, mine |-> call[c].mine,
                    seen |-> call[c].seen]
  BY RunningCall DEF SaveLooks
<1>2. r.op \in {"add", "set"} /\ own.cart = cart[r.user]
      /\ (r.op = "add" => AddsToCart(call[c])) /\ (r.op = "set" => SetsInCart(call[c]))
  BY <1>1 DEF UpToDate, AddsToCart, SetsInCart, IsCall
<1>3. SameBaskets /\ UNCHANGED <<cart, items>>
  BY SameTables DEF SaveLooks
<1>4. PICK lines : lines = IF r.op = "add" THEN LinesOf(own.cart)
                           ELSE Restrict(items, DOMAIN own.lines \cap DOMAIN items)
  OBVIOUS
<1>5. r.op = "set" => lines = Restrict(items, {r.id})
  <2>1. r.op = "set" => DOMAIN own.lines \cap DOMAIN items = {r.id}
    BY <1>1, <1>2 DEF SetsInCart, IsCall
  <2>2. QED BY <1>4, <2>1
<1>6. PICK copy : copy = [cart |-> own.cart, lines |-> lines]
  OBVIOUS
<1>7. call' = [call EXCEPT ![c] = [@ EXCEPT !.at = "write", !.seen = copy]]
  BY <1>2, <1>4, <1>6 DEF SaveLooks
<1>8. PICK n : n = [at |-> "write", req |-> r, mine |-> own, seen |-> copy]
  OBVIOUS
<1>9. call'[c] = n
  BY <1>1, <1>7, <1>8, AtAndSeen
<1>10. r.op = "add" => AddsToCart(n)
  BY <1>1, <1>2, <1>4, <1>6, <1>8 DEF AddsToCart
<1>11. r.op = "set" => SetsInCart(n)
  BY <1>1, <1>2, <1>5, <1>6, <1>8 DEF SetsInCart
<1>12. UpToDate'
  BY <1>3, <1>8, <1>9, <1>10, <1>11, CopyStaysUpToDate
<1>13. UNCHANGED Contents!vars
  BY <1>1, <1>3, <1>8, <1>9, GoingOnMaps
<1>14. QED BY <1>12, <1>13 DEF Implements

(* What the save of an addition leaves is an outcome of the request.       *)
LEMMA ExtendedIsAdded ==
  ASSUME NEW r, NEW k, NEW lines, NEW m, Extended(r, k, lines, m),
         \A i \in DOMAIN lines : lines[i] \in Rows, DOMAIN lines \subseteq DOMAIN items
  PROVE  AsBasket(m) \in Contents!Added(r, AsBasket(lines))
<1> DEFINE b == AsBasket(lines)
<1>1. /\ DOMAIN b = DOMAIN lines
      /\ \A i \in DOMAIN lines : b[i] = [product |-> lines[i].product, quantity |-> lines[i].quantity]
  BY DEF AsBasket
<1>2. PICK same : same = {i \in DOMAIN b : b[i].product = r.product}
  OBVIOUS
<1>3. ASSUME NEW i \in DOMAIN lines, lines[i].product = r.product,
             m = [lines EXCEPT ![i].quantity = @ + r.quantity]
      PROVE  AsBasket(m) \in Contents!Added(r, b)
  <2>1. i \in same
    BY <1>1, <1>2, <1>3
  <2>2. /\ DOMAIN m = DOMAIN lines /\ \A j \in DOMAIN lines \ {i} : m[j] = lines[j]
        /\ m[i].product = lines[i].product /\ m[i].quantity = lines[i].quantity + r.quantity
    BY <1>3 DEF Rows
  <2>3. PICK n : n = [b EXCEPT ![i].quantity = @ + r.quantity]
    OBVIOUS
  <2>4. /\ DOMAIN n = DOMAIN lines /\ \A j \in DOMAIN lines \ {i} : n[j] = b[j]
        /\ n[i] = [product |-> lines[i].product, quantity |-> lines[i].quantity + r.quantity]
    BY <1>1, <2>3
  <2>5. n = [j \in DOMAIN lines |-> n[j]]
    BY <1>1, <2>3
  <2>6. AsBasket(m) = n
    BY <1>1, <2>2, <2>4, <2>5 DEF AsBasket
  <2>7. QED BY <1>2, <2>1, <2>3, <2>6 DEF Contents!Added
<1>4. ASSUME \A i \in DOMAIN lines : lines[i].product # r.product,
             NEW i \in ItemIds \ DOMAIN items,
             m = WithLine(lines, i, Row(k, r.product, r.quantity))
      PROVE  AsBasket(m) \in Contents!Added(r, b)
  <2>1. same = {}
    BY <1>1, <1>2, <1>4
  <2>2. AsBasket(m) = Contents!WithLine(b, i, Contents!Line(r))
    BY <1>1, <1>4 DEF AsBasket, WithLine, Row, Contents!WithLine, Contents!Line
  <2>3. i \in ItemIds \ DOMAIN b
    BY <1>1, <1>4
  <2>4. QED BY <1>2, <2>1, <2>2, <2>3 DEF Contents!Added
<1>5. QED BY <1>3, <1>4 DEF Extended

(* A save with nobody in between writes what the call has, and nothing     *)
(* else of the cart.                                                       *)
LEMMA SavedCart ==
  ASSUME CartInv, UpToDate, NEW c \in Calls, SaveWrites(c), ~Violates(c)
  PROVE  LET own == call[c].mine
         IN  /\ cart' = cart /\ own.cart = cart[User(c)]
             /\ call[c].req.op = "add" =>
                  /\ {i \in DOMAIN items' : items'[i].cart = own.cart} = DOMAIN own.lines
                  /\ \A i \in DOMAIN own.lines : items'[i] = own.lines[i]
             /\ call[c].req.op = "set" =>
                  items' = [items EXCEPT ![call[c].req.id] = own.lines[call[c].req.id]]
<1> DEFINE r == call[c].req
           k == call[c].mine.cart
           mine == call[c].mine.lines
           seen == call[c].seen.lines
           Written(i) == i \in Inserted(c) \/ (i \in DOMAIN mine \cap DOMAIN seen /\ mine[i] # seen[i])
<1>1. IsCall(call[c]) /\ call[c].at = "write" /\ items \in [DOMAIN items -> Rows]
  BY CallsAreSound DEF SaveWrites, CartInv, CallsSound
<1>2. /\ r.op \in {"add", "set"} /\ k # NoCart /\ k = cart[User(c)]
      /\ (r.op = "add" => AddsToCart(call[c])) /\ (r.op = "set" => SetsInCart(call[c]))
  BY <1>1 DEF UpToDate, AddsToCart, SetsInCart, IsCall
<1>3. r.op = "add" => /\ call[c].seen = [cart |-> k, lines |-> LinesOf(k)]
                      /\ seen = LinesOf(k) /\ Extended(r, k, seen, mine)
  <2> SUFFICES ASSUME r.op = "add"
               PROVE  /\ call[c].seen = [cart |-> k, lines |-> LinesOf(k)]
                      /\ seen = LinesOf(k) /\ Extended(r, k, seen, mine)
    OBVIOUS
  <2> HIDE DEF NoCopy, Idle, Copies, NoLines, Awaits, Ends, Copied
  <2>1. PICK lines : /\ lines = LinesOf(k) /\ Extended(r, k, lines, mine)
                     /\ call[c].seen = [cart |-> k, lines |-> lines]
    BY <1>1, <1>2 DEF AddsToCart
  <2>2. seen = lines
    BY <2>1
  <2>3. QED BY <2>1, <2>2
<1>4. ~InsertsCart(c)
  BY <1>2, <1>3 DEF InsertsCart
<1>5. cart' = cart /\ items' = [i \in DOMAIN items \cup Inserted(c) |->
                                  IF Written(i) THEN mine[i] ELSE items[i]]
  BY <1>4 DEF SaveWrites
<1>6. CASE r.op = "add"
  <2>1. seen = LinesOf(k) /\ Extended(r, k, seen, mine)
    BY <1>3, <1>6
  <2>2. DOMAIN seen = RowsOf(k) /\ \A i \in RowsOf(k) : seen[i] = items[i]
    BY <2>1, LinesAre
  <2>3. DOMAIN seen \subseteq DOMAIN mine
    BY <2>1 DEF Extended, WithLine
  <2>4. \A i \in DOMAIN mine : mine[i].cart = k
    BY <1>1 DEF IsCall
  <2>5. DOMAIN items' = DOMAIN items \cup DOMAIN mine
        /\ \A i \in DOMAIN items' : items'[i] = IF Written(i) THEN mine[i] ELSE items[i]
    BY <1>5, <2>2, <2>3 DEF Inserted, RowsOf
  <2>6. \A i \in DOMAIN mine : items'[i] = mine[i]
    BY <2>2, <2>5 DEF Inserted
  <2>7. \A i \in DOMAIN items \ DOMAIN mine : items'[i] = items[i] /\ items[i].cart # k
    BY <2>2, <2>3, <2>5 DEF Inserted, RowsOf
  <2> HIDE DEF mine, seen, k, Written
  <2>8. {i \in DOMAIN items' : items'[i].cart = k} = DOMAIN mine
    <3>1. \A i : i \in DOMAIN items' /\ items'[i].cart = k <=> i \in DOMAIN mine
      BY <2>4, <2>5, <2>6, <2>7
    <3>2. QED BY <3>1
  <2>9. QED BY <1>2, <1>5, <1>6, <2>6, <2>8 DEF mine, k
<1>7. CASE r.op = "set"
  <2>1. /\ DOMAIN mine = {r.id} /\ r.id \in DOMAIN items
        /\ seen = Restrict(items, {r.id})
    <3>1. SetsInCart(call[c])
      BY <1>2, <1>7
    <3>2. r.id \in DOMAIN items
      BY <3>1 DEF SetsInCart
    <3>3. call[c].seen = [cart |-> k, lines |-> Restrict(items, {r.id})]
      BY <1>1, <3>1 DEF SetsInCart
    <3>4. DOMAIN mine = {r.id}
      BY <1>1, <1>7 DEF IsCall
    <3>5. QED BY <3>2, <3>3, <3>4
  <2>2. DOMAIN seen = {r.id} /\ seen[r.id] = items[r.id]
    BY <2>1 DEF Restrict
  <2>3. Inserted(c) = {}
    BY <2>1, <2>2 DEF Inserted
  <2>4. DOMAIN items' = DOMAIN items
        /\ \A i \in DOMAIN items : items'[i] = IF i = r.id THEN mine[r.id] ELSE items[i]
    BY <1>5, <2>1, <2>2, <2>3
  <2>5. items' = [i \in DOMAIN items |-> items'[i]]
    BY <1>5, <2>3
  <2>6. items' = [items EXCEPT ![r.id] = mine[r.id]]
    BY <1>1, <2>1, <2>4, <2>5
  <2>7. QED BY <1>2, <1>5, <1>7, <2>6
<1>8. QED BY <1>2, <1>6, <1>7

LEMMA SaveWritesMaps ==
  ASSUME CartInv, CartInv', UpToDate, NEW c, Calls = {c}, SaveWrites(c)
  PROVE  Implements
<1> DEFINE k == call[c].mine.cart
           mine == call[c].mine.lines
<1>1. PICK r : r = call[c].req
  OBVIOUS
<1>2. /\ DOMAIN call = Calls /\ IsCall(call[c]) /\ r.user \in Users /\ call[c].at = "write"
      /\ call[c] = [at |-> call[c].at, req |-> call[c].req, mine |-> call[c].mine,
                    seen |-> call[c].seen]
  BY <1>1, RunningCall DEF SaveWrites
<1>3. CASE Violates(c)
  <2>1. SameBaskets /\ End(c, "failed")
    BY <1>3, SameTables DEF SaveWrites
  <2>2. QED BY <1>2, <2>1, FailingMaps DEF Implements
<1>4. CASE ~Violates(c)
  <2>1. r.op \in {"add", "set"} /\ k = cart[r.user] /\ cart' = cart
    BY <1>1, <1>2, <1>4, SavedCart DEF IsCall
  <2>2. call' = [call EXCEPT ![c] = [@ EXCEPT !.at = "show", !.mine = NoCopy, !.seen = NoCopy]]
    BY <1>4 DEF SaveWrites
  <2>3. PICK n : n = [at |-> "show", req |-> r, mine |-> NoCopy, seen |-> NoCopy]
    OBVIOUS
  <2>4. call'[c] = n
    BY <1>1, <1>2, <2>2, <2>3, AtMineAndSeen
  <2>5. UpToDate'
    BY <2>3, <2>4 DEF UpToDate
  <2>6. Asked(c) = [at |-> "asked", req |-> r]
    BY <1>1, <1>2, AskedIs
  <2>7. Asked(c)' = [at |-> "done", req |-> r]
    BY <2>1, <2>3, <2>4, AskedIs
  <2>8. \A v \in Users \ {r.user} : Basket(v)' = Basket(v)
    <3> SUFFICES ASSUME NEW v \in Users, v # r.user PROVE Basket(v)' = Basket(v)
      OBVIOUS
    <3>1. LinesOf(cart[v])' = LinesOf(cart[v])
      BY <1>1, OthersKeepTheirLines DEF Handle
    <3>2. QED BY <3>1, UntouchedBasket
  <2>9. PICK lines : lines = LinesOf(k)
    OBVIOUS
  <2>10. Basket(r.user) = AsBasket(lines)
    BY <2>1, <2>9, BasketIs
  <2>11. DOMAIN lines = RowsOf(k) /\ \A i \in RowsOf(k) : lines[i] = items[i]
    BY <2>9, LinesAre
  <2>12. PICK rows : rows = {i \in DOMAIN items' : items'[i].cart = k}
    OBVIOUS
  <2>13. Basket(r.user)' = AsBasket([i \in rows |-> items'[i]])
    <3>1. RowsOf(cart[r.user])' = rows
      BY <2>1, <2>12 DEF RowsOf
    <3>2. QED BY <3>1, BasketIs
  <2>14. items \in [DOMAIN items -> Rows]
    BY DEF CartInv, TypeOK
  <2>15. Basket(r.user)' \in Contents!Outcomes(r, Basket(r.user))
    <3>1. CASE r.op = "add"
      <4>1. rows = DOMAIN mine /\ \A i \in DOMAIN mine : items'[i] = mine[i]
        BY <1>1, <1>2, <1>4, <2>12, <3>1, SavedCart
      <4>2. mine = [i \in DOMAIN mine |-> mine[i]]
        BY <1>2 DEF IsCall, IsCopy
      <4>3. Basket(r.user)' = AsBasket(mine)
        BY <2>13, <4>1, <4>2
      <4>4. Extended(r, k, lines, mine)
        BY <1>1, <1>2, <2>9, <3>1 DEF UpToDate, AddsToCart
      <4>5. AsBasket(mine) \in Contents!Added(r, AsBasket(lines))
        <5>1. \A i \in DOMAIN lines : lines[i] \in Rows
          BY <2>11, <2>14 DEF RowsOf
        <5>2. DOMAIN lines \subseteq DOMAIN items
          BY <2>11 DEF RowsOf
        <5>3. QED BY <4>4, <5>1, <5>2, ExtendedIsAdded
      <4>6. QED BY <2>10, <3>1, <4>3, <4>5 DEF Contents!Outcomes
    <3>2. CASE r.op = "set"
      <4>1. items' = [items EXCEPT ![r.id] = mine[r.id]]
        BY <1>1, <1>2, <1>4, <3>2, SavedCart
      <4>2. /\ r.id \in DOMAIN items /\ items[r.id].cart = k
            /\ mine[r.id] = [items[r.id] EXCEPT !.quantity = r.quantity]
        BY <1>1, <1>2, <2>1, <3>2 DEF UpToDate, SetsInCart
      <4>3. /\ mine[r.id].cart = items[r.id].cart /\ mine[r.id].product = items[r.id].product
            /\ mine[r.id].quantity = r.quantity
        BY <2>14, <4>2 DEF Rows
      <4>4. rows = RowsOf(k) /\ r.id \in rows
        BY <2>12, <2>14, <4>1, <4>2, <4>3 DEF RowsOf
      <4>5. AsBasket([i \in rows |-> items'[i]])
              = [AsBasket(lines) EXCEPT ![r.id].quantity = r.quantity]
        BY <2>11, <2>14, <4>1, <4>2, <4>3, <4>4 DEF AsBasket, RowsOf
      <4>6. r.id \in DOMAIN AsBasket(lines)
        BY <2>11, <4>4 DEF AsBasket
      <4>7. QED BY <2>10, <2>13, <3>2, <4>5, <4>6 DEF Contents!Outcomes
    <3>3. QED BY <2>1, <3>1, <3>2
  <2>16. Contents!InStock(Basket(r.user)')
    BY BasketInStock
  <2>17. Contents!Next
    BY <1>2, <2>6, <2>7, <2>8, <2>15, <2>16, ActMaps
  <2>18. QED BY <2>5, <2>17 DEF Implements
<1>5. QED BY <1>3, <1>4

LEMMA DeleteItemMaps ==
  ASSUME CartInv, CartInv', NEW c, Calls = {c}, DeleteItem(c)
  PROVE  Implements
<1>1. PICK r : r = call[c].req
  OBVIOUS
<1>2. /\ DOMAIN call = Calls /\ r.user \in Users /\ call[c].at = "delete" /\ r.op = "remove"
      /\ call[c] = [at |-> call[c].at, req |-> call[c].req, mine |-> call[c].mine,
                    seen |-> call[c].seen]
  BY <1>1, RunningCall DEF DeleteItem, IsCall
<1>3. PICK n : n = [at |-> "show", req |-> r, mine |-> NoCopy, seen |-> call[c].seen]
  OBVIOUS
<1>4. call'[c] = n
  BY <1>1, <1>2, <1>3 DEF DeleteItem
<1>5. UpToDate'
  BY <1>3, <1>4 DEF UpToDate
<1>6. Asked(c) = [at |-> "asked", req |-> r] /\ Asked(c)' = [at |-> "done", req |-> r]
  BY <1>1, <1>2, <1>3, <1>4, AskedIs
<1>7. \A v \in Users \ {r.user} : Basket(v)' = Basket(v)
  <2> SUFFICES ASSUME NEW v \in Users, v # r.user PROVE Basket(v)' = Basket(v)
    OBVIOUS
  <2>1. LinesOf(cart[v])' = LinesOf(cart[v])
    BY <1>1, OthersKeepTheirLines DEF Handle
  <2>2. QED BY <2>1, UntouchedBasket
<1>8. PICK rows, left : /\ rows = RowsOf(cart[r.user]) /\ left = rows \ {r.id}
  OBVIOUS
<1>9. items' = Restrict(items, DOMAIN items \ {r.id}) /\ cart' = cart
  BY <1>1 DEF DeleteItem
<1>10. RowsOf(cart[r.user])' = left /\ \A i \in left : items'[i] = items[i]
  BY <1>8, <1>9 DEF RowsOf, Restrict
<1>11. Basket(r.user) = AsBasket([i \in rows |-> items[i]])
  BY <1>8, BasketIs, LinesAre
<1>12. Basket(r.user)' = AsBasket([i \in left |-> items[i]])
  BY <1>10, BasketIs
<1>13. AsBasket([i \in left |-> items[i]])
         = Restrict(AsBasket([i \in rows |-> items[i]]),
                    DOMAIN AsBasket([i \in rows |-> items[i]]) \ {r.id})
  BY <1>8 DEF AsBasket, Restrict
<1>14. Basket(r.user)' \in Contents!Outcomes(r, Basket(r.user))
  <2>1. Basket(r.user)' = Contents!Restrict(Basket(r.user), DOMAIN Basket(r.user) \ {r.id})
    BY <1>11, <1>12, <1>13 DEF Restrict, Contents!Restrict
  <2>2. QED BY <1>2, <2>1 DEF Contents!Outcomes
<1>15. Contents!InStock(Basket(r.user)')
  BY BasketInStock
<1>16. Contents!Next
  BY <1>2, <1>6, <1>7, <1>14, <1>15, ActMaps
<1>17. QED BY <1>5, <1>16 DEF Implements

LEMMA ClearCartMaps ==
  ASSUME CartInv, CartInv', NEW c, Calls = {c}, ClearCart(c)
  PROVE  Implements
<1>1. PICK r : r = call[c].req
  OBVIOUS
<1>2. /\ r.user \in Users /\ call[c].at = "clear"
      /\ cart \in [Users -> CartIds \cup {NoCart}] /\ items \in [DOMAIN items -> Rows]
  BY <1>1, RunningCall DEF ClearCart, CartInv, TypeOK
<1>3. UpToDate' /\ Asked(c)' = [at |-> "ok"]
  BY EndedIs DEF ClearCart
<1>4. Asked(c) = [at |-> "asked", req |-> r]
  BY <1>1, <1>2, AskedIs
<1>5. r.op = "clear"
  BY <1>1, <1>2 DEF CartInv, StepsAgree
<1>6. \A v \in Users \ {r.user} : Basket(v)' = Basket(v)
  <2> SUFFICES ASSUME NEW v \in Users, v # r.user PROVE Basket(v)' = Basket(v)
    OBVIOUS
  <2>1. LinesOf(cart[v])' = LinesOf(cart[v])
    BY <1>1, OthersKeepTheirLines DEF Handle
  <2>2. QED BY <2>1, UntouchedBasket
<1>7. RowsOf(cart[r.user])' = {}
  <2>1. cart'[r.user] = NoCart
    BY <1>1, <1>2 DEF ClearCart
  <2>2. \A i \in DOMAIN items' : i \in DOMAIN items /\ items'[i] = items[i]
    BY DEF ClearCart, Restrict
  <2>3. QED BY <1>2, <2>1, <2>2 DEF RowsOf, Rows
<1>8. Basket(r.user)' = Contents!NoLines
  <2>1. Basket(r.user)' = AsBasket([i \in {} |-> items'[i]])
    BY <1>7, BasketIs
  <2>2. QED BY <2>1 DEF AsBasket, Contents!NoLines
<1>9. Basket(r.user)' \in Contents!Outcomes(r, Basket(r.user))
  BY <1>5, <1>8 DEF Contents!Outcomes
<1>10. Contents!InStock(Basket(r.user)')
  BY BasketInStock
<1>11. Contents!Next
  BY <1>2, <1>3, <1>4, <1>6, <1>9, <1>10, ActMaps
<1>12. QED BY <1>3, <1>11 DEF Implements

LEMMA StopMaps ==
  ASSUME CartInv, NEW c, Calls = {c}, FailCall(c) \/ CartServiceStops
  PROVE  Implements
<1>1. Running(c) /\ UNCHANGED <<cart, items>>
  BY DEF FailCall, CartServiceStops
<1>2. End(c, "failed")
  <2>1. CASE CartServiceStops
    <3>1. DOMAIN call = {c}
      BY DEF CartInv, TypeOK
    <3>2. call' = [d \in {c} |-> Idle("failed")]
      BY <1>1, <2>1 DEF CartServiceStops
    <3> HIDE DEF Idle
    <3>3. [call EXCEPT ![c] = Idle("failed")] = [d \in {c} |-> Idle("failed")]
      BY <3>1
    <3>4. QED BY <3>2, <3>3 DEF End
  <2>2. QED BY <2>1 DEF FailCall
<1>3. QED BY <1>1, <1>2, SameTables, FailingMaps DEF Implements

LEMMA SerialStep ==
  ASSUME CartInv, CartInv', UpToDate, NEW c, Calls = {c}, Next
  PROVE  Implements
<1>1. CASE \E r \in Requests : Receive(c, r)
  BY <1>1, ReceiveMaps
<1>2. CASE FindItem(c) \/ CheckProduct(c)
  BY <1>2, FindItemMaps, CheckProductMaps
<1>3. CASE ReadCart(c) \/ CreateCart(c)
  BY <1>3, ReadCartMaps, CreateCartMaps
<1>4. CASE SaveLooks(c) \/ SaveWrites(c)
  BY <1>4, SaveLooksMaps, SaveWritesMaps
<1>5. CASE DeleteItem(c) \/ ClearCart(c)
  BY <1>5, DeleteItemMaps, ClearCartMaps
<1>6. CASE FailCall(c) \/ CartServiceStops
  BY <1>6, StopMaps
<1>7. QED BY <1>1, <1>2, <1>3, <1>4, <1>5, <1>6 DEF Next, Handle

(***************************************************************************)
(* A Cart Service that serves one call at a time is CartContents: however  *)
(* the awaits of a handler fail, time out or are cut off by a restart, the *)
(* call acts on its user's cart all at once, within the stock, and before  *)
(* it is answered, or not at all.                                          *)
(***************************************************************************)
THEOREM SerialCallsActAtOnce == ASSUME NEW CONSTANT c, Calls = {c} PROVE Spec => ActsAtOnce
<1>1. Init => UpToDate /\ Contents!Init
  <2> SUFFICES ASSUME Init PROVE UpToDate /\ Contents!Init
    OBVIOUS
  <2>1. call[c] = Idle("idle")
    BY DEF Init
  <2>2. UpToDate
    BY <2>1 DEF UpToDate
  <2>3. Asked(c) = [at |-> "idle"]
    BY <2>1 DEF Asked
  <2>4. \A u \in Users : Basket(u) = Contents!NoLines
    BY DEF Init, Basket, LinesOf, Restrict, Contents!NoLines
  <2>5. QED BY <2>2, <2>3, <2>4 DEF Contents!Init
<1>2. CartInv /\ CartInv' /\ UpToDate /\ [Next]_vars
        => UpToDate' /\ [Contents!Next]_(Contents!vars)
  <2> SUFFICES ASSUME CartInv, CartInv', UpToDate, [Next]_vars
               PROVE  UpToDate' /\ [Contents!Next]_(Contents!vars)
    OBVIOUS
  <2>1. CASE Next
    BY <2>1, SerialStep DEF Implements
  <2>2. CASE UNCHANGED vars
    <3>1. call'[c] = call[c] /\ UNCHANGED <<cart, items>>
      BY <2>2 DEF vars
    <3>2. UpToDate'
      <4>1. PICK n : n = call[c]
        OBVIOUS
      <4>2. /\ n.at \in {"save", "write"} /\ n.req.op = "add" => AddsToCart(n)
            /\ n.at \in {"check", "save", "write"} /\ n.req.op = "set" => SetsInCart(n)
        BY <4>1 DEF UpToDate
      <4>3. QED BY <3>1, <4>1, <4>2, CopyStaysUpToDate
    <3>3. Asked(c)' = Asked(c)
      BY <3>1 DEF Asked
    <3>4. UNCHANGED Contents!vars
      BY <3>1, <3>3, SameTables, StutterMaps
    <3>5. QED BY <3>2, <3>4
  <2>3. QED BY <2>1, <2>2
<1>3. QED BY <1>1, <1>2, CartSafety, PTL DEF Spec, ActsAtOnce, Contents!Spec

===============================================================================
