----------------------------- MODULE FrontendCart ------------------------------
(***************************************************************************)
(* The cart as a browser tab shows it: the React Query entry ["cart"], the *)
(* mutations that edit it before the Cart Service has answered and undo    *)
(* the edit if it refuses, the refetches that follow them, and the session *)
(* of the tab, which may end and begin while requests are under way.  The  *)
(* Cart Service acts on a request at once.                                 *)
(***************************************************************************)
EXTENDS Naturals

CONSTANTS Users, Products,
          Stock,        \* most of each product that a cart may ask for
          MaxShown,     \* bound: quantity that the buttons lead to
          Slots,        \* instances of the mutation hooks, on whatever surface
          Nobody, Nothing

ASSUME NobodyIsNoUser == Nobody \notin Users
ASSUME StockIsNat == Stock \in [Products -> Nat]

VARIABLES user,         \* whose session the tab holds, or Nobody
          basket,       \* the Cart Service's carts; 0: no line for the product
          cache,        \* data of the entry
          failed,       \* the entry's last fetch failed
          get,          \* the GET /cart under way for the entry
          slot,         \* the mutation each hook runs
          stray,        \* users of whom a DELETE /cart, sent for an order, may
                        \* still be served after the order was answered
          blurred       \* auxiliary: no fetch begun since the cache may have
                        \* missed a change

vars == <<user, basket, cache, failed, get, slot, stray, blurred>>

Baskets == [Products -> Nat]
NoLines == [p \in Products |-> 0]
CartOf(u, lines) == [owner |-> u, lines |-> lines]

NoGet == [at |-> "none"]
Idle == [at |-> "idle"]
Edits == {"update", "remove"}
Ops == Edits \cup {"add", "clear", "order"}

\* The hook awaits its answer; a late request is one it has given up on, and
\* that the service may still act on.
Pending(s) == slot[s].at \in {"sent", "done", "refused"}
Busy(s) == slot[s].at # "idle"
Quiet == get.at = "none" /\ \A s \in Slots : ~Busy(s)

\* Auxiliary: from now on nothing under way was alone all along.
Overlapped == [s \in Slots |-> IF Pending(s) THEN [slot[s] EXCEPT !.alone = FALSE]
                                             ELSE slot[s]]

-------------------------------------------------------------------------------
Init ==
  /\ user = Nobody
  /\ basket = [u \in Users |-> NoLines]
  /\ cache = Nothing
  /\ failed = FALSE
  /\ get = NoGet
  /\ slot = [s \in Slots |-> Idle]
  /\ stray = {}
  /\ blurred = FALSE

\* Mutant: the cache outlives the session.
SignInKeeping(u) ==
  /\ user = Nobody
  /\ user' = u
  /\ UNCHANGED <<basket, cache, failed, get, slot, stray, blurred>>

\* Mutant: the entry is emptied, but the fetch under way goes on.
SignInEmptying(u) ==
  /\ user = Nobody
  /\ user' = u
  /\ cache' = Nothing
  /\ failed' = FALSE
  /\ UNCHANGED <<basket, get, slot, stray, blurred>>

\* useLoginMutation and useRegisterMutation: setSession, queryClient.clear.  A
\* fetch under way has nowhere to go, but a mutation goes on.
SignIn(u) ==
  /\ user = Nobody
  /\ user' = u
  /\ cache' = Nothing
  /\ failed' = FALSE
  /\ get' = NoGet
  /\ UNCHANGED <<basket, slot, stray, blurred>>

\* From the account pages: clearSession, queryClient.clear.
LogOut ==
  /\ user # Nobody
  /\ user' = Nobody
  /\ cache' = Nothing
  /\ failed' = FALSE
  /\ get' = NoGet
  /\ UNCHANGED <<basket, slot, stray, blurred>>

\* From the header of the home page and the shop: clearSession only.
LogOutInHeader ==
  /\ user # Nobody
  /\ user' = Nobody
  /\ UNCHANGED <<basket, cache, failed, get, slot, stray, blurred>>

-------------------------------------------------------------------------------
StartGet ==
  /\ get' = [at |-> "sent", user |-> user]
  /\ blurred' = FALSE

\* A page that uses the cart appears: the entry is fetched if it is empty, and
\* may be fetched if not, being five minutes old, on "Try again" or after the
\* connection was lost.  It is disabled while nobody is signed in.
Mount ==
  /\ user # Nobody
  /\ get.at = "none"
  /\ StartGet
  /\ slot' = Overlapped
  /\ UNCHANGED <<user, basket, cache, failed, stray>>

ServeGet ==
  /\ get.at = "sent"
  /\ get' = [at |-> "read", cart |-> CartOf(get.user, basket[get.user])]
  /\ UNCHANGED <<user, basket, cache, failed, slot, stray, blurred>>

GetAnswered ==
  /\ get.at = "read"
  /\ cache' = get.cart
  /\ failed' = FALSE
  /\ get' = NoGet
  /\ UNCHANGED <<user, basket, slot, stray, blurred>>

\* The retries are used up.
GetFails ==
  /\ get.at # "none"
  /\ failed' = TRUE
  /\ get' = NoGet
  /\ UNCHANGED <<user, basket, cache, slot, stray, blurred>>

-------------------------------------------------------------------------------
Sent(op, p, q) ==
  [at |-> "sent", op |-> op, user |-> user, product |-> p, quantity |-> q,
   prior |-> cache, reply |-> NoLines, alone |-> TRUE]

\* Mutant: the fetch under way is not cancelled.
EditWithoutCancel(s, op, p, q) ==
  /\ slot[s].at = "idle"
  /\ cache # Nothing
  /\ cache' = [cache EXCEPT !.lines[p] = q]
  /\ failed' = FALSE
  /\ slot' = [Overlapped EXCEPT ![s] =
                [Sent(op, p, q) EXCEPT !.alone = \A t \in Slots \ {s} : ~Busy(t)]]
  /\ UNCHANGED <<user, basket, get, stray, blurred>>

\* onMutate: the fetch under way is cancelled, the entry kept for the undo and
\* edited, before the request is sent.
Edit(s, op, p, q) ==
  /\ slot[s].at = "idle"
  /\ cache # Nothing
  /\ get' = NoGet
  /\ cache' = [cache EXCEPT !.lines[p] = q]
  /\ failed' = FALSE
  /\ slot' = [Overlapped EXCEPT ![s] =
                [Sent(op, p, q) EXCEPT !.alone = \A t \in Slots \ {s} : ~Busy(t)]]
  /\ UNCHANGED <<user, basket, stray, blurred>>

\* The buttons of a line on display: one more, one less but not none, remove.
ChangeQuantity(s, p) ==
  /\ cache # Nothing /\ cache.lines[p] > 0
  /\ \/ cache.lines[p] < MaxShown /\ Edit(s, "update", p, cache.lines[p] + 1)
     \/ cache.lines[p] > 1 /\ Edit(s, "update", p, cache.lines[p] - 1)

Remove(s, p) ==
  /\ cache # Nothing /\ cache.lines[p] > 0
  /\ Edit(s, "remove", p, 0)

\* The mutations that wait for the answer.
Request(s, op, p) ==
  /\ slot[s].at = "idle"
  /\ slot' = [Overlapped EXCEPT ![s] =
                [Sent(op, p, 1) EXCEPT !.prior = Nothing, !.alone = Quiet]]
  /\ UNCHANGED <<user, basket, cache, failed, get, stray, blurred>>

\* The product page asks visitors to log in first.
AddToCart(s, p) == user # Nobody /\ Request(s, "add", p)

\* "Clear cart" and "Place order" are there only where the cart shows a line.
ShowsLines == cache # Nothing /\ cache.lines # NoLines
Clear(s) == ShowsLines /\ Request(s, "clear", Nothing)
PlaceOrder(s) == user # Nobody /\ ShowsLines /\ Request(s, "order", Nothing)

-------------------------------------------------------------------------------
\* What the services make of a request: its cart after it, if not refused.  An
\* order is answered whether or not its DELETE has cleared the cart by then.
Outcomes(r) ==
  LET b == basket[r.user]
  IN  CASE r.op = "add" /\ b[r.product] < Stock[r.product]
             -> {[b EXCEPT ![r.product] = @ + 1]}
        [] r.op = "update" /\ b[r.product] > 0 /\ r.quantity <= Stock[r.product]
             -> {[b EXCEPT ![r.product] = r.quantity]}
        [] r.op = "remove" /\ b[r.product] > 0 -> {[b EXCEPT ![r.product] = 0]}
        [] r.op = "clear" -> {NoLines}
        [] r.op = "order" /\ b # NoLines -> {NoLines, b}
        [] OTHER -> {}

\* Of the answers only that to an addition is looked at.
Answered(r, b) ==
  [r EXCEPT !.at = "done", !.reply = IF r.op = "add" THEN b ELSE NoLines]

\* A DELETE that timed out in createOrder, or was retried there, may be served
\* after the order's answer.
Accept(s) ==
  LET r == slot[s]
  IN  /\ r.at \in {"sent", "late"} /\ r.user # Nobody
      /\ \E b \in Outcomes(r) :
           /\ basket' = [basket EXCEPT ![r.user] = b]
           /\ slot' = [slot EXCEPT ![s] = IF r.at = "late" THEN Idle
                                          ELSE Answered(r, b)]
      /\ stray' \in {stray} \cup {stray \cup {r.user} : o \in {r.op} \cap {"order"}}
      /\ blurred' = (blurred \/ r.at = "late")
      /\ UNCHANGED <<user, cache, failed, get>>

\* The last of a user's stray DELETEs is served, or one of several.
ServeStray(u) ==
  /\ u \in stray
  /\ stray' \in {stray, stray \ {u}}
  /\ basket' = [basket EXCEPT ![u] = NoLines]
  /\ slot' = Overlapped
  /\ blurred' = TRUE
  /\ UNCHANGED <<user, cache, failed, get>>

\* Refused, 401 for a request without a session among others, or failed.
Refuse(s) ==
  /\ slot[s].at \in {"sent", "late"}
  /\ slot' = [slot EXCEPT ![s] = IF @.at = "late" THEN Idle ELSE [@ EXCEPT !.at = "refused"]]
  /\ UNCHANGED <<user, basket, cache, failed, get, stray, blurred>>

\* Mutant: nothing is invalidated once the mutation is settled.
SettleOnly(s, rest) ==
  /\ slot' = [slot EXCEPT ![s] = rest]
  /\ UNCHANGED <<get, blurred>>

\* onSettled, invalidateQueries: the entry is fetched anew, in place of a fetch
\* under way.  It is not while nobody is signed in; and an entry that holds
\* nothing yet, of a session that has just begun, waits for its first fetch.
Settle(s, rest) ==
  \/ /\ user # Nobody
     /\ cache' # Nothing \/ get.at = "none"
     /\ StartGet
     /\ slot' = [Overlapped EXCEPT ![s] = rest]
  \/ /\ user = Nobody \/ (cache' = Nothing /\ get.at # "none")
     /\ blurred' = (blurred \/ user # Nobody)
     /\ slot' = [slot EXCEPT ![s] = rest]
     /\ UNCHANGED get

Succeed(s) ==
  LET r == slot[s]
  IN  /\ r.at = "done"
      /\ \/ /\ r.op \in Edits \cup {"order"}
            /\ UNCHANGED <<cache, failed>>
            /\ Settle(s, Idle)
         \/ /\ r.op \in {"add", "clear"}
            /\ cache' = CartOf(r.user, IF r.op = "add" THEN r.reply ELSE NoLines)
            /\ failed' = FALSE
            /\ slot' = [slot EXCEPT ![s] = Idle]
            /\ blurred' = (blurred \/ ~r.alone)
            /\ UNCHANGED get
      /\ UNCHANGED <<user, basket, stray>>

\* An error answer, none, or none in ten seconds: an edit is undone.
Fail(s) ==
  LET r == slot[s]
      rest == IF r.at = "sent" THEN {Idle, [r EXCEPT !.at = "late", !.prior = Nothing, !.alone = FALSE]} ELSE {Idle}
  IN  /\ Pending(s)
      /\ \E x \in rest :
           \/ /\ r.op \in Edits
              /\ cache' = r.prior
              /\ failed' = FALSE
              /\ Settle(s, x)
           \/ /\ r.op \notin Edits
              /\ slot' = [slot EXCEPT ![s] = x]
              /\ blurred' = (blurred \/ r.at = "done")
              /\ UNCHANGED <<cache, failed, get>>
      /\ UNCHANGED <<user, basket, stray>>

Next ==
  \/ \E u \in Users : SignIn(u) \/ ServeStray(u)
  \/ LogOut \/ LogOutInHeader
  \/ Mount \/ ServeGet \/ GetAnswered \/ GetFails
  \/ \E s \in Slots :
       \/ \E p \in Products : ChangeQuantity(s, p) \/ Remove(s, p) \/ AddToCart(s, p)
       \/ Clear(s) \/ PlaceOrder(s)
       \/ Accept(s) \/ Refuse(s) \/ Succeed(s) \/ Fail(s)

Spec == Init /\ [][Next]_vars

-------------------------------------------------------------------------------
Carts == [owner : Users, lines : Baskets]
Mutations ==
  {r \in [at : {"sent", "done", "refused", "late"}, op : Ops, user : Users \cup {Nobody},
          product : Products \cup {Nothing}, quantity : Nat,
          prior : Carts \cup {Nothing}, reply : Baskets, alone : BOOLEAN] :
     r.at = "done" => r.user # Nobody}

TypeOK ==
  /\ user \in Users \cup {Nobody}
  /\ basket \in [Users -> Baskets]
  /\ cache \in Carts \cup {Nothing}
  /\ failed \in BOOLEAN
  /\ get \in {NoGet} \cup [at : {"sent"}, user : Users] \cup [at : {"read"}, cart : Carts]
  /\ slot \in [Slots -> {Idle} \cup Mutations]
  /\ stray \subseteq Users
  /\ blurred \in BOOLEAN

(***************************************************************************)
(* Once nothing is under way, the tab shows the cart that the service      *)
(* keeps, however edits, their undoings and refetches were interleaved: an *)
(* undo may bring back lines that an edit made meanwhile had changed, and  *)
(* the refetch puts that right.  Not so after an addition or a clearing    *)
(* that overlapped something else, whose answer is taken for the whole     *)
(* truth, a request that took effect when the tab had given up on it, the  *)
(* DELETE of an order that was served after the order's answer, or a       *)
(* request of an earlier session that ended during the first fetch of      *)
(* this.                                                                   *)
(***************************************************************************)
SettledCartIsRight ==
  Quiet /\ user # Nobody /\ cache # Nothing /\ ~failed /\ ~blurred /\ cache.owner = user
    => cache.lines = basket[user]

(***************************************************************************)
(* An edit that nothing else overlaps stays visible until it is answered:  *)
(* a fetch begun before it does not bring the old quantity back.  (Of two  *)
(* edits at once, the undo or the refetch of one may hide the other.)      *)
(***************************************************************************)
EditsStayVisible ==
  \A s \in Slots :
    Pending(s) /\ slot[s].op \in Edits /\ slot[s].alone /\ cache # Nothing =>
      cache.lines[slot[s].product] = slot[s].quantity

(***************************************************************************)
(* A user who signs in is not shown the cart of the one before, except by  *)
(* the answer to a mutation that the one before had left under way, or by  *)
(* undoing an edit of a cart so shown.                                     *)
(***************************************************************************)
ShowsOwn == user # Nobody /\ cache # Nothing => cache.owner = user

Foreign(r) == r.user # user \/ (r.prior # Nothing /\ r.prior.owner # user)

OnlyLateAnswersShowAnothers ==
  [][ShowsOwn /\ ~ShowsOwn' =>
       \E s \in Slots : Pending(s) /\ Foreign(slot[s]) /\ ~Pending(s)']_vars

-------------------------------------------------------------------------------
(* What these rest on.  Owing: a mutation is under way whose end begins a  *)
(* fetch, or writes the cart as it then is, or blurs the cache.            *)
Owing == \E s \in Slots : Pending(s) /\ (slot[s].op \in Edits \/ slot[s].at = "done")

CacheIsRightOrOwed ==
  get.at = "none" /\ user # Nobody /\ cache # Nothing /\ ~failed /\ ~blurred
    /\ cache.owner = user /\ ~Owing
    => cache.lines = basket[user]

FetchIsRightOrOwed ==
  get.at = "read" /\ user # Nobody /\ ~blurred /\ get.cart.owner = user /\ ~Owing
    => get.cart.lines = basket[user]

FetchIsOwn ==
  user # Nobody => /\ get.at = "sent" => get.user = user
                   /\ get.at = "read" => get.cart.owner = user

AloneIsAlone ==
  \A s \in Slots :
    Pending(s) /\ slot[s].alone => get.at = "none" /\ \A t \in Slots \ {s} : ~Busy(t)

AnswerIsTheCart ==
  \A s \in Slots :
    slot[s].at = "done" /\ slot[s].alone =>
      /\ slot[s].op = "add" => slot[s].reply = basket[slot[s].user]
      /\ slot[s].op = "clear" => basket[slot[s].user] = NoLines

TabInv ==
  /\ TypeOK
  /\ CacheIsRightOrOwed
  /\ FetchIsRightOrOwed
  /\ FetchIsOwn
  /\ AloneIsAlone
  /\ AnswerIsTheCart
  /\ EditsStayVisible
===============================================================================
