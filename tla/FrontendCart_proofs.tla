-------------------------- MODULE FrontendCart_proofs --------------------------
(***************************************************************************)
(* Theorems about FrontendCart, for any users, products, stock and number  *)
(* of mutation hooks.                                                      *)
(***************************************************************************)
EXTENDS FrontendCart, TLAPS

-------------------------------------------------------------------------------
(* Types.                                                                  *)

LEMMA CartType ==
  ASSUME NEW u \in Users, NEW b \in Baskets
  PROVE  CartOf(u, b) \in Carts
  BY DEF CartOf, Carts

LEMMA NoLinesType == NoLines \in Baskets
  BY DEF NoLines, Baskets

LEMMA OutcomesType ==
  ASSUME TypeOK, NEW r \in Mutations, r.user \in Users
  PROVE  Outcomes(r) \subseteq Baskets
<1> DEFINE b == basket[r.user]
<1>1. b \in Baskets
  BY DEF TypeOK
<1>2. [b EXCEPT ![r.product] = @ + 1] \in Baskets
  <2>1. \A p \in Products : b[p] + 1 \in Nat
    BY <1>1 DEF Baskets
  <2>2. QED BY <1>1, <2>1 DEF Baskets
<1>3. [b EXCEPT ![r.product] = r.quantity] \in Baskets
  BY <1>1 DEF Baskets, Mutations
<1>4. [b EXCEPT ![r.product] = 0] \in Baskets
  BY <1>1 DEF Baskets
<1>5. QED
  BY <1>1, <1>2, <1>3, <1>4, NoLinesType DEF Outcomes

LEMMA OverlappedType ==
  ASSUME TypeOK
  PROVE  Overlapped \in [Slots -> {Idle} \cup Mutations]
<1> SUFFICES ASSUME NEW s \in Slots, Pending(s)
             PROVE  [slot[s] EXCEPT !.alone = FALSE] \in Mutations
  BY DEF Overlapped, TypeOK
<1>1. slot[s] \in Mutations
  BY DEF TypeOK, Pending, Idle
<1>2. QED
  BY <1>1 DEF Mutations

LEMMA PendingType ==
  ASSUME TypeOK, NEW s \in Slots, slot[s].at # "idle"
  PROVE  slot[s] \in Mutations
  BY DEF TypeOK, Idle

LEMMA SentType ==
  ASSUME TypeOK, NEW op \in Ops, NEW p \in Products \cup {Nothing}, NEW q \in Nat
  PROVE  Sent(op, p, q) \in Mutations
  BY NoLinesType DEF Sent, TypeOK, Mutations

\* What a slot holds once nothing under way was alone all along.
LEMMA OverlappedIs ==
  ASSUME TypeOK, NEW s \in Slots
  PROVE  /\ Overlapped[s].at = slot[s].at
         /\ Overlapped[s].at # "idle" => /\ Overlapped[s].op = slot[s].op
                                         /\ Overlapped[s].product = slot[s].product
                                         /\ Overlapped[s].quantity = slot[s].quantity
         /\ Overlapped[s].at \in {"sent", "done", "refused"} => ~Overlapped[s].alone
<1>1. CASE Pending(s)
  <2>1. slot[s] \in Mutations
    BY <1>1, PendingType DEF Pending
  <2>2. Overlapped[s] = [slot[s] EXCEPT !.alone = FALSE]
    BY <1>1 DEF Overlapped
  <2>3. QED BY <2>1, <2>2 DEF Mutations
<1>2. CASE ~Pending(s)
  BY <1>2 DEF Overlapped, Pending
<1>3. QED BY <1>1, <1>2

-------------------------------------------------------------------------------
(* An edit begins: what the two buttons and "remove" have in common.       *)

LEMMA ChangeIsEdit ==
  ASSUME TypeOK, NEW s \in Slots, NEW p \in Products,
         ChangeQuantity(s, p) \/ Remove(s, p)
  PROVE  \E op \in Edits, q \in Nat : Edit(s, op, p, q)
<1>1. cache \in Carts /\ cache.lines[p] \in Nat
  BY DEF ChangeQuantity, Remove, TypeOK, Carts, Baskets
<1>2. CASE Remove(s, p)
  BY <1>2 DEF Remove, Edits
<1>3. CASE ChangeQuantity(s, p)
  <2>1. PICK q \in {cache.lines[p] + 1, cache.lines[p] - 1} :
           cache.lines[p] > 0 /\ Edit(s, "update", p, q)
    BY <1>3 DEF ChangeQuantity
  <2>2. q \in Nat
    BY <1>1, <2>1
  <2>3. QED BY <2>1, <2>2 DEF Edits
<1>4. QED BY <1>2, <1>3

LEMMA AskIsRequest ==
  ASSUME TypeOK, NEW s \in Slots,
         (\E p \in Products : AddToCart(s, p)) \/ Clear(s) \/ PlaceOrder(s)
  PROVE  \E op \in Ops \ Edits, p \in Products \cup {Nothing} : Request(s, op, p)
  BY DEF AddToCart, Clear, PlaceOrder, Ops, Edits

LEMMA EditKeeps ==
  ASSUME TabInv, NEW s \in Slots, NEW op \in Edits, NEW p \in Products, NEW q \in Nat,
         Edit(s, op, p, q)
  PROVE  TabInv'
<1> DEFINE alone == \A t \in Slots \ {s} : ~Busy(t)
           sent == [Sent(op, p, q) EXCEPT !.alone = alone]
<1> USE DEF TabInv
<1>1. /\ op \in Ops /\ cache \in Carts /\ slot[s].at = "idle"
      /\ sent \in Mutations
      /\ sent.at = "sent" /\ sent.op = op /\ sent.product = p /\ sent.quantity = q
      /\ sent.alone = alone
  <2>1. op \in Ops /\ cache \in Carts /\ slot[s].at = "idle"
    BY DEF Edit, TypeOK, Ops
  <2>2. Sent(op, p, q) \in Mutations
    BY <2>1, SentType
  <2>3. sent \in Mutations /\ sent.alone = alone
    BY <2>2 DEF Mutations
  <2>4. QED BY <2>1, <2>2, <2>3 DEF Sent
<1>2. /\ slot' = [Overlapped EXCEPT ![s] = sent]
      /\ cache' = [cache EXCEPT !.lines[p] = q]
      /\ get' = NoGet /\ failed' = FALSE
      /\ UNCHANGED <<user, basket, stray, blurred>>
  BY DEF Edit
<1> HIDE DEF sent
<1>3. /\ slot'[s] = sent
      /\ \A t \in Slots \ {s} : slot'[t] = Overlapped[t]
  BY <1>2, OverlappedType
<1>4. cache' \in Carts /\ cache'.lines[p] = q
  BY <1>1, <1>2 DEF Carts, Baskets
<1>5. TypeOK'
  BY <1>1, <1>2, <1>4, OverlappedType DEF TypeOK, NoGet
<1>6. CacheIsRightOrOwed'
  BY <1>1, <1>3 DEF CacheIsRightOrOwed, Owing, Pending
<1>7. FetchIsRightOrOwed' /\ FetchIsOwn'
  BY <1>2 DEF FetchIsRightOrOwed, FetchIsOwn, NoGet
<1>8. \A t \in Slots \ {s} : Pending(t)' => ~slot'[t].alone
  BY <1>3, OverlappedIs DEF Pending
<1>9. AloneIsAlone'
  <2>1. slot'[s].alone => \A t \in Slots \ {s} : ~Busy(t)'
    BY <1>1, <1>3, OverlappedIs DEF Busy
  <2>2. QED BY <1>2, <1>8, <2>1 DEF AloneIsAlone, NoGet
<1>10. AnswerIsTheCart'
  BY <1>1, <1>3, <1>8 DEF AnswerIsTheCart, Pending
<1>11. EditsStayVisible'
  BY <1>1, <1>3, <1>4, <1>8 DEF EditsStayVisible
<1>12. QED
  BY <1>5, <1>6, <1>7, <1>9, <1>10, <1>11

LEMMA RequestKeeps ==
  ASSUME TabInv, NEW s \in Slots, NEW op \in Ops \ Edits, NEW p \in Products \cup {Nothing},
         Request(s, op, p)
  PROVE  TabInv'
<1> DEFINE sent == [Sent(op, p, 1) EXCEPT !.prior = Nothing, !.alone = Quiet]
<1> USE DEF TabInv
<1>1. /\ slot[s].at = "idle"
      /\ sent \in Mutations
      /\ sent.at = "sent" /\ sent.op = op /\ sent.alone = Quiet
  <2>1. Sent(op, p, 1) \in Mutations
    BY SentType
  <2>2. Quiet \in BOOLEAN
    BY DEF Quiet
  <2>3. sent \in Mutations /\ sent.alone = Quiet
    BY <2>1, <2>2 DEF Mutations
  <2>4. QED BY <2>1, <2>3 DEF Sent, Request
<1>2. /\ slot' = [Overlapped EXCEPT ![s] = sent]
      /\ UNCHANGED <<user, basket, cache, failed, get, stray, blurred>>
  BY DEF Request
<1> HIDE DEF sent
<1>3. /\ slot'[s] = sent
      /\ \A t \in Slots \ {s} : slot'[t] = Overlapped[t]
  BY <1>2, OverlappedType
<1>4. \A t \in Slots \ {s} : /\ slot'[t].at = slot[t].at
                             /\ slot'[t].at # "idle" => slot'[t].op = slot[t].op
                             /\ Pending(t)' => ~slot'[t].alone
  BY <1>3, OverlappedIs DEF Pending
<1>5. TypeOK'
  BY <1>1, <1>2, OverlappedType DEF TypeOK
<1>6. Owing' = Owing
  BY <1>1, <1>3, <1>4 DEF Owing, Pending
<1>7. CacheIsRightOrOwed' /\ FetchIsRightOrOwed' /\ FetchIsOwn'
  BY <1>2, <1>6 DEF CacheIsRightOrOwed, FetchIsRightOrOwed, FetchIsOwn
<1>8. AloneIsAlone'
  <2>1. slot'[s].alone => get'.at = "none" /\ \A t \in Slots \ {s} : ~Busy(t)'
    BY <1>1, <1>2, <1>3, <1>4 DEF Quiet, Busy
  <2>2. QED BY <1>4, <2>1 DEF AloneIsAlone
<1>9. AnswerIsTheCart' /\ EditsStayVisible'
  BY <1>1, <1>3, <1>4 DEF AnswerIsTheCart, EditsStayVisible, Pending
<1>10. QED
  BY <1>5, <1>6, <1>7, <1>8, <1>9
-------------------------------------------------------------------------------
(* The session begins and ends: no slot and no cart changes, and unless    *)
(* somebody is signed in with the entry as it was, nothing is claimed.     *)

LEMMA SessionKeeps ==
  ASSUME TabInv, (\E u \in Users : SignIn(u)) \/ LogOut \/ LogOutInHeader
  PROVE  TabInv'
<1>1. /\ UNCHANGED <<basket, slot, stray, blurred>>
      /\ \/ user' \in Users \cup {Nobody} /\ cache' = Nothing /\ failed' = FALSE /\ get' = NoGet
         \/ user' = Nobody /\ UNCHANGED <<cache, failed, get>>
  BY DEF SignIn, LogOut, LogOutInHeader
<1>2. TypeOK'
  BY <1>1 DEF TabInv, TypeOK, NoGet
<1>3. CacheIsRightOrOwed' /\ FetchIsRightOrOwed' /\ FetchIsOwn'
  BY <1>1 DEF CacheIsRightOrOwed, FetchIsRightOrOwed, FetchIsOwn, NoGet
<1>4. AloneIsAlone'
  BY <1>1 DEF TabInv, AloneIsAlone, Pending, Busy, NoGet
<1>5. AnswerIsTheCart' /\ EditsStayVisible'
  BY <1>1 DEF TabInv, AnswerIsTheCart, EditsStayVisible, Pending
<1>6. QED
  BY <1>2, <1>3, <1>4, <1>5 DEF TabInv

-------------------------------------------------------------------------------
(* The fetch.                                                              *)

LEMMA MountKeeps ==
  ASSUME TabInv, Mount
  PROVE  TabInv'
<1> USE DEF TabInv
<1>1. /\ user # Nobody /\ get' = [at |-> "sent", user |-> user] /\ blurred' = FALSE
      /\ slot' = Overlapped
      /\ UNCHANGED <<user, basket, cache, failed, stray>>
  BY DEF Mount, StartGet
<1>2. TypeOK'
  BY <1>1, OverlappedType DEF TypeOK
<1>3. CacheIsRightOrOwed' /\ FetchIsRightOrOwed' /\ FetchIsOwn'
  BY <1>1 DEF CacheIsRightOrOwed, FetchIsRightOrOwed, FetchIsOwn
<1>4. \A t \in Slots : Pending(t)' => ~slot'[t].alone
  BY <1>1, OverlappedIs DEF Pending
<1>5. AloneIsAlone' /\ AnswerIsTheCart' /\ EditsStayVisible'
  BY <1>4 DEF AloneIsAlone, AnswerIsTheCart, EditsStayVisible, Pending
<1>6. QED
  BY <1>2, <1>3, <1>5

LEMMA FetchKeeps ==
  ASSUME TabInv, ServeGet \/ GetAnswered \/ GetFails
  PROVE  TabInv'
<1> USE DEF TabInv
<1>1. AnswerIsTheCart'
  BY DEF AnswerIsTheCart, ServeGet, GetAnswered, GetFails
<1>2. AloneIsAlone'
  BY DEF AloneIsAlone, ServeGet, GetAnswered, GetFails, Pending, Busy, NoGet
<1>3. EditsStayVisible'
  BY DEF EditsStayVisible, AloneIsAlone, ServeGet, GetAnswered, GetFails, Pending
<1>4. CASE ServeGet
  <2>1. /\ get.user \in Users
        /\ get' = [at |-> "read", cart |-> CartOf(get.user, basket[get.user])]
        /\ get'.cart \in Carts
        /\ UNCHANGED <<user, basket, cache, failed, slot, stray, blurred>>
    BY <1>4, CartType DEF ServeGet, TypeOK, NoGet
  <2>2. TypeOK'
    BY <2>1 DEF TypeOK
  <2>3. CacheIsRightOrOwed' /\ FetchIsRightOrOwed' /\ FetchIsOwn'
    BY <1>4, <2>1 DEF ServeGet, CacheIsRightOrOwed, FetchIsRightOrOwed, FetchIsOwn, CartOf
  <2>4. QED BY <1>1, <1>2, <1>3, <2>2, <2>3
<1>5. CASE GetAnswered
  <2>1. get.cart \in Carts
    BY <1>5 DEF GetAnswered, TypeOK, NoGet
  <2>2. TypeOK'
    BY <1>5, <2>1 DEF GetAnswered, TypeOK
  <2>3. CacheIsRightOrOwed' /\ FetchIsRightOrOwed' /\ FetchIsOwn'
    BY <1>5 DEF GetAnswered, CacheIsRightOrOwed, FetchIsRightOrOwed, FetchIsOwn, NoGet,
       Owing, Pending
  <2>4. QED BY <1>1, <1>2, <1>3, <2>2, <2>3
<1>6. CASE GetFails
  <2>1. TypeOK'
    BY <1>6 DEF GetFails, TypeOK
  <2>2. CacheIsRightOrOwed' /\ FetchIsRightOrOwed' /\ FetchIsOwn'
    BY <1>6 DEF GetFails, CacheIsRightOrOwed, FetchIsRightOrOwed, FetchIsOwn, NoGet
  <2>3. QED BY <1>1, <1>2, <1>3, <2>1, <2>2
<1>7. QED
  BY <1>4, <1>5, <1>6

-------------------------------------------------------------------------------
(* The service acts on a request, or refuses it.                           *)

LEMMA AcceptKeeps ==
  ASSUME TabInv, NEW s \in Slots, Accept(s)
  PROVE  TabInv'
<1> USE DEF TabInv
<1>1. /\ slot[s] \in Mutations /\ slot[s].at \in {"sent", "late"} /\ slot[s].user \in Users
      /\ UNCHANGED <<user, cache, failed, get>>
      /\ blurred' = (blurred \/ slot[s].at = "late")
  BY PendingType DEF Accept, Mutations
<1>2. PICK b \in Outcomes(slot[s]) :
        /\ basket' = [basket EXCEPT ![slot[s].user] = b]
        /\ slot' = [slot EXCEPT ![s] = IF slot[s].at = "late" THEN Idle
                                       ELSE Answered(slot[s], b)]
  BY DEF Accept
<1>3. b \in Baskets
  BY <1>1, OutcomesType
<1>4. Answered(slot[s], b) \in Mutations
  <2>1. slot[s].user # Nobody
    BY DEF Accept
  <2>2. QED BY <1>1, <1>3, <2>1, NoLinesType DEF Answered, Mutations
<1>5. TypeOK'
  <2>1. basket' \in [Users -> Baskets]
    BY <1>2, <1>3 DEF TypeOK
  <2>2. slot' \in [Slots -> {Idle} \cup Mutations]
    BY <1>2, <1>4 DEF TypeOK
  <2>3. stray' \subseteq Users
    BY <1>1 DEF Accept, TypeOK
  <2>4. QED BY <1>1, <2>1, <2>2, <2>3 DEF TypeOK
<1>6. slot'[s] = IF slot[s].at = "late" THEN Idle ELSE Answered(slot[s], b)
  BY <1>2 DEF TypeOK
<1>7. \A t \in Slots \ {s} : slot'[t] = slot[t]
  BY <1>2 DEF TypeOK
<1>8. CASE slot[s].at = "late"
  <2>1. slot'[s].at = "idle" /\ blurred'
    <3>1. slot'[s].at = "idle"
      BY <1>6, <1>8 DEF Idle
    <3>2. blurred'
      BY <1>1, <1>8, Zenon
    <3>3. QED BY <3>1, <3>2
  <2>2. CacheIsRightOrOwed' /\ FetchIsRightOrOwed' /\ FetchIsOwn'
    BY <1>1, <2>1 DEF CacheIsRightOrOwed, FetchIsRightOrOwed, FetchIsOwn
  <2>3. \A t \in Slots : Pending(t)' => t # s /\ ~slot[t].alone
    BY <1>7, <1>8, <2>1 DEF AloneIsAlone, Pending, Busy
  <2>4. AloneIsAlone' /\ AnswerIsTheCart' /\ EditsStayVisible'
    BY <1>7, <2>3 DEF AloneIsAlone, AnswerIsTheCart, EditsStayVisible, Pending
  <2>5. QED BY <1>5, <2>2, <2>4
<1>9. CASE slot[s].at = "sent"
  <2>1. /\ slot'[s].at = "done" /\ slot'[s].op = slot[s].op
        /\ slot'[s].user = slot[s].user /\ slot'[s].alone = slot[s].alone
        /\ slot'[s].product = slot[s].product /\ slot'[s].quantity = slot[s].quantity
        /\ slot'[s].reply = IF slot[s].op = "add" THEN b ELSE NoLines
    BY <1>1, <1>6, <1>9 DEF Answered, Mutations
  <2>2. Owing'
    BY <2>1 DEF Owing, Pending
  <2>3. CacheIsRightOrOwed' /\ FetchIsRightOrOwed' /\ FetchIsOwn'
    BY <1>1, <2>2 DEF CacheIsRightOrOwed, FetchIsRightOrOwed, FetchIsOwn
  <2>4. \A t \in Slots \ {s} : Pending(t) => ~slot[t].alone
    BY <1>9 DEF AloneIsAlone, Busy
  <2>5. AloneIsAlone'
    <3>1. slot[s].alone => get.at = "none" /\ \A t \in Slots \ {s} : ~Busy(t)
      BY <1>9 DEF AloneIsAlone, Pending
    <3>2. QED BY <1>1, <1>7, <2>1, <2>4, <3>1 DEF AloneIsAlone, Pending, Busy
  <2>6. AnswerIsTheCart'
    <3>1. basket'[slot[s].user] = b
      BY <1>1, <1>2 DEF TypeOK
    <3>2. slot[s].op = "clear" => b = NoLines
      BY <1>2 DEF Outcomes
    <3>3. QED BY <1>7, <2>1, <2>4, <3>1, <3>2 DEF AnswerIsTheCart, Pending
  <2>7. EditsStayVisible'
    BY <1>1, <1>7, <1>9, <2>1 DEF EditsStayVisible, Pending
  <2>8. QED BY <1>5, <2>3, <2>5, <2>6, <2>7
<1>10. QED
  BY <1>1, <1>8, <1>9

\* Whatever a stray DELETE clears, the cache may now have missed it.
LEMMA StrayKeeps ==
  ASSUME TabInv, NEW u \in Users, ServeStray(u)
  PROVE  TabInv'
<1> USE DEF TabInv
<1>1. /\ stray' \in {stray, stray \ {u}} /\ blurred' = TRUE
      /\ basket' = [basket EXCEPT ![u] = NoLines]
      /\ slot' = Overlapped
      /\ UNCHANGED <<user, cache, failed, get>>
  BY DEF ServeStray
<1>2. TypeOK'
  <2>1. basket' \in [Users -> Baskets]
    BY <1>1, NoLinesType DEF TypeOK
  <2>2. QED BY <1>1, <2>1, OverlappedType DEF TypeOK
<1>3. CacheIsRightOrOwed' /\ FetchIsRightOrOwed' /\ FetchIsOwn'
  BY <1>1 DEF CacheIsRightOrOwed, FetchIsRightOrOwed, FetchIsOwn
<1>4. \A t \in Slots : Pending(t)' => ~slot'[t].alone
  BY <1>1, OverlappedIs DEF Pending
<1>5. AloneIsAlone' /\ AnswerIsTheCart' /\ EditsStayVisible'
  BY <1>4 DEF AloneIsAlone, AnswerIsTheCart, EditsStayVisible, Pending
<1>6. QED
  BY <1>2, <1>3, <1>5

LEMMA RefuseKeeps ==
  ASSUME TabInv, NEW s \in Slots, Refuse(s)
  PROVE  TabInv'
<1> USE DEF TabInv
<1>1. /\ slot[s] \in Mutations /\ slot[s].at \in {"sent", "late"}
      /\ UNCHANGED <<user, basket, cache, failed, get, stray, blurred>>
      /\ \A t \in Slots \ {s} : slot'[t] = slot[t]
      /\ slot'[s] = IF slot[s].at = "late" THEN Idle ELSE [slot[s] EXCEPT !.at = "refused"]
  BY PendingType DEF Refuse, TypeOK
<1>2. \/ slot[s].at = "late" /\ slot'[s] = Idle /\ slot'[s].at = "idle"
      \/ /\ slot[s].at = "sent" /\ slot'[s] \in Mutations
         /\ slot'[s].at = "refused" /\ slot'[s].op = slot[s].op
         /\ slot'[s].alone = slot[s].alone
         /\ slot'[s].product = slot[s].product /\ slot'[s].quantity = slot[s].quantity
  BY <1>1 DEF Mutations, Idle
<1>3. TypeOK'
  <2>1. slot' = [slot EXCEPT ![s] = slot'[s]]
    BY <1>1 DEF Refuse, TypeOK
  <2>2. slot' \in [Slots -> {Idle} \cup Mutations]
    BY <1>2, <2>1 DEF TypeOK
  <2>3. QED BY <1>1, <2>2 DEF TypeOK
<1>4. \A t \in Slots :
        /\ Pending(t)' => /\ Pending(t)
                          /\ slot'[t].alone = slot[t].alone
                          /\ slot'[t].op = slot[t].op
                          /\ slot'[t].product = slot[t].product
                          /\ slot'[t].quantity = slot[t].quantity
        /\ Busy(t)' => Busy(t)
        /\ Pending(t) /\ slot[t].op \in Edits => Pending(t)' /\ slot'[t].op \in Edits
        /\ slot[t].at = "done" => slot'[t].at = "done"
  BY <1>1, <1>2 DEF Pending, Busy
<1>5. CacheIsRightOrOwed' /\ FetchIsRightOrOwed' /\ FetchIsOwn'
  <2>1. Owing => Owing'
    BY <1>4 DEF Owing, Pending
  <2>2. QED
    BY <1>1, <2>1 DEF CacheIsRightOrOwed, FetchIsRightOrOwed, FetchIsOwn
<1>6. AloneIsAlone'
  <2>1. SUFFICES ASSUME NEW r \in Slots, Pending(r)', slot'[r].alone
                 PROVE  get'.at = "none" /\ \A t \in Slots \ {r} : ~Busy(t)'
    BY DEF AloneIsAlone
  <2>2. Pending(r) /\ slot[r].alone
    BY <1>4, <2>1
  <2>3. QED BY <1>1, <1>4, <2>2 DEF AloneIsAlone
<1>7. AnswerIsTheCart'
  BY <1>1, <1>2 DEF AnswerIsTheCart
<1>8. EditsStayVisible'
  <2>1. SUFFICES ASSUME NEW t \in Slots, Pending(t)', slot'[t].op \in Edits,
                        slot'[t].alone, cache' # Nothing
                 PROVE  cache'.lines[slot'[t].product] = slot'[t].quantity
    BY DEF EditsStayVisible
  <2>2. QED BY <1>1, <1>4, <2>1 DEF EditsStayVisible
<1>9. QED
  BY <1>3, <1>5, <1>6, <1>7, <1>8
-------------------------------------------------------------------------------
(* A mutation ends.  What else is under way has then overlapped it, so that *)
(* no slot can go on claiming to be alone.                                 *)

LEMMA NobodyElseIsAlone ==
  ASSUME AloneIsAlone, NEW s \in Slots, Busy(s)
  PROVE  \A t \in Slots \ {s} : Pending(t) => ~slot[t].alone
  BY DEF AloneIsAlone

LEMMA EndClaims ==
  ASSUME NEW s \in Slots, ~Pending(s)',
         \A t \in Slots \ {s} : Pending(t)' => ~slot'[t].alone
  PROVE  AloneIsAlone' /\ AnswerIsTheCart' /\ EditsStayVisible'
<1>1. \A t \in Slots : Pending(t)' => ~slot'[t].alone
  OBVIOUS
<1>2. QED
  BY <1>1 DEF AloneIsAlone, AnswerIsTheCart, EditsStayVisible, Pending

LEMMA SettleKeeps ==
  ASSUME TabInv, NEW s \in Slots, Busy(s),
         NEW x \in {Idle} \cup Mutations, x.at \in {"idle", "late"}, Settle(s, x),
         UNCHANGED <<user, basket, stray>>, cache' \in Carts \cup {Nothing}, failed' \in BOOLEAN
  PROVE  TabInv'
<1> USE DEF TabInv
<1>1. CASE /\ user # Nobody
           /\ StartGet
           /\ slot' = [Overlapped EXCEPT ![s] = x]
  <2>1. get' = [at |-> "sent", user |-> user] /\ blurred' = FALSE
    BY <1>1 DEF StartGet
  <2>2. slot'[s] = x /\ \A t \in Slots \ {s} : slot'[t] = Overlapped[t]
    BY <1>1, OverlappedType
  <2>3. TypeOK'
    BY <1>1, <2>1, OverlappedType DEF TypeOK
  <2>4. CacheIsRightOrOwed' /\ FetchIsRightOrOwed' /\ FetchIsOwn'
    BY <2>1 DEF CacheIsRightOrOwed, FetchIsRightOrOwed, FetchIsOwn
  <2>5. /\ ~Pending(s)'
        /\ \A t \in Slots \ {s} : Pending(t)' => ~slot'[t].alone
    BY <2>2, OverlappedIs DEF Pending
  <2>6. QED BY <2>3, <2>4, <2>5, EndClaims
<1>2. CASE /\ blurred' = (blurred \/ user # Nobody)
           /\ slot' = [slot EXCEPT ![s] = x]
           /\ UNCHANGED get
  <2>1. user' = Nobody \/ blurred'
    BY <1>2, Zenon
  <2>2. slot'[s] = x /\ \A t \in Slots \ {s} : slot'[t] = slot[t]
    BY <1>2 DEF TypeOK
  <2>3. blurred' \in BOOLEAN
    BY <1>2
  <2>4. TypeOK'
    BY <1>2, <2>3 DEF TypeOK
  <2>5. CacheIsRightOrOwed' /\ FetchIsRightOrOwed' /\ FetchIsOwn'
    BY <1>2, <2>1 DEF CacheIsRightOrOwed, FetchIsRightOrOwed, FetchIsOwn
  <2>6. /\ ~Pending(s)'
        /\ \A t \in Slots \ {s} : Pending(t)' => ~slot'[t].alone
    BY <2>2, NobodyElseIsAlone DEF Pending
  <2>7. QED BY <2>4, <2>5, <2>6, EndClaims
<1>3. QED BY <1>1, <1>2 DEF Settle

LEMMA EndKeeps ==
  ASSUME TabInv, NEW s \in Slots, Busy(s),
         NEW x \in {Idle} \cup Mutations, x.at \in {"idle", "late"},
         slot' = [slot EXCEPT ![s] = x],
         UNCHANGED <<user, basket, stray, get>>, cache' \in Carts \cup {Nothing},
         failed' \in BOOLEAN, blurred' \in BOOLEAN,
         CacheIsRightOrOwed', FetchIsRightOrOwed'
  PROVE  TabInv'
<1>1. slot'[s] = x /\ \A t \in Slots \ {s} : slot'[t] = slot[t]
  BY DEF TabInv, TypeOK
<1>2. TypeOK'
  BY DEF TabInv, TypeOK
<1>3. FetchIsOwn'
  BY DEF TabInv, FetchIsOwn
<1>4. /\ ~Pending(s)'
      /\ \A t \in Slots \ {s} : Pending(t)' => ~slot'[t].alone
  BY <1>1, NobodyElseIsAlone DEF TabInv, Pending
<1>5. QED
  BY <1>2, <1>3, <1>4, EndClaims DEF TabInv

LEMMA SucceedKeeps ==
  ASSUME TabInv, NEW s \in Slots, Succeed(s)
  PROVE  TabInv'
<1>1. /\ slot[s] \in Mutations /\ slot[s].at = "done" /\ Busy(s)
      /\ UNCHANGED <<user, basket, stray>>
      /\ Idle \in {Idle} \cup Mutations /\ Idle.at = "idle"
  BY PendingType DEF TabInv, Succeed, Busy, Idle
<1>2. CASE Settle(s, Idle) /\ UNCHANGED <<cache, failed>>
  BY <1>1, <1>2, SettleKeeps DEF TabInv, TypeOK
<1>3. CASE /\ slot[s].op \in {"add", "clear"}
           /\ cache' = CartOf(slot[s].user, IF slot[s].op = "add" THEN slot[s].reply ELSE NoLines)
           /\ failed' = FALSE
           /\ slot' = [slot EXCEPT ![s] = Idle]
           /\ blurred' = (blurred \/ ~slot[s].alone)
           /\ UNCHANGED get
  <2>1. /\ cache'.owner = slot[s].user
        /\ cache'.lines = IF slot[s].op = "add" THEN slot[s].reply ELSE NoLines
    BY <1>3 DEF CartOf
  <2>2. cache' \in Carts
    BY <1>1, <1>3, CartType, NoLinesType DEF Mutations
  <2>3. ~blurred' => slot[s].alone
    BY <1>3, Zenon
  <2>4. slot[s].alone => get.at = "none"
    BY <1>1 DEF TabInv, AloneIsAlone, Pending
  <2>5. slot[s].alone => cache'.lines = basket[slot[s].user]
    BY <1>1, <1>3, <2>1 DEF TabInv, AnswerIsTheCart
  <2>6. CacheIsRightOrOwed' /\ FetchIsRightOrOwed'
    BY <1>1, <1>3, <2>1, <2>3, <2>4, <2>5 DEF CacheIsRightOrOwed, FetchIsRightOrOwed
  <2>7. blurred' \in BOOLEAN
    BY <1>3
  <2>8. QED BY <1>1, <1>3, <2>2, <2>6, <2>7, EndKeeps
<1>4. QED
  BY <1>2, <1>3 DEF Succeed
LEMMA FailIs ==
  ASSUME TabInv, NEW s \in Slots, Fail(s)
  PROVE  \E x \in {Idle} \cup Mutations :
           /\ slot[s] \in Mutations /\ Pending(s)
           /\ x.at \in {"idle", "late"}
           /\ UNCHANGED <<user, basket, stray>>
           /\ \/ /\ slot[s].op \in Edits
                 /\ cache' = slot[s].prior /\ failed' = FALSE
                 /\ Settle(s, x)
              \/ /\ slot[s].op \notin Edits
                 /\ slot' = [slot EXCEPT ![s] = x]
                 /\ blurred' = (blurred \/ slot[s].at = "done")
                 /\ UNCHANGED <<cache, failed, get>>
<1> DEFINE late == [slot[s] EXCEPT !.at = "late", !.prior = Nothing, !.alone = FALSE]
<1>1. slot[s] \in Mutations /\ Pending(s)
  BY PendingType DEF TabInv, Fail, Pending
<1>2. late \in Mutations /\ late.at = "late"
  BY <1>1 DEF Mutations
<1>3. Idle.at = "idle"
  BY DEF Idle
<1> HIDE DEF late
<1>4. PICK x \in {Idle, late} :
           \/ /\ slot[s].op \in Edits
              /\ cache' = slot[s].prior
              /\ failed' = FALSE
              /\ Settle(s, x)
           \/ /\ slot[s].op \notin Edits
              /\ slot' = [slot EXCEPT ![s] = x]
              /\ blurred' = (blurred \/ slot[s].at = "done")
              /\ UNCHANGED <<cache, failed, get>>
  BY DEF Fail, late
<1>5. UNCHANGED <<user, basket, stray>>
  BY DEF Fail
<1>6. QED
  BY <1>1, <1>2, <1>3, <1>4, <1>5

LEMMA FailKeeps ==
  ASSUME TabInv, NEW s \in Slots, Fail(s)
  PROVE  TabInv'
<1>1. PICK x \in {Idle} \cup Mutations :
           /\ slot[s] \in Mutations /\ Pending(s)
           /\ x.at \in {"idle", "late"}
           /\ UNCHANGED <<user, basket, stray>>
           /\ \/ /\ slot[s].op \in Edits
                 /\ cache' = slot[s].prior /\ failed' = FALSE
                 /\ Settle(s, x)
              \/ /\ slot[s].op \notin Edits
                 /\ slot' = [slot EXCEPT ![s] = x]
                 /\ blurred' = (blurred \/ slot[s].at = "done")
                 /\ UNCHANGED <<cache, failed, get>>
  BY FailIs
<1>2. Busy(s)
  BY <1>1 DEF Busy, Pending
<1>3. CASE slot[s].op \in Edits
  <2>1. cache' \in Carts \cup {Nothing} /\ failed' \in BOOLEAN
    BY <1>1, <1>3 DEF Mutations
  <2>2. QED BY <1>1, <1>2, <1>3, <2>1, SettleKeeps
<1>4. CASE slot[s].op \notin Edits
  <2>1. slot' = [slot EXCEPT ![s] = x] /\ UNCHANGED <<cache, failed, get>>
    BY <1>1, <1>4
  <2>2. \A t \in Slots \ {s} : slot'[t] = slot[t]
    BY <2>1 DEF TabInv, TypeOK
  <2>3. ~blurred' => ~blurred /\ slot[s].at # "done"
    BY <1>1, <1>4, Zenon
  <2>4. slot[s].at # "done" /\ Owing => Owing'
    BY <1>4, <2>2 DEF Owing, Pending
  <2>5. CacheIsRightOrOwed' /\ FetchIsRightOrOwed'
    BY <1>1, <2>1, <2>3, <2>4 DEF TabInv, CacheIsRightOrOwed, FetchIsRightOrOwed
  <2>6. cache' \in Carts \cup {Nothing} /\ failed' \in BOOLEAN /\ blurred' \in BOOLEAN
    BY <1>1, <1>4 DEF TabInv, TypeOK
  <2>7. QED BY <1>1, <1>2, <2>1, <2>5, <2>6, EndKeeps
<1>5. QED BY <1>3, <1>4

-------------------------------------------------------------------------------
LEMMA TabInit ==
  ASSUME Init
  PROVE  TabInv
<1>1. TypeOK
  BY NoLinesType DEF Init, TypeOK, NoGet, Idle
<1>2. \A s \in Slots : slot[s].at = "idle"
  BY DEF Init, Idle
<1>3. QED
  BY <1>1, <1>2 DEF Init, TabInv, CacheIsRightOrOwed, FetchIsRightOrOwed, FetchIsOwn,
     AloneIsAlone, AnswerIsTheCart, EditsStayVisible, Pending, NoGet

LEMMA TabStep ==
  ASSUME TabInv, [Next]_vars
  PROVE  TabInv'
<1>1. CASE (\E u \in Users : SignIn(u)) \/ LogOut \/ LogOutInHeader
  BY <1>1, SessionKeeps
<1>2. CASE Mount
  BY <1>2, MountKeeps
<1>3. CASE ServeGet \/ GetAnswered \/ GetFails
  BY <1>3, FetchKeeps
<1>4. ASSUME NEW s \in Slots, NEW p \in Products, ChangeQuantity(s, p) \/ Remove(s, p)
      PROVE  TabInv'
  <2>1. PICK op \in Edits, q \in Nat : Edit(s, op, p, q)
    BY <1>4, ChangeIsEdit DEF TabInv
  <2>2. QED BY <2>1, EditKeeps
<1>5. ASSUME NEW s \in Slots, (\E p \in Products : AddToCart(s, p)) \/ Clear(s) \/ PlaceOrder(s)
      PROVE  TabInv'
  <2>1. PICK op \in Ops \ Edits, p \in Products \cup {Nothing} : Request(s, op, p)
    BY <1>5, AskIsRequest DEF TabInv
  <2>2. QED BY <2>1, RequestKeeps
<1>6. ASSUME NEW s \in Slots, Accept(s) \/ Refuse(s) \/ Succeed(s) \/ Fail(s)
      PROVE  TabInv'
  BY <1>6, AcceptKeeps, RefuseKeeps, SucceedKeeps, FailKeeps
<1>7. ASSUME NEW u \in Users, ServeStray(u)
      PROVE  TabInv'
  BY <1>7, StrayKeeps
<1>8. CASE UNCHANGED vars
  BY <1>8 DEF vars, TabInv, TypeOK, CacheIsRightOrOwed, FetchIsRightOrOwed, FetchIsOwn,
     AloneIsAlone, AnswerIsTheCart, EditsStayVisible, Pending, Busy, Owing
<1>9. QED
  BY <1>1, <1>2, <1>3, <1>4, <1>5, <1>6, <1>7, <1>8 DEF Next

(* The inductive invariant of the tab, for any users, products, stock and  *)
(* number of mutation hooks.                                               *)
THEOREM TabSafety == Spec => []TabInv
<1>1. Init => TabInv
  BY TabInit
<1>2. TabInv /\ [Next]_vars => TabInv'
  BY TabStep
<1>3. QED
  BY <1>1, <1>2, PTL DEF Spec

(* Once nothing is under way, the tab shows the cart the service keeps,    *)
(* but after an overlapped answer or a request that was served late.       *)
THEOREM SettledCart == Spec => []SettledCartIsRight
<1>1. TabInv => SettledCartIsRight
  <2>1. Quiet => ~Owing
    BY DEF Quiet, Owing, Pending, Busy
  <2>2. QED BY <2>1 DEF TabInv, CacheIsRightOrOwed, SettledCartIsRight, Quiet
<1>2. QED
  BY <1>1, TabSafety, PTL

(* No fetch begun before an edit that nothing overlaps brings the old      *)
(* quantity back.                                                          *)
THEOREM EditsShown == Spec => []EditsStayVisible
<1>1. TabInv => EditsStayVisible
  BY DEF TabInv
<1>2. QED
  BY <1>1, TabSafety, PTL

-------------------------------------------------------------------------------
LEMMA ShowsOwnStep ==
  ASSUME TabInv, [Next]_vars, ShowsOwn, ~ShowsOwn'
  PROVE  \E s \in Slots : Pending(s) /\ Foreign(slot[s]) /\ ~Pending(s)'
<1>1. user' # Nobody /\ cache' # Nothing /\ cache'.owner # user'
  BY DEF ShowsOwn
<1>2. ~UNCHANGED <<user, cache>>
  BY <1>1 DEF ShowsOwn
<1>3. ~\E u \in Users : SignIn(u) \/ ServeStray(u)
  BY <1>1, <1>2 DEF SignIn, ServeStray
<1>4. ~LogOut /\ ~LogOutInHeader
  BY <1>1 DEF LogOut, LogOutInHeader
<1>5. ~Mount /\ ~ServeGet /\ ~GetFails
  BY <1>2 DEF Mount, ServeGet, GetFails
<1>6. ~GetAnswered
  BY <1>1 DEF GetAnswered, TabInv, FetchIsOwn
<1>7. ASSUME NEW s \in Slots, NEW p \in Products
      PROVE  ~ChangeQuantity(s, p) /\ ~Remove(s, p)
  <2>1. SUFFICES ASSUME ChangeQuantity(s, p) \/ Remove(s, p) PROVE FALSE
    OBVIOUS
  <2>2. PICK op \in Edits, q \in Nat : Edit(s, op, p, q)
    BY <2>1, ChangeIsEdit DEF TabInv
  <2>3. cache \in Carts
    BY <2>2 DEF Edit, TabInv, TypeOK
  <2>4. cache'.owner = cache.owner /\ user' = user /\ cache # Nothing
    BY <2>2, <2>3 DEF Edit, Carts
  <2>5. QED BY <1>1, <2>4 DEF ShowsOwn
<1>8. ASSUME NEW s \in Slots
      PROVE  /\ ~\E p \in Products : AddToCart(s, p)
             /\ ~Clear(s) /\ ~PlaceOrder(s)
             /\ ~Accept(s) /\ ~Refuse(s)
  BY <1>2 DEF AddToCart, Clear, PlaceOrder, Request, Accept, Refuse
<1>9. PICK s \in Slots : Succeed(s) \/ Fail(s)
  BY <1>2, <1>3, <1>4, <1>5, <1>6, <1>7, <1>8 DEF Next, vars
<1>10. CASE Succeed(s)
  <2>1. cache' = CartOf(slot[s].user, IF slot[s].op = "add" THEN slot[s].reply ELSE NoLines)
        /\ slot' = [slot EXCEPT ![s] = Idle] /\ slot[s].at = "done" /\ user' = user
    BY <1>2, <1>10 DEF Succeed
  <2>2. slot'[s].at = "idle"
    BY <2>1 DEF TabInv, TypeOK, Idle
  <2>3. slot[s].user # user
    BY <1>1, <2>1 DEF CartOf
  <2>4. QED BY <2>1, <2>2, <2>3 DEF Pending, Foreign
<1>11. CASE Fail(s)
  <2>1. PICK x \in {Idle} \cup Mutations :
           /\ slot[s] \in Mutations /\ Pending(s)
           /\ x.at \in {"idle", "late"}
           /\ UNCHANGED <<user, basket, stray>>
           /\ \/ /\ slot[s].op \in Edits
                 /\ cache' = slot[s].prior /\ failed' = FALSE
                 /\ Settle(s, x)
              \/ /\ slot[s].op \notin Edits
                 /\ slot' = [slot EXCEPT ![s] = x]
                 /\ blurred' = (blurred \/ slot[s].at = "done")
                 /\ UNCHANGED <<cache, failed, get>>
    BY <1>11, FailIs
  <2>2. cache' = slot[s].prior /\ Settle(s, x) /\ user' = user
    BY <1>2, <2>1
  <2>3. slot'[s] = x
    BY <2>2, OverlappedType DEF Settle, TabInv, TypeOK
  <2>4. QED BY <1>1, <2>1, <2>2, <2>3 DEF Pending, Foreign
<1>12. QED
  BY <1>9, <1>10, <1>11

(* Whoever signs in is not shown the cart of the one before, but by what   *)
(* the one before had left under way.                                      *)
THEOREM ForeignCartsComeLate == Spec => OnlyLateAnswersShowAnothers
<1>1. TabInv /\ [Next]_vars =>
        [ShowsOwn /\ ~ShowsOwn' =>
           \E s \in Slots : Pending(s) /\ Foreign(slot[s]) /\ ~Pending(s)']_vars
  BY ShowsOwnStep
<1>2. QED
  BY <1>1, TabSafety, PTL DEF Spec, OnlyLateAnswersShowAnothers
===============================================================================
