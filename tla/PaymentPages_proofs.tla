-------------------------- MODULE PaymentPages_proofs --------------------------
(***************************************************************************)
(* What the storefront's pages say of payments, for any number of orders,  *)
(* payments, refunds and pages visited in between.                         *)
(***************************************************************************)
EXTENDS PaymentPages, PaymentService_proofs

USE NoneIsNone, ShopperIsAUser

-------------------------------------------------------------------------------
(* The pages use the services as any caller may.                           *)
LEMMA SubmitPays ==
  ASSUME PagesTypeOK, NEW p \in Payments, Submit(p)
  PROVE  Next
<1>1. view.order \in Orders
  BY DEF Submit, PagesTypeOK, PagesOfOrders
<1>2. Total[view.order] \in Amounts
  BY <1>1, TotalsAreAmounts
<1>3. Pay(p, view.order, Shopper, Total[view.order])
  BY DEF Submit
<1>4. QED BY <1>1, <1>2, <1>3 DEF Next

LEMMA PlaceOrderPlaces ==
  ASSUME NEW o \in Orders, PlaceOrderFromPage(o)
  PROVE  Next
<1>1. OrderServiceStep
  BY DEF PlaceOrderFromPage, OrderServiceStep
<1>2. QED BY <1>1 DEF Next

LEMMA PagesCallServices ==
  ASSUME PagesTypeOK, [PagesNext]_allVars
  PROVE  [Next]_vars
<1>1. CASE ServiceStep
  BY <1>1 DEF ServiceStep, Next
<1>2. CASE \E o \in Orders : PlaceOrderFromPage(o)
  BY <1>2, PlaceOrderPlaces
<1>3. CASE \E p \in Payments : Submit(p)
  BY <1>3, SubmitPays
<1>4. CASE UNCHANGED vars
  BY <1>4
<1>5. CASE \/ \E a \in PagesOfOrders \cup OtherPages, o \in Orders \cup {NoOrder} : Visit(a, o)
           \/ Reload \/ Review
           \/ \E o \in Orders : OrderPlaced(o) \/ OrderAnswerLost(o)
           \/ \E p \in Payments : Report(p) \/ ReportFailure(p)
  BY <1>4, <1>5 DEF Visit, Reload, Review, OrderPlaced, OrderAnswerLost, Report, Told,
                    ReportFailure
<1>6. CASE \E k \in Keys :
             ServeGet(k) \/ GetAnswered(k) \/ GetFails(k) \/ GrowsStale(k) \/ Refetch(k)
  BY <1>4, <1>6 DEF ServeGet, GetAnswered, GetFails, GrowsStale, Refetch
<1>7. CASE UNCHANGED allVars
  BY <1>4, <1>7 DEF allVars
<1>8. QED BY <1>1, <1>2, <1>3, <1>5, <1>6, <1>7 DEF PagesNext

-------------------------------------------------------------------------------
(* A call, once made, keeps what it asked for; its outcome, once settled,  *)
(* stands.                                                                 *)
Stands(p) ==
  /\ at[p] # "idle" => at'[p] # "idle" /\ request'[p] = request[p]
  /\ captured[p] => captured'[p]
  /\ row[p] = "FAILED" => row'[p] = "FAILED" /\ captured'[p] = captured[p]
  /\ at[p] = "created" => at'[p] = "created" /\ captured'[p] = captured[p]

LEMMA OwnStepStands ==
  ASSUME PayInv, NEW q \in Payments, ProcessPayment(q)
  PROVE  \A p \in Payments : Stands(p)
<1> USE DEF PayInv, TypeOK, GoTo
<1>1. /\ Progress(q)
      /\ captured[q] => row[q] \in {"PROCESSING", "SUCCESS", "REFUNDED"}
  BY DEF JournalIsTruthful
<1>2. CASE FetchOrder(q)
  BY <1>2 DEF FetchOrder, Stands
<1>3. CASE CreateRow(q)
  BY <1>1, <1>3 DEF CreateRow, Stands, Progress
<1>4. CASE MarkProcessing(q)
  BY <1>1, <1>4 DEF MarkProcessing, Stands, Progress
<1>5. CASE CallGateway(q)
  BY <1>1, <1>5 DEF CallGateway, Stands, Progress
<1>6. CASE SettleRow(q)
  BY <1>1, <1>6 DEF SettleRow, Stands, Progress
<1>7. CASE StepFails(q)
  BY <1>7 DEF StepFails, Stands
<1>8. CASE SendPatch(q)
  BY <1>8 DEF SendPatch, Stands
<1>9. CASE PatchUnsent(q)
  BY <1>9 DEF PatchUnsent, TryAgain, Reply, Stands
<1>10. CASE PatchAnswered(q)
  BY <1>10 DEF PatchAnswered, Reply, Stands
<1>11. CASE PatchFails(q)
  BY <1>11 DEF PatchFails, TryAgain, Reply, Stands
<1>12. CASE BreakerRefuses(q)
  BY <1>12 DEF BreakerRefuses, Reply, Stands
<1>13. QED BY <1>2, <1>3, <1>4, <1>5, <1>6, <1>7, <1>8, <1>9, <1>10, <1>11, <1>12
           DEF ProcessPayment

LEMMA OutcomesStand ==
  ASSUME PayInv, [Next]_vars
  PROVE  \A p \in Payments : Stands(p)
<1>1. CASE OrderServiceStep
  BY <1>1 DEF OrderServiceStep, payVars, Stands
<1>2. CASE \E q \in Payments, o \in Orders, user \in Users, a \in Amounts : Pay(q, o, user, a)
  BY <1>2 DEF Pay, GoTo, Stands, PayInv, TypeOK
<1>3. CASE \E q \in Payments : ProcessPayment(q)
  BY <1>3, OwnStepStands
<1>4. CASE \E r \in Refunds, q \in Payments, user \in Users, a \in Amounts :
             RequestRefund(r, q, user, a)
  BY <1>4 DEF RequestRefund, payVars, Stands
<1>5. CASE \E r \in Refunds : SaveRefund(r)
  <2>1. PICK r \in Refunds : SaveRefund(r)
    BY <1>5
  <2>2. row[refund[r].payment] \in {"SUCCESS", "REFUNDED"}
    BY <2>1 DEF PayInv, RefundsAreOfCharges, SaveRefund
  <2>3. QED BY <2>1, <2>2 DEF SaveRefund, Stands, PayInv, TypeOK
<1>6. CASE \E r \in Refunds : FailRefund(r)
  BY <1>6 DEF FailRefund, payVars, Stands
<1>7. CASE PaymentServiceStops
  BY <1>7 DEF PaymentServiceStops, Stands, Awaits
<1>8. CASE UNCHANGED vars
  BY <1>8 DEF vars, payVars, Stands
<1>9. QED BY <1>1, <1>2, <1>3, <1>4, <1>5, <1>6, <1>7, <1>8 DEF Next

-------------------------------------------------------------------------------
(* Mounting a page asks for what it needs and leaves all else as it was.   *)
LEMMA MountAsks ==
  ASSUME NEW v, NEW c \in [Keys -> Entries], NEW g \in [Keys -> Requests], Mount(v, c, g)
  PROVE  /\ view' = v /\ cache' = c
         /\ get' \in [Keys -> Requests]
         /\ \A k \in Keys : get'[k] = g[k] \/ get'[k].at = "asked"
<1>1. Asked \in Requests /\ Asked.at = "asked"
  BY DEF Asked, NotAsked, Requests, Rows
<1> HIDE DEF Asked, Requests, Entries
<1>2. QED BY <1>1 DEF Mount

(* What the keys held goes stale, and an answer on its way is overtaken.   *)
LEMMA StaleTypes ==
  ASSUME PagesTypeOK, NEW ks
  PROVE  /\ Stale(ks) \in [Keys -> Entries]
         /\ \A k \in Keys :
              /\ Stale(ks)[k].rows = cache[k].rows
              /\ Stale(ks)[k].has = cache[k].has
              /\ Stale(ks)[k].late = cache[k].late
              /\ Stale(ks)[k].dirty = (cache[k].dirty \/ k \in ks)
<1> DEFINE S(k) == [cache[k] EXCEPT !.dirty = @ \/ k \in ks]
<1>1. \A k \in Keys : /\ S(k) \in Entries
                      /\ S(k).rows = cache[k].rows /\ S(k).has = cache[k].has
                      /\ S(k).late = cache[k].late
                      /\ S(k).dirty = (cache[k].dirty \/ k \in ks)
  BY DEF PagesTypeOK, Entries
<1>2. Stale(ks) = [k \in Keys |-> S(k)]
  BY DEF Stale
<1> HIDE DEF S
<1>3. QED BY <1>1, <1>2

LEMMA RefetchedTypes ==
  ASSUME PagesTypeOK, NEW ks
  PROVE  /\ Refetched(ks) \in [Keys -> Requests]
         /\ \A k \in Keys :
              \/ Refetched(ks)[k].at = "asked"
              \/ /\ Refetched(ks)[k].rows = get[k].rows
                 /\ Refetched(ks)[k].at = get[k].at
                 /\ Refetched(ks)[k].late = (get[k].late \/ (k \in ks /\ get[k].at # "idle"))
<1> DEFINE L(k) == [get[k] EXCEPT !.late = @ \/ (k \in ks /\ get[k].at # "idle")]
           A(k) == k \in ks \cap Mounted(view) /\ (cache[k].has \/ get[k].at = "idle")
<1>1. \A k \in Keys : /\ L(k) \in Requests
                      /\ L(k).rows = get[k].rows /\ L(k).at = get[k].at
                      /\ L(k).late = (get[k].late \/ (k \in ks /\ get[k].at # "idle"))
  <2> TAKE k \in Keys
  <2>1. get[k] \in Requests
    BY DEF PagesTypeOK
  <2> QED BY <2>1 DEF Requests
<1>2. Refetched(ks) = [k \in Keys |-> IF A(k) THEN Asked ELSE L(k)]
  BY DEF Refetched
<1>3. Asked \in Requests /\ Asked.at = "asked"
  BY DEF Asked, NotAsked, Requests, Rows
<1> HIDE DEF L, A, Asked, Requests
<1>4. QED BY <1>1, <1>2, <1>3

(* The pages that the actions go to.                                       *)
Pages == [at : PagesOfOrders \cup OtherPages \cup Reports \cup {"review"},
          order : Orders \cup {NoOrder}, payment : Payments \cup {NoPayment}]

LEMMA PageOf ==
  ASSUME NEW a \in PagesOfOrders \cup OtherPages \cup Reports \cup {"review"},
         NEW o \in Orders \cup {NoOrder}, NEW p \in Payments \cup {NoPayment}
  PROVE  /\ Page(a, o, p) \in Pages
         /\ Page(a, o, p).at = a /\ Page(a, o, p).order = o /\ Page(a, o, p).payment = p
  BY DEF Page, Pages

LEMMA FormTakesPayment ==
  ASSUME NEW v \in Pages, NEW p \in Payments
  PROVE  /\ [v EXCEPT !.payment = p] \in Pages
         /\ [v EXCEPT !.payment = p].at = v.at
         /\ [v EXCEPT !.payment = p].order = v.order
         /\ [v EXCEPT !.payment = p].payment = p
  BY DEF Pages

-------------------------------------------------------------------------------
(* Most steps show a page that speaks of no payment, or stay where they    *)
(* are, and forget payments but send none.                                 *)
ViewFollows ==
  /\ pending' \subseteq pending /\ told' = told
  /\ view' = view \/ view'.payment = NoPayment

LEMMA ViewKept ==
  ASSUME PagesInv, [Next]_vars, ViewFollows
  PROVE  ReportsFollowAnswers' /\ SubmittedAreSent'
<1>1. \A p \in Payments : Stands(p)
  BY OutcomesStand DEF PagesInv
<1>2. pending \subseteq Payments /\ view.payment \in Payments \cup {NoPayment}
  BY DEF PagesInv, PagesTypeOK
<1>3. SubmittedAreSent'
  BY <1>1, <1>2 DEF PagesInv, SubmittedAreSent, Sent, Stands, ViewFollows
<1>4. ASSUME view' = view, view.payment # NoPayment
      PROVE  ReportsFollowAnswers'
  <2>1. Stands(view.payment) /\ at[view.payment] # "idle"
    BY <1>1, <1>2, <1>4 DEF PagesInv, SubmittedAreSent, Sent
  <2>2. /\ request'[view.payment] = request[view.payment]
        /\ captured[view.payment] => captured'[view.payment]
        /\ row[view.payment] = "FAILED" =>
             row'[view.payment] = "FAILED" /\ captured'[view.payment] = captured[view.payment]
        /\ view.payment \in told => captured'[view.payment] = captured[view.payment]
    BY <2>1 DEF Stands, PagesInv, ToldAreOver
  <2>3. told' = told
    BY DEF ViewFollows
  <2>4. PICK p : p = view.payment
    OBVIOUS
  <2>5. /\ OrderOf(p) = view.order
        /\ view.at = "confirmed" => p \in told /\ captured[p] /\ request[p].payer = Shopper
        /\ SaysDeclined(view) /\ captured[p] => SaysNotBilled(view) /\ p \notin told
        /\ SaysDeclined(view) /\ ~SaysNotBilled(view) => p \in told /\ row[p] = "FAILED"
    BY <1>4, <2>4 DEF PagesInv, ReportsFollowAnswers
  <2>6. OrderOf(p)' = view.order
    BY <2>2, <2>4, <2>5 DEF OrderOf
  <2>7. SaysDeclined(view) /\ captured'[p] => SaysNotBilled(view) /\ p \notin told
    BY <2>2, <2>4, <2>5
  <2>8. /\ view.at = "confirmed" => p \in told /\ captured'[p] /\ request'[p].payer = Shopper
        /\ SaysDeclined(view) /\ ~SaysNotBilled(view) => p \in told /\ row'[p] = "FAILED"
    BY <2>2, <2>4, <2>5
  <2>9. QED BY <1>4, <2>3, <2>4, <2>6, <2>7, <2>8
            DEF ReportsFollowAnswers, OrderOf, SaysDeclined, SaysNotBilled
<1>5. CASE view'.payment = NoPayment
  BY <1>3, <1>5 DEF ReportsFollowAnswers
<1>6. QED BY <1>3, <1>4, <1>5 DEF ViewFollows

(* What a fresh list shows was fresh before, or its answer has just come;  *)
(* and an answer that was not overtaken says what the service has.         *)
Fresh(k) == cache[k].has /\ ~cache[k].dirty /\ ~cache[k].late
Coming(k) == get[k].at = "served" /\ ~get[k].late

KeyFollows(k) ==
  /\ Fresh(k)' => \/ Fresh(k) /\ cache'[k].rows = cache[k].rows
                  \/ Coming(k) /\ cache'[k].rows = get[k].rows
  /\ Coming(k)' => \/ Coming(k) /\ get'[k].rows = get[k].rows
                   \/ get'[k].rows = Current(k)

(* What the payments' table says of a payment that is over is its outcome. *)
LEMMA TableTellsOutcome ==
  ASSUME PagesInv, NEW p \in told, NEW k \in Keys, Lists(k, p)
  PROVE  TellsOutcome(Current(k), p)
<1>1. p \in Payments /\ at[p] = "created"
  BY DEF PagesInv, PagesTypeOK, ToldAreOver
<1>2. /\ row[p] \in IF captured[p] THEN {"SUCCESS", "REFUNDED"} ELSE {"FAILED"}
      /\ OrderOf(p) \in Orders
  BY <1>1, SMT DEF PagesInv, PayInv, Progress, TypeOK, OrderOf
<1>3. k \in OfPayments
  BY <1>2 DEF Lists, OfPayments
<1>4. QED BY <1>2, <1>3 DEF TellsOutcome, Current, Badge

(* Rows that told of a payment that is over still do.                      *)
LEMMA OutcomeToldStays ==
  ASSUME PagesInv, [Next]_vars, NEW p \in told
  PROVE  /\ p \in Payments /\ at'[p] = "created"
         /\ \A k : Lists(k, p)' <=> Lists(k, p)
         /\ \A rows : TellsOutcome(rows, p) => TellsOutcome(rows, p)'
<1>1. p \in Payments /\ at[p] = "created"
  BY DEF PagesInv, PagesTypeOK, ToldAreOver
<1>2. Stands(p)
  BY <1>1, OutcomesStand DEF PagesInv
<1>3. QED BY <1>1, <1>2 DEF Stands, Lists, OrderOf, TellsOutcome

ListsTell == ToldAreListed /\ AnswersTell

LEMMA KeysKept ==
  ASSUME PagesInv, ListsTell, [Next]_vars, NEW k \in Keys, NEW p \in told,
         KeyFollows(k), Lists(k, p)'
  PROVE  /\ Fresh(k)' => TellsOutcome(cache[k].rows, p)'
         /\ Coming(k)' => TellsOutcome(get[k].rows, p)'
<1>1. Lists(k, p)
  BY OutcomeToldStays
<1>2. /\ Fresh(k) => TellsOutcome(cache[k].rows, p)
      /\ Coming(k) => TellsOutcome(get[k].rows, p)
      /\ TellsOutcome(Current(k), p)
  BY <1>1, TableTellsOutcome DEF ListsTell, ToldAreListed, AnswersTell, Fresh, Coming
<1>3. PICK c, g : c = cache'[k].rows /\ g = get'[k].rows
  OBVIOUS
<1>4. /\ Fresh(k)' => TellsOutcome(c, p)
      /\ Coming(k)' => TellsOutcome(g, p)
  BY <1>2, <1>3 DEF KeyFollows
<1>5. /\ Fresh(k)' => TellsOutcome(c, p)'
      /\ Coming(k)' => TellsOutcome(g, p)'
  BY <1>4, OutcomeToldStays
<1>6. QED BY <1>3, <1>5 DEF TellsOutcome, Badge

(* The lists tell the truth after a step that tells of no new payment.     *)
LEMMA ListsKept ==
  ASSUME PagesInv, ListsTell, [Next]_vars, told' = told, \A p \in told : p \notin pending',
         \A k \in Keys : KeyFollows(k)
  PROVE  ToldAreOver' /\ ListsTell'
<1>1. ToldAreOver'
  BY OutcomeToldStays DEF ToldAreOver
<1>2. \A k \in Keys, p \in told :
        Lists(k, p)' => /\ Fresh(k)' => TellsOutcome(cache[k].rows, p)'
                        /\ Coming(k)' => TellsOutcome(get[k].rows, p)'
  BY KeysKept
<1>3. QED BY <1>1, <1>2 DEF ListsTell, ToldAreListed, AnswersTell, Fresh, Coming

-------------------------------------------------------------------------------
(* Nothing the tab holds gets fresher by the page that it shows.           *)
NoFresher(c, g) ==
  \A k \in Keys :
    /\ c[k].has /\ ~c[k].dirty /\ ~c[k].late => Fresh(k) /\ c[k].rows = cache[k].rows
    /\ g[k].at = "served" /\ ~g[k].late => Coming(k) /\ g[k].rows = get[k].rows

LEMMA MountFollows ==
  ASSUME PagesTypeOK, NEW v \in Pages, v.at \in PagesOfOrders => v.order \in Orders,
         NEW c \in [Keys -> Entries], NEW g \in [Keys -> Requests], NoFresher(c, g),
         Mount(v, c, g), placing' \subseteq Orders, pending' \subseteq Payments,
         told' \subseteq Payments
  PROVE  PagesTypeOK' /\ \A k \in Keys : KeyFollows(k)
<1>1. /\ view' = v /\ cache' = c
      /\ get' \in [Keys -> Requests]
      /\ \A k \in Keys : get'[k] = g[k] \/ get'[k].at = "asked"
  BY MountAsks
<1>2. PagesTypeOK'
  BY <1>1 DEF PagesTypeOK, Pages, Entries, Requests, Rows, Statuses
<1>3. \A k \in Keys : KeyFollows(k)
  BY <1>1 DEF KeyFollows, NoFresher, Fresh, Coming
<1>4. QED BY <1>2, <1>3

LEMMA SameIsNoFresher == NoFresher(cache, get)
  BY DEF NoFresher, Fresh, Coming

LEMMA NothingIsNoFresher ==
  LET c == [k \in Keys |-> Absent]
      g == [k \in Keys |-> NotAsked]
  IN  c \in [Keys -> Entries] /\ g \in [Keys -> Requests] /\ NoFresher(c, g)
  BY DEF NoFresher, Fresh, Coming, Absent, NotAsked, Entries, Requests, Rows

LEMMA StaleIsNoFresher ==
  ASSUME PagesTypeOK, NEW ks
  PROVE  NoFresher(Stale(ks), Refetched(ks))
<1>1. \A k \in Keys : cache[k].dirty \in BOOLEAN /\ get[k].late \in BOOLEAN
  BY DEF PagesTypeOK, Entries, Requests
<1>2. PICK c, g : c = Stale(ks) /\ g = Refetched(ks)
  OBVIOUS
<1>3. \A k \in Keys :
        /\ c[k].rows = cache[k].rows /\ c[k].has = cache[k].has
        /\ c[k].late = cache[k].late /\ c[k].dirty = (cache[k].dirty \/ k \in ks)
        /\ \/ g[k].at = "asked"
           \/ /\ g[k].rows = get[k].rows /\ g[k].at = get[k].at
              /\ g[k].late = (get[k].late \/ (k \in ks /\ get[k].at # "idle"))
  BY <1>2, StaleTypes, RefetchedTypes
<1>4. NoFresher(c, g)
  BY <1>1, <1>3 DEF NoFresher, Fresh, Coming
<1>5. QED BY <1>2, <1>4

-------------------------------------------------------------------------------
(* One lemma per action of the tab that tells of no payment.               *)
Quietly ==
  /\ PagesTypeOK' /\ ViewFollows /\ told' = told
  /\ \A k \in Keys : KeyFollows(k)

LEMMA VisitStep ==
  ASSUME PagesTypeOK, NEW a \in PagesOfOrders \cup OtherPages,
         NEW o \in Orders \cup {NoOrder}, Visit(a, o)
  PROVE  Quietly
<1>1. PICK v : v = Page(a, o, NoPayment)
  OBVIOUS
<1>2. v \in Pages /\ v.at = a /\ v.order = o /\ v.payment = NoPayment
  BY <1>1, PageOf
<1>3. a \in PagesOfOrders => o \in Orders
  BY DEF Visit, PagesOfOrders, OtherPages
<1>4. Mount(v, cache, get) /\ placing' = placing /\ pending' = pending /\ told' = told
  BY <1>1 DEF Visit
<1>5. PagesTypeOK' /\ \A k \in Keys : KeyFollows(k)
  BY <1>2, <1>3, <1>4, MountFollows, SameIsNoFresher DEF PagesTypeOK
<1>6. QED BY <1>2, <1>4, <1>5 DEF Quietly, ViewFollows, Mount

LEMMA ReviewStep ==
  ASSUME PagesTypeOK, Review
  PROVE  Quietly
<1>1. PICK v : v = Page("review", NoOrder, NoPayment)
  OBVIOUS
<1>2. v \in Pages /\ v.at = "review" /\ v.payment = NoPayment
  BY <1>1, PageOf
<1>3. Mount(v, cache, get) /\ placing' = placing /\ pending' = pending /\ told' = told
  BY <1>1 DEF Review
<1>4. PagesTypeOK' /\ \A k \in Keys : KeyFollows(k)
  BY <1>2, <1>3, MountFollows, SameIsNoFresher DEF PagesTypeOK, PagesOfOrders
<1>5. QED BY <1>2, <1>3, <1>4 DEF Quietly, ViewFollows, Mount

LEMMA ReloadStep ==
  ASSUME PagesTypeOK, Reload
  PROVE  Quietly
<1>1. PICK v, c, g : /\ Mount(v, c, g)
                     /\ v = CASE view.at = "review" -> Page("checkout", NoOrder, NoPayment)
                              [] view.at = "form"   -> Page("form", view.order, NoPayment)
                              [] OTHER              -> view
                     /\ c = [k \in Keys |-> Absent] /\ g = [k \in Keys |-> NotAsked]
  BY DEF Reload
<1>2. /\ v \in Pages
      /\ v.at \in PagesOfOrders => v.order \in Orders
      /\ v = view \/ v.payment = NoPayment
  <2>1. /\ Page("checkout", NoOrder, NoPayment) \in Pages
        /\ Page("checkout", NoOrder, NoPayment).at = "checkout"
        /\ Page("checkout", NoOrder, NoPayment).payment = NoPayment
    BY PageOf DEF OtherPages
  <2>2. view.at = "form" => /\ Page("form", view.order, NoPayment) \in Pages
                            /\ Page("form", view.order, NoPayment).order \in Orders
                            /\ Page("form", view.order, NoPayment).payment = NoPayment
    <3>1. view.at = "form" => view.order \in Orders
      BY DEF PagesTypeOK, PagesOfOrders
    <3>2. "form" \in PagesOfOrders
      BY DEF PagesOfOrders
    <3>3. QED BY <3>1, <3>2, PageOf
  <2>3. view \in Pages /\ (view.at \in PagesOfOrders => view.order \in Orders)
    BY DEF PagesTypeOK, Pages
  <2>4. CASE view.at = "review"
    BY <1>1, <2>1, <2>4 DEF PagesOfOrders
  <2>5. CASE view.at = "form"
    BY <1>1, <2>2, <2>5
  <2>6. CASE view.at \notin {"review", "form"}
    <3>1. v = view
      BY <1>1, <2>6
    <3>2. QED BY <2>3, <3>1
  <2>7. QED BY <2>4, <2>5, <2>6
<1>3. placing' = {} /\ pending' = {} /\ told' = told
  BY DEF Reload
<1>4. PagesTypeOK' /\ \A k \in Keys : KeyFollows(k)
  <2>1. c \in [Keys -> Entries] /\ g \in [Keys -> Requests] /\ NoFresher(c, g)
    BY <1>1, NothingIsNoFresher
  <2>2. QED BY <1>1, <1>2, <1>3, <2>1, MountFollows DEF PagesTypeOK
<1>5. QED BY <1>1, <1>2, <1>3, <1>4 DEF Quietly, ViewFollows, Mount

LEMMA PlaceOrderFromPageStep ==
  ASSUME PagesTypeOK, NEW o \in Orders,
         PlaceOrderFromPage(o) \/ OrderAnswerLost(o)
  PROVE  Quietly
<1>1. UNCHANGED <<pending, cache, get, told>> /\ placing' \subseteq Orders
  BY DEF PlaceOrderFromPage, OrderAnswerLost, PagesTypeOK
<1>2. view \in Pages /\ (view.at \in PagesOfOrders => view.order \in Orders)
  BY DEF PagesTypeOK, Pages
<1>3. PICK v, w : v = Page("review", o, NoPayment) /\ w = Page("review", NoOrder, NoPayment)
  OBVIOUS
<1>4. view' = view \/ view' = v \/ view' = w
  BY <1>3 DEF PlaceOrderFromPage, OrderAnswerLost
<1>5. /\ view' \in Pages /\ (view'.at \in PagesOfOrders => view'.order \in Orders)
      /\ view' = view \/ view'.payment = NoPayment
  BY <1>2, <1>3, <1>4, PageOf DEF PagesOfOrders
<1>6. PagesTypeOK'
  BY <1>1, <1>5 DEF PagesTypeOK, Pages, Entries, Requests, Rows, Statuses
<1>7. \A k \in Keys : KeyFollows(k)
  BY <1>1 DEF KeyFollows, Fresh, Coming
<1>8. QED BY <1>1, <1>5, <1>6, <1>7 DEF Quietly, ViewFollows

LEMMA OrderPlacedStep ==
  ASSUME PagesTypeOK, NEW o \in Orders, OrderPlaced(o)
  PROVE  Quietly
<1>1. /\ placing' \subseteq Orders /\ pending' = pending /\ told' = told
      /\ pending \subseteq Payments /\ told \subseteq Payments
  BY DEF OrderPlaced, PagesTypeOK
<1>2. PICK v, c, g :
        /\ v = IF view.at = "form" /\ view.order = o THEN view ELSE Page("form", o, NoPayment)
        /\ Mount(v, c, g)
        /\ c = Stale(OfTheirOrders) /\ g = Refetched(OfTheirOrders)
  BY DEF OrderPlaced
<1>3. v \in Pages /\ v.order = o /\ (v = view \/ v.payment = NoPayment)
  <2>1. view \in Pages
    BY DEF PagesTypeOK, Pages
  <2>2. QED BY <1>2, <2>1, PageOf DEF PagesOfOrders
<1>4. c \in [Keys -> Entries] /\ g \in [Keys -> Requests] /\ NoFresher(c, g)
  BY <1>2, StaleTypes, RefetchedTypes, StaleIsNoFresher
<1>5. PagesTypeOK' /\ \A k \in Keys : KeyFollows(k)
  BY <1>1, <1>2, <1>3, <1>4, MountFollows
<1>6. QED BY <1>1, <1>2, <1>3, <1>5 DEF Quietly, ViewFollows, Mount

LEMMA TabRests ==
  ASSUME PagesTypeOK, UNCHANGED pageVars
  PROVE  Quietly
  BY DEF pageVars, Quietly, ViewFollows, KeyFollows, Fresh, Coming, PagesTypeOK,
         Entries, Requests, Rows, Statuses

(* A step that moves one request or one entry.                             *)
LEMMA KeyStep ==
  ASSUME PagesTypeOK, UNCHANGED <<view, placing, pending, told>>, NEW k \in Keys,
         NEW e \in Entries, NEW q \in Requests,
         cache' = [cache EXCEPT ![k] = e], get' = [get EXCEPT ![k] = q], KeyFollows(k)
  PROVE  Quietly
<1>1. \A j \in Keys \ {k} : cache'[j] = cache[j] /\ get'[j] = get[j]
  BY DEF PagesTypeOK
<1>2. \A j \in Keys : KeyFollows(j)
  BY <1>1 DEF KeyFollows, Fresh, Coming
<1>3. PagesTypeOK'
  BY DEF PagesTypeOK, Entries, Requests, Rows, Statuses
<1>4. QED BY <1>2, <1>3 DEF Quietly, ViewFollows

LEMMA SameKey ==
  ASSUME PagesTypeOK, NEW k \in Keys
  PROVE  /\ cache[k] \in Entries /\ cache = [cache EXCEPT ![k] = cache[k]]
         /\ get[k] \in Requests /\ get = [get EXCEPT ![k] = get[k]]
  BY DEF PagesTypeOK

LEMMA ServeGetStep ==
  ASSUME PagesTypeOK, TypeOK, NEW k \in Keys, ServeGet(k)
  PROVE  Quietly
<1>1. Current(k) \in Rows
  BY DEF Current, Rows, TypeOK, OrderTypeOK
<1>2. PICK q : q = [get[k] EXCEPT !.at = "served", !.rows = Current(k)]
  OBVIOUS
<1>3. q \in Requests /\ q.rows = Current(k)
  BY <1>1, <1>2, SameKey DEF Requests
<1>4. cache' = [cache EXCEPT ![k] = cache[k]] /\ get' = [get EXCEPT ![k] = q]
  BY <1>2, SameKey DEF ServeGet
<1>5. KeyFollows(k)
  BY <1>3, <1>4, SameKey DEF KeyFollows, Fresh, PagesTypeOK, ServeGet
<1>6. UNCHANGED <<view, placing, pending, told>>
  BY DEF ServeGet
<1>7. QED BY <1>3, <1>4, <1>5, <1>6, KeyStep, SameKey

LEMMA GetAnsweredStep ==
  ASSUME PagesTypeOK, NEW k \in Keys, GetAnswered(k)
  PROVE  Quietly
<1>1. PICK e : e = [Absent EXCEPT !.rows = get[k].rows, !.has = TRUE, !.late = get[k].late]
  OBVIOUS
<1>2. e \in Entries /\ e.rows = get[k].rows /\ e.late = get[k].late
  BY <1>1, SameKey DEF Absent, Entries, Requests, Rows
<1>3. NotAsked \in Requests /\ NotAsked.at = "idle"
  BY DEF NotAsked, Requests, Rows
<1>4. cache' = [cache EXCEPT ![k] = e] /\ get' = [get EXCEPT ![k] = NotAsked]
  BY <1>1 DEF GetAnswered
<1>5. cache'[k] = e /\ get'[k] = NotAsked
  BY <1>4 DEF PagesTypeOK
<1>6. KeyFollows(k)
  BY <1>2, <1>3, <1>5 DEF KeyFollows, Fresh, Coming, GetAnswered
<1>7. UNCHANGED <<view, placing, pending, told>>
  BY DEF GetAnswered
<1>8. QED BY <1>2, <1>3, <1>4, <1>6, <1>7, KeyStep

LEMMA GetFailsStep ==
  ASSUME PagesTypeOK, NEW k \in Keys, GetFails(k)
  PROVE  Quietly
<1>1. PICK e : e = [cache[k] EXCEPT !.failed = cache[k].has]
  OBVIOUS
<1>2. /\ e \in Entries /\ e.rows = cache[k].rows
      /\ e.has = cache[k].has /\ e.dirty = cache[k].dirty /\ e.late = cache[k].late
  BY <1>1, SameKey DEF Entries
<1>3. NotAsked \in Requests /\ NotAsked.at = "idle"
  BY DEF NotAsked, Requests, Rows
<1>4. cache' = [cache EXCEPT ![k] = e] /\ get' = [get EXCEPT ![k] = NotAsked]
  BY <1>1 DEF GetFails
<1>5. cache'[k] = e /\ get'[k] = NotAsked
  BY <1>4 DEF PagesTypeOK
<1>6. KeyFollows(k)
  BY <1>2, <1>3, <1>5 DEF KeyFollows, Fresh, Coming
<1>7. UNCHANGED <<view, placing, pending, told>>
  BY DEF GetFails
<1>8. QED BY <1>2, <1>3, <1>4, <1>6, <1>7, KeyStep

LEMMA GrowsStaleStep ==
  ASSUME PagesTypeOK, NEW k \in Keys, GrowsStale(k)
  PROVE  Quietly
<1>1. PICK e : e = [cache[k] EXCEPT !.dirty = TRUE]
  OBVIOUS
<1>2. e \in Entries /\ e.dirty = TRUE
  BY <1>1, SameKey DEF Entries
<1>3. cache' = [cache EXCEPT ![k] = e] /\ get' = [get EXCEPT ![k] = get[k]]
  BY <1>1, SameKey DEF GrowsStale
<1>4. cache'[k] = e /\ get'[k] = get[k]
  BY <1>3 DEF PagesTypeOK
<1>5. KeyFollows(k)
  BY <1>2, <1>4 DEF KeyFollows, Fresh, Coming
<1>6. UNCHANGED <<view, placing, pending, told>>
  BY DEF GrowsStale
<1>7. QED BY <1>2, <1>3, <1>5, <1>6, SameKey, KeyStep

LEMMA RefetchStep ==
  ASSUME PagesTypeOK, NEW k \in Keys, Refetch(k)
  PROVE  Quietly
<1>1. Asked \in Requests /\ Asked.at = "asked"
  BY DEF Asked, NotAsked, Requests, Rows
<1>2. cache' = [cache EXCEPT ![k] = cache[k]] /\ get' = [get EXCEPT ![k] = Asked]
  BY SameKey DEF Refetch
<1>3. cache'[k] = cache[k] /\ get'[k] = Asked
  BY <1>2 DEF PagesTypeOK
<1>4. KeyFollows(k)
  BY <1>1, <1>3 DEF KeyFollows, Fresh, Coming
<1>5. UNCHANGED <<view, placing, pending, told>>
  BY DEF Refetch
<1>6. QED BY <1>1, <1>2, <1>4, <1>5, SameKey, KeyStep

-------------------------------------------------------------------------------
(* The steps of a payment: it is submitted, fails, or its answer is in.    *)
LEMMA SubmitStep ==
  ASSUME PagesInv, ListsTell, NEW p \in Payments, Submit(p)
  PROVE  PagesTypeOK' /\ ReportsFollowAnswers' /\ SubmittedAreSent' /\ ToldAreOver' /\ ListsTell'
<1>1. PagesTypeOK /\ TypeOK
  BY DEF PagesInv, PayInv
<1>2. [Next]_vars
  BY <1>1, SubmitPays
<1>3. PICK v : v = [view EXCEPT !.payment = p]
  OBVIOUS
<1>4. v \in Pages /\ v.at = "form" /\ v.order = view.order /\ v.payment = p
  BY <1>1, <1>3, FormTakesPayment DEF Submit, PagesTypeOK, Pages
<1>5. view' = v /\ pending' = pending \cup {p} /\ UNCHANGED <<placing, cache, get, told>>
  BY <1>3 DEF Submit
<1>6. PagesTypeOK'
  <2>1. view.order \in Orders
    BY <1>1 DEF Submit, PagesTypeOK, PagesOfOrders
  <2>2. QED BY <1>1, <1>4, <1>5, <2>1 DEF PagesTypeOK, Pages, Entries, Requests, Rows, Statuses
<1>7. at'[p] = "fetch" /\ request'[p].payer = Shopper /\ request'[p].order = view.order
  BY <1>1 DEF Submit, Pay, GoTo, TypeOK
<1>8. SubmittedAreSent'
  <2>1. \A q \in pending : Sent(q)'
    BY <1>1, <1>2, OutcomesStand DEF PagesInv, PagesTypeOK, SubmittedAreSent, Sent, Stands
  <2>2. Sent(p)'
    BY <1>7 DEF Sent
  <2>3. QED BY <1>4, <1>5, <2>1, <2>2 DEF SubmittedAreSent
<1>9. ReportsFollowAnswers'
  BY <1>4, <1>5, <1>7 DEF ReportsFollowAnswers, SaysDeclined, OrderOf
<1>10. \A k \in Keys : KeyFollows(k)
  BY <1>5 DEF KeyFollows, Fresh, Coming
<1>11. \A q \in told : q \notin pending'
  BY <1>5 DEF PagesInv, ToldAreOver, Submit, Pay
<1>12. QED BY <1>2, <1>5, <1>6, <1>8, <1>9, <1>10, <1>11, ListsKept

LEMMA ReportFailureStep ==
  ASSUME PagesInv, ListsTell, NEW p \in Payments, ReportFailure(p)
  PROVE  PagesTypeOK' /\ ReportsFollowAnswers' /\ SubmittedAreSent' /\ ToldAreOver' /\ ListsTell'
<1>1. /\ PagesTypeOK /\ TypeOK /\ UNCHANGED vars
      /\ placing' = placing /\ pending' = pending \ {p} /\ told' = told /\ p \notin told
  BY DEF PagesInv, PayInv, ReportFailure, ToldAreOver
<1>2. Sent(p) /\ OrderOf(p) \in Orders
  BY <1>1 DEF PagesInv, PayInv, Progress, SubmittedAreSent, Sent, ReportFailure, TypeOK, OrderOf
<1>3. PICK v : v = Page("failed", OrderOf(p), p)
  OBVIOUS
<1>4. v \in Pages /\ v.at = "failed" /\ v.order = OrderOf(p) /\ v.payment = p
  <2>1. "failed" \in Reports
    BY DEF Reports
  <2>2. QED BY <1>2, <1>3, <2>1, PageOf
<1>5. Mount(v, cache, get) /\ view' = v
  BY <1>3 DEF ReportFailure, Mount
<1>6. PagesTypeOK' /\ \A k \in Keys : KeyFollows(k)
  BY <1>1, <1>4, <1>5, MountFollows, SameIsNoFresher DEF PagesTypeOK, PagesOfOrders
<1>7. SubmittedAreSent'
  BY <1>1, <1>2, <1>4, <1>5 DEF PagesInv, SubmittedAreSent, Sent, vars, payVars
<1>8. ReportsFollowAnswers'
  BY <1>1, <1>4, <1>5 DEF ReportsFollowAnswers, SaysDeclined, SaysNotBilled, OrderOf, vars, payVars
<1>9. \A q \in told : q \notin pending'
  BY <1>1 DEF PagesInv, ToldAreOver
<1>10. QED BY <1>1, <1>6, <1>7, <1>8, <1>9, ListsKept

LEMMA ReportStep ==
  ASSUME PagesInv, ListsTell, NEW p \in Payments, Report(p)
  PROVE  PagesTypeOK' /\ ReportsFollowAnswers' /\ SubmittedAreSent' /\ ToldAreOver' /\ ListsTell'
<1>1. /\ PagesTypeOK /\ TypeOK /\ UNCHANGED vars /\ placing' = placing
      /\ pending' = pending \ {p} /\ told' = told \cup {p} /\ at[p] = "created"
  BY DEF PagesInv, PayInv, Report, Told
<1>2. Sent(p) /\ OrderOf(p) \in Orders
  BY <1>1 DEF PagesInv, PayInv, Progress, SubmittedAreSent, Sent, Report, Told, TypeOK, OrderOf
<1>3. PICK v, c, g : /\ v = Page(Reported(p), OrderOf(p), p)
                     /\ c = Stale(Touched(p)) /\ g = Refetched(Touched(p))
                     /\ Mount(v, c, g)
  BY DEF Report, Told
<1>4. /\ v \in Pages /\ v.at = Reported(p) /\ v.order = OrderOf(p) /\ v.payment = p
      /\ v.at \in {"confirmed", "declined"}
  BY <1>2, <1>3, PageOf DEF Reports, Reported
<1>5. c \in [Keys -> Entries] /\ g \in [Keys -> Requests] /\ NoFresher(c, g)
  BY <1>1, <1>3, StaleTypes, RefetchedTypes, StaleIsNoFresher
<1>6. PagesTypeOK' /\ \A k \in Keys : KeyFollows(k)
  BY <1>1, <1>2, <1>3, <1>4, <1>5, MountFollows DEF PagesTypeOK
<1>7. SubmittedAreSent'
  BY <1>1, <1>2, <1>3, <1>4 DEF Mount, PagesInv, SubmittedAreSent, Sent, vars, payVars
<1>8. ReportsFollowAnswers'
  <2>1. /\ captured[p] = (verdict[p] = "SUCCESS")
        /\ row[p] \in IF captured[p] THEN {"SUCCESS", "REFUNDED"} ELSE {"FAILED"}
    BY <1>1, SMT DEF PagesInv, PayInv, Progress
  <2>2. /\ v.at = "confirmed" => captured[p]
        /\ v.at = "declined" => ~captured[p] /\ row[p] = "FAILED"
    BY <1>4, <2>1 DEF Reported
  <2>3. /\ view' = v /\ captured'[p] = captured[p] /\ row'[p] = row[p]
        /\ request'[p] = request[p]
    BY <1>1, <1>3 DEF Mount, vars, payVars
  <2>4. p \in told'
    BY <1>1
  <2>5. QED BY <1>2, <1>4, <2>2, <2>3, <2>4
            DEF ReportsFollowAnswers, SaysDeclined, SaysNotBilled, Sent, OrderOf
<1>9. ToldAreOver'
  BY <1>1 DEF PagesInv, ToldAreOver, vars, payVars
<1>10. ASSUME NEW k \in Keys, NEW q \in told', Lists(k, q)'
       PROVE  /\ Fresh(k)' => TellsOutcome(cache[k].rows, q)'
              /\ Coming(k)' => TellsOutcome(get[k].rows, q)'
  <2>1. CASE q \in told
    BY <1>1, <1>6, <1>10, <2>1, KeysKept
  <2>2. CASE q = p
    <3>1. k \in Touched(p)
      BY <1>1, <1>10, <2>2 DEF Lists, Touched, OrderOf, vars, payVars
    <3>2. c[k].dirty /\ (g[k].at = "served" => g[k].late)
      <4>1. PICK ks : ks = Touched(p)
        OBVIOUS
      <4>2. c[k].dirty = (cache[k].dirty \/ k \in ks)
        BY <1>1, <1>3, <4>1, StaleTypes
      <4>3. \/ g[k].at = "asked"
            \/ g[k].at = get[k].at /\ g[k].late = (get[k].late \/ (k \in ks /\ get[k].at # "idle"))
        BY <1>1, <1>3, <4>1, RefetchedTypes
      <4>4. QED BY <3>1, <4>1, <4>2, <4>3
    <3>3. cache' = c /\ (get'[k] = g[k] \/ get'[k].at = "asked")
      BY <1>3, <1>5, MountAsks
    <3>4. ~Fresh(k)' /\ ~Coming(k)'
      BY <3>2, <3>3 DEF Fresh, Coming
    <3>5. QED BY <3>4
  <2>3. QED BY <1>1, <2>1, <2>2
<1>11. ListsTell'
  BY <1>10 DEF ListsTell, ToldAreListed, AnswersTell, Fresh, Coming
<1>12. QED BY <1>6, <1>7, <1>8, <1>9, <1>11

-------------------------------------------------------------------------------
LEMMA QuietStep ==
  ASSUME PagesInv, ListsTell, [PagesNext]_allVars,
         ~(\E p \in Payments : Submit(p) \/ Report(p) \/ ReportFailure(p))
  PROVE  Quietly
<1>1. PagesTypeOK /\ TypeOK
  BY DEF PagesInv, PayInv
<1>2. CASE ServiceStep \/ UNCHANGED allVars
  BY <1>1, <1>2, TabRests DEF ServiceStep, allVars
<1>3. CASE \/ \E a \in PagesOfOrders \cup OtherPages, o \in Orders \cup {NoOrder} : Visit(a, o)
           \/ Reload \/ Review
           \/ \E o \in Orders : PlaceOrderFromPage(o) \/ OrderPlaced(o) \/ OrderAnswerLost(o)
  BY <1>1, <1>3, VisitStep, ReloadStep, ReviewStep, PlaceOrderFromPageStep, OrderPlacedStep
<1>4. CASE \E k \in Keys :
             ServeGet(k) \/ GetAnswered(k) \/ GetFails(k) \/ GrowsStale(k) \/ Refetch(k)
  BY <1>1, <1>4, ServeGetStep, GetAnsweredStep, GetFailsStep, GrowsStaleStep, RefetchStep
<1>5. QED BY <1>2, <1>3, <1>4 DEF PagesNext

LEMMA PagesInitInv == PagesInit => PagesInv /\ ListsTell
<1> SUFFICES ASSUME PagesInit PROVE PagesInv /\ ListsTell
  OBVIOUS
<1>1. PayInv
  BY PayInitInv DEF PagesInit
<1>2. PICK c, g : c = [k \in Keys |-> Absent] /\ g = [k \in Keys |-> NotAsked]
  OBVIOUS
<1>3. c \in [Keys -> Entries] /\ g \in [Keys -> Requests]
  BY <1>2, NothingIsNoFresher
<1>4. view \in Pages /\ view.at = "shop" /\ view.payment = NoPayment
  BY PageOf DEF PagesInit, OtherPages
<1>5. PagesTypeOK
  BY <1>2, <1>3, <1>4 DEF PagesInit, PagesTypeOK, Pages, PagesOfOrders
<1>6. /\ ReportsFollowAnswers /\ SubmittedAreSent /\ ToldAreOver /\ AnswersTell
      /\ ToldAreListed
  BY <1>4 DEF PagesInit, ReportsFollowAnswers, SubmittedAreSent, ToldAreOver, AnswersTell,
              ToldAreListed
<1>7. QED BY <1>1, <1>5, <1>6 DEF PagesInv, ListsTell

LEMMA PagesNextInv ==
  PagesInv /\ ListsTell /\ [PagesNext]_allVars => (PagesInv /\ ListsTell)'
<1> SUFFICES ASSUME PagesInv, ListsTell, [PagesNext]_allVars
             PROVE  (PagesInv /\ ListsTell)'
  OBVIOUS
<1>1. [Next]_vars
  BY PagesCallServices DEF PagesInv
<1>2. PayInv'
  BY <1>1, PayNextInv DEF PagesInv
<1>3. PagesTypeOK' /\ ReportsFollowAnswers' /\ SubmittedAreSent' /\ ToldAreOver' /\ ListsTell'
  <2>1. CASE \E p \in Payments : Submit(p) \/ Report(p) \/ ReportFailure(p)
    BY <2>1, SubmitStep, ReportStep, ReportFailureStep
  <2>2. CASE ~(\E p \in Payments : Submit(p) \/ Report(p) \/ ReportFailure(p))
    <3>1. Quietly
      BY <2>2, QuietStep
    <3>2. \A p \in told : p \notin pending'
      BY <3>1 DEF Quietly, ViewFollows, PagesInv, ToldAreOver
    <3>3. QED BY <1>1, <3>1, <3>2, ViewKept, ListsKept DEF Quietly
  <2>3. QED BY <2>1, <2>2
<1>4. QED BY <1>2, <1>3 DEF PagesInv, ListsTell

(* PagesInv, for any number of orders, payments and lists: an order        *)
(* confirmed was charged to the shopper; what the failure page says is     *)
(* untrue only of a payment that was charged and whose answer the tab      *)
(* never got, of which it says "declined" and "not billed".                *)
THEOREM PagesSafety == PagesSpec => []PagesInv
  BY PagesInitInv, PagesNextInv, PTL DEF PagesSpec

(* Every list that counts as fresh shows the outcome the tab was told.     *)
THEOREM ListsAreTrue == PagesSpec => []ToldAreListed
<1>1. PagesInv /\ ListsTell => ToldAreListed
  BY DEF ListsTell
<1>2. QED BY <1>1, PagesInitInv, PagesNextInv, PTL DEF PagesSpec

(* The tab is a caller like any other, so that whatever was shown of the   *)
(* two services for every caller holds with the pages as theirs.           *)
THEOREM PagesAreCallers == PagesSpec => Spec
<1>1. PagesInit => Init
  BY DEF PagesInit
<1>2. PagesInv /\ [PagesNext]_allVars => [Next]_vars
  BY PagesCallServices DEF PagesInv
<1>3. QED BY <1>1, <1>2, PagesSafety, PTL DEF PagesSpec, Spec

(* The journal implements the payment lifecycle under the pages: left      *)
(* forms, reloads and lost answers included.                               *)
THEOREM PagesKeepLifecycle == PagesSpec => ImplementsLifecycle
  BY PagesAreCallers, JournalRefinement, PTL

===============================================================================
