----------------------------- MODULE PaymentPages -----------------------------
(***************************************************************************)
(* The storefront's pages around a payment, in one tab of a shopper who is *)
(* signed in: checkout, the payment form, the confirmation and the failure *)
(* page, and the pages that list orders and payments out of the React      *)
(* Query cache, over the services of PaymentService.  A payment that was   *)
(* submitted goes on when its form is left, and its answer or its timeout  *)
(* takes the tab to the page that reports it, wherever the tab is.         *)
(***************************************************************************)
EXTENDS PaymentService

CONSTANTS Shopper,      \* the user who is signed in
          Keys,         \* the queries the tab makes; what the others answer
                        \* is taken to be at hand
          NoOrder, NoPayment

\* A query and the order it is about.  The lists are of the latest 20, those
\* of the dashboard of the latest 3: bound, there are no more.
OfOrders == {"order", "order-payments"} \X Orders
OfPayments == ({"order-payments"} \X Orders) \cup ({"payments", "recent-payments"} \X {NoOrder})
OfTheirOrders == {"orders", "recent-orders"} \X {NoOrder}
AllKeys == OfOrders \cup OfPayments \cup OfTheirOrders

ASSUME ShopperIsAUser == Shopper \in Users
ASSUME KeysAreQueries == Keys \subseteq AllKeys
ASSUME NoneIsNone == NoOrder \notin Orders /\ NoPayment \notin Payments

VARIABLES view,         \* the page, its order and the payment it speaks of
          placing,      \* orders placed, whose creation is not answered yet
          pending,      \* payments submitted and not answered yet
          cache,        \* query cache: what a key holds
          get,          \* the request of each key
          told          \* auxiliary: payments whose outcome the tab was told

pageVars == <<view, placing, pending, cache, get, told>>
allVars == <<vars, pageVars>>

Page(a, o, p) == [at |-> a, order |-> o, payment |-> p]
Reports == {"confirmed", "declined", "failed"}
PagesOfOrders == {"form", "details", "confirmed"}
OtherPages == {"shop", "checkout", "orders", "payments", "dashboard"}

\* The queries that the pages show.
FormPage(o) == {<<"order", o>>}
ConfirmationPage(o) == {<<"order", o>>}
DetailsPage(o) == {<<"order", o>>, <<"order-payments", o>>}
OrdersPage == {<<"orders", NoOrder>>}
HistoryPage == {<<"payments", NoOrder>>}
Dashboard == {<<"recent-orders", NoOrder>>, <<"recent-payments", NoOrder>>}

\* The active queries: those of a page that is not shown are inactive.
Mounted(v) ==
  Keys \cap CASE v.at = "form"      -> FormPage(v.order)
              [] v.at = "confirmed" -> ConfirmationPage(v.order)
              [] v.at = "details"   -> DetailsPage(v.order)
              [] v.at = "orders"    -> OrdersPage
              [] v.at = "payments"  -> HistoryPage
              [] v.at = "dashboard" -> Dashboard
              [] OTHER              -> {}

Absent == [rows |-> <<>>, has |-> FALSE, dirty |-> FALSE, late |-> FALSE, failed |-> FALSE]
NotAsked == [at |-> "idle", rows |-> <<>>, late |-> FALSE]
Asked == [NotAsked EXCEPT !.at = "asked"]

\* What the service would answer.
Current(k) == IF k \in OfPayments THEN row ELSE status

\* A page shows a spinner, an error or what its query holds; after a refetch
\* that failed, the error although there is data.
Screen(k) ==
  IF ~cache[k].has /\ get[k].at # "idle" THEN "loading"
  ELSE IF ~cache[k].has \/ cache[k].failed THEN "error"
  ELSE "content"

\* The colour of a payment's status.
Badge(s) == CASE s = "SUCCESS" -> "green" [] s = "FAILED" -> "red" [] OTHER -> "amber"

\* The failure page is headed "Payment Declined" whatever the reason in its
\* address.  Of a payment that was answered it goes on to blame the card's issuer;
\* of any other it says that the card was not charged, or not billed.
SaysDeclined(v) == v.at \in {"declined", "failed"}
SaysNotBilled(v) == v.at = "failed"

-------------------------------------------------------------------------------
PagesInit ==
  /\ Init
  /\ view = Page("shop", NoOrder, NoPayment)
  /\ placing = {} /\ pending = {}
  /\ cache = [k \in Keys |-> Absent]
  /\ get = [k \in Keys |-> NotAsked]
  /\ told = {}

\* A page is mounted: what it needs and is not fresh is fetched.
Mount(v, c, g) ==
  /\ view' = v
  /\ cache' = c
  /\ get' = [k \in Keys |->
               IF k \in Mounted(v) /\ g[k].at = "idle" /\ (~c[k].has \/ c[k].dirty)
               THEN Asked ELSE g[k]]

\* invalidateQueries: what the keys hold is stale, and active queries are made
\* again, in place of a request under way unless it is the first.  A request
\* that goes on counts as fresh when it is answered.
Stale(ks) == [k \in Keys |-> [cache[k] EXCEPT !.dirty = @ \/ k \in ks]]
Refetched(ks) ==
  [k \in Keys |-> IF k \in ks \cap Mounted(view) /\ (cache[k].has \/ get[k].at = "idle")
                  THEN Asked
                  ELSE [get[k] EXCEPT !.late = @ \/ (k \in ks /\ get[k].at # "idle")]]

\* A link or the Back button; leaving a form does not stop its payment.
Visit(a, o) ==
  /\ \/ a \in PagesOfOrders /\ o \in Orders /\ owner[o] = Shopper
     \/ a \in OtherPages /\ o = NoOrder
  /\ Mount(Page(a, o, NoPayment), cache, get)
  /\ UNCHANGED <<vars, placing, pending, told>>

\* The tab is loaded anew: nothing is left but the page, and what the services
\* make of what had been asked.
Reload ==
  /\ Mount(CASE view.at = "review" -> Page("checkout", NoOrder, NoPayment)
             [] view.at = "form"   -> Page("form", view.order, NoPayment)
             [] OTHER              -> view,
           [k \in Keys |-> Absent], [k \in Keys |-> NotAsked])
  /\ placing' = {} /\ pending' = {}
  /\ UNCHANGED <<vars, told>>

\* "Review order": the shipping form is filled in.
Review ==
  /\ view.at = "checkout"
  /\ Mount(Page("review", NoOrder, NoPayment), cache, get)
  /\ UNCHANGED <<vars, placing, pending, told>>

\* "Place order & pay", disabled while this page's order is being created.
PlaceOrderFromPage(o) ==
  /\ view.at = "review" /\ view.order = NoOrder
  /\ PlaceOrder(o, Shopper)
  /\ view' = Page("review", o, NoPayment)
  /\ placing' = placing \cup {o}
  /\ UNCHANGED <<payVars, refund, pending, cache, get, told>>

\* 201: the tab goes to the order's form, wherever it is by now.
OrderPlaced(o) ==
  /\ o \in placing
  /\ placing' = placing \ {o}
  /\ Mount(IF view.at = "form" /\ view.order = o THEN view ELSE Page("form", o, NoPayment),
           Stale(OfTheirOrders), Refetched(OfTheirOrders))
  /\ UNCHANGED <<vars, pending, told>>

\* The order was created, but the answer is lost: a toast says it failed, and the
\* button is enabled again.
OrderAnswerLost(o) ==
  /\ o \in placing
  /\ placing' = placing \ {o}
  /\ view' = IF view.at = "review" /\ view.order = o THEN Page("review", NoOrder, NoPayment)
             ELSE view
  /\ UNCHANGED <<vars, pending, cache, get, told>>

\* The form is there once the order is, and is not PAID.
FormIsShown(o) ==
  LET k == <<"order", o>>
  IN  k \in Keys => Screen(k) = "content" /\ cache[k].rows[o] # "PAID"

\* "Authorize payment", disabled while this form's payment is pending.
Submit(p) ==
  /\ view.at = "form" /\ view.payment = NoPayment
  /\ FormIsShown(view.order)
  /\ Pay(p, view.order, Shopper, Total[view.order])
  /\ view' = [view EXCEPT !.payment = p]
  /\ pending' = pending \cup {p}
  /\ UNCHANGED <<placing, cache, get, told>>

\* The keys that a payment's answer makes stale.
Touched(p) ==
  {<<"order", OrderOf(p)>>, <<"order-payments", OrderOf(p)>>}
    \cup ({"orders", "recent-orders", "payments", "recent-payments"} \X {NoOrder})

\* The answer is in, and the tab goes to the page that reports it.
Told(p, v, c, g) ==
  /\ p \in pending /\ at[p] = "created"
  /\ pending' = pending \ {p}
  /\ told' = told \cup {p}
  /\ Mount(Page(v, OrderOf(p), p), c, g)
  /\ UNCHANGED <<vars, placing>>

Reported(p) == IF verdict[p] = "SUCCESS" THEN "confirmed" ELSE "declined"

\* Mutants: the answer is taken for a success; what is cached stays fresh.
ReportSuccess(p) == Told(p, "confirmed", Stale(Touched(p)), Refetched(Touched(p)))
ReportKeepingCache(p) == Told(p, Reported(p), cache, get)

\* 201: the row tells whether the charge was made.
Report(p) == Told(p, Reported(p), Stale(Touched(p)), Refetched(Touched(p)))

\* 4xx, 5xx, no connection, or no answer in 10 seconds.  Nothing is invalidated.
ReportFailure(p) ==
  /\ p \in pending
  /\ pending' = pending \ {p}
  /\ Mount(Page("failed", OrderOf(p), p), cache, get)
  /\ UNCHANGED <<vars, placing, told>>

-------------------------------------------------------------------------------
ServeGet(k) ==
  /\ get[k].at = "asked"
  /\ get' = [get EXCEPT ![k].at = "served", ![k].rows = Current(k)]
  /\ UNCHANGED <<vars, view, placing, pending, cache, told>>

GetAnswered(k) ==
  /\ get[k].at = "served"
  /\ cache' = [cache EXCEPT ![k] =
                 [Absent EXCEPT !.rows = get[k].rows, !.has = TRUE, !.late = get[k].late]]
  /\ get' = [get EXCEPT ![k] = NotAsked]
  /\ UNCHANGED <<vars, view, placing, pending, told>>

\* The last of three attempts fails; what was cached stays.
GetFails(k) ==
  /\ get[k].at # "idle"
  /\ cache' = [cache EXCEPT ![k].failed = cache[k].has]
  /\ get' = [get EXCEPT ![k] = NotAsked]
  /\ UNCHANGED <<vars, view, placing, pending, told>>

\* staleTime passes.
GrowsStale(k) ==
  /\ cache[k].has
  /\ cache' = [cache EXCEPT ![k].dirty = TRUE]
  /\ UNCHANGED <<vars, view, placing, pending, get, told>>

\* "Try again", where there is such a button: the dashboard and the payments of
\* an order have none.
Refetch(k) ==
  /\ k \in Mounted(view) \ (Dashboard \cup ({"order-payments"} \X Orders))
  /\ Screen(k) = "error"
  /\ get' = [get EXCEPT ![k] = Asked]
  /\ UNCHANGED <<vars, view, placing, pending, cache, told>>

-------------------------------------------------------------------------------
\* The services go on; payments are made from the tab only.
ServiceStep ==
  /\ \/ \E p \in Payments : ProcessPayment(p)
     \/ \E r \in Refunds :
          \/ \E p \in Payments, user \in Users, a \in Amounts : RequestRefund(r, p, user, a)
          \/ SaveRefund(r) \/ FailRefund(r)
     \/ PaymentServiceStops
  /\ UNCHANGED pageVars

PagesNext ==
  \/ ServiceStep
  \/ \E a \in PagesOfOrders \cup OtherPages, o \in Orders \cup {NoOrder} : Visit(a, o)
  \/ Reload \/ Review
  \/ \E o \in Orders : PlaceOrderFromPage(o) \/ OrderPlaced(o) \/ OrderAnswerLost(o)
  \/ \E p \in Payments : Submit(p) \/ Report(p) \/ ReportFailure(p)
  \/ \E k \in Keys :
       ServeGet(k) \/ GetAnswered(k) \/ GetFails(k) \/ GrowsStale(k) \/ Refetch(k)

PagesSpec == PagesInit /\ [][PagesNext]_allVars

-------------------------------------------------------------------------------
Rows == {<<>>} \cup [Payments -> RowStatuses] \cup [Orders -> Statuses]
Entries == [rows : Rows, has : BOOLEAN, dirty : BOOLEAN, late : BOOLEAN, failed : BOOLEAN]
Requests == [at : {"idle", "asked", "served"}, rows : Rows, late : BOOLEAN]

PagesTypeOK ==
  /\ view \in [at : PagesOfOrders \cup OtherPages \cup Reports \cup {"review"},
               order : Orders \cup {NoOrder}, payment : Payments \cup {NoPayment}]
  /\ view.at \in PagesOfOrders => view.order \in Orders
  /\ placing \subseteq Orders /\ pending \subseteq Payments /\ told \subseteq Payments
  /\ cache \in [Keys -> Entries]
  /\ get \in [Keys -> Requests]

(***************************************************************************)
(* What a page says of a payment is true if its answer brought the tab     *)
(* there, however late it came and whatever else was submitted meanwhile:  *)
(* an order confirmed was charged to the shopper, a payment declined was   *)
(* not.  Of a payment whose answer the tab never got the failure page says *)
(* the same, and may be wrong: a charge is reported as declined and not    *)
(* billed.  It is never wrong of a payment whose outcome the tab was told, *)
(* nor is the issuer blamed unless it was.                                 *)
(***************************************************************************)
ReportsFollowAnswers ==
  LET p == view.payment
  IN  p # NoPayment =>
        /\ OrderOf(p) = view.order
        /\ view.at = "confirmed" => p \in told /\ captured[p] /\ request[p].payer = Shopper
        /\ SaysDeclined(view) /\ captured[p] => SaysNotBilled(view) /\ p \notin told
        /\ SaysDeclined(view) /\ ~SaysNotBilled(view) => p \in told /\ row[p] = "FAILED"

(***************************************************************************)
(* A payment whose outcome the tab was told is shown so by every list that *)
(* has it and that the tab counts as fresh: green only if the money was    *)
(* taken, red only if it was not, amber only once refunded.  No page goes  *)
(* on showing the history from before, except one whose request had been   *)
(* left under way.                                                         *)
(***************************************************************************)
Lists(k, p) == k \in {"payments", "recent-payments"} \X {NoOrder} \cup
                    {<<"order-payments", OrderOf(p)>>}

TellsOutcome(rows, p) ==
  CASE Badge(rows[p]) = "green" -> captured[p]
    [] Badge(rows[p]) = "red"   -> ~captured[p]
    [] OTHER                    -> rows[p] = "REFUNDED"

ToldAreListed ==
  \A k \in Keys, p \in told :
    Lists(k, p) /\ cache[k].has /\ ~cache[k].dirty /\ ~cache[k].late =>
      TellsOutcome(cache[k].rows, p)

-------------------------------------------------------------------------------
(* What the two rest on: what was submitted is the shopper's and is not    *)
(* submitted again; what was told is over; and an answer on its way is as  *)
(* good as what a fresh list shows, unless it was overtaken.               *)
Sent(p) == at[p] # "idle" /\ request[p].payer = Shopper

SubmittedAreSent ==
  /\ \A p \in pending : Sent(p)
  /\ view.payment # NoPayment => Sent(view.payment)

ToldAreOver == \A p \in told : at[p] = "created" /\ p \notin pending

AnswersTell ==
  \A k \in Keys, p \in told :
    Lists(k, p) /\ get[k].at = "served" /\ ~get[k].late => TellsOutcome(get[k].rows, p)

PagesInv ==
  /\ PagesTypeOK /\ PayInv /\ ReportsFollowAnswers
  /\ SubmittedAreSent /\ ToldAreOver /\ AnswersTell
===============================================================================
