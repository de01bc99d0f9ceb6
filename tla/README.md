# CMart: what its services promise, as TLA+

CMart is a small e-commerce platform: five Node/TypeScript services (auth,
product, cart, order, payment), each with its own store, that call one another
over HTTP through a shared resilient client, and a Next.js frontend.  Nothing
in it is transactional across services, and inside a service every handler is
a chain of `await`s between which other requests run.  That is what these
modules model: one action per stretch of code between two awaits, every
interleaving of them, with failures, timeouts, retries and restarts.

## The system

| component | state it keeps | operations | talks to |
|---|---|---|---|
| auth-service | users with a status, refresh tokens (token, expiry, revokedAt) | register, login, refresh (rotation), logout, profile | - |
| product-service | products, in memory, seeded at start | list, get, create, update, delete | - |
| cart-service | carts and cart items (PostgreSQL, TypeORM) | get, add, update, remove, clear | product-service (price, stock) |
| order-service | orders and items; status | create (checkout), read, list, PATCH status | auth, cart and product services |
| payment-service | the payment journal; status | process, refund, read | order-service; the (mock) gateway |
| shared | circuit breakers and retry policy, per process and per operation; middleware | `ApiClient.request`, `ResiliencePolicy.execute`, `requireRole`, `errorHandler` | used by every service |
| frontend, session | localStorage, shared by the tabs; the auth store of each tab | page load with silent token rotation, sign-in, registration, logout | auth-service |
| frontend, cart | the React Query entry `["cart"]` | add, update and remove (the latter two optimistic), clear | cart-service |
| frontend, shop | address parameters, the product list query | search, category, prices, stock, sort, pages | product-service |
| frontend, payment | the queries of orders and payments | checkout, payment form, confirmation, failure, lists | order-service, payment-service |

### Hard behaviours

* **Read, await, write.** No service locks a row, keeps a version or writes
  conditionally: what a handler decided on may be stale when it writes.
* **Calls that outlive their caller.** axios gives up after its timeout, but
  the callee goes on; the retry then runs beside the first attempt.
* **Half-done work.** A payment writes its journal, charges, writes again and
  reports in four separate steps.  The process can stop between any two, and
  nothing resumes it.
* **A browser that goes on.** Pages are left, sessions end and tabs are closed or
  loaded anew while requests are under way, and what these bring is written into a
  cache or into localStorage that others have changed meanwhile.
* **Shared breakers.** Calls that passed a breaker before it opened finish
  while it is open or half-open, and update it.

### What makes each component correct

* Order status endpoint: orders move along the edges of `isValidTransition`;
  no stage is skipped; none returns to PENDING; every update is answered.
* Checkout: a cart is emptied only for an order that is saved; a line leaves it only
  by a call that takes it out or by a checkout that ordered it, unless the shopper
  wrote to the cart while the checkout was under way; every checkout is answered.
* Payment service: the journal tells the truth about money wherever a payment
  is cut short; the order is told only what the journal holds; an order is
  charged once and then PAID; a payer is answered.
* Cart service: each call acts on its own user's cart, all at once or not at
  all; no line exceeds the stock; what was removed stays away.
* Auth service: a refresh token and its heir are never both good; an ended
  session stays ended; an inactive account is given no token.
* Resilient client: state and count of a breaker agree; an open one only
  drains and closes again after recovery; every call ends.
* Product service: what was deleted, or was there before a restart, stays gone but
  for a PUT that names its id, and a delete removes the product it names, whatever
  overlaps it.
* Shop page: the page shown is the part of the filtered and sorted list that its
  address asks for, if its dates can be compared, and the buttons turn pages one by
  one.
* Frontend cart: the cache ends up with the cart the service keeps, but for what
  overlapped or was served late; an edit that is alone stays visible until it is
  answered; nobody is shown another's cart.
* Frontend session: what is stored can be exchanged, and a page load signs its
  user in.
* Payment pages: what a page says of a payment that was answered is what happened,
  of an unanswered one the failure page alone may be wrong, and the lists that
  count as fresh show what was answered.

## Modules

| module | models | main source |
|---|---|---|
| `OrderLifecycle` | abstract: the order state machine | `order.service.ts` isValidTransition |
| `OrderService` | `PATCH /orders/:id/status` | `order.controller.ts`, `order.service.ts`, `order.validation.ts` |
| `PaymentLifecycle` | abstract: what the journal promises about money | `payment.ts`, validateStatusTransition |
| `PaymentService` | `POST /payments` and refunds, composed with `OrderService` | `payment.service.ts`, `payment.controller.ts`, `order.client.ts` |
| `ResiliencePolicy` | breaker, retries, backoff | `resilience.ts`, `api-client.ts` |
| `CartContents` | abstract: a cart changed by calls that act at once | `cart.service.ts` |
| `CartService` | the five cart operations over the two tables | `cart.service.ts`, `cart.repository.ts`, `cart-item.repository.ts`, `schema.sql` |
| `Checkout` | `POST /orders` across auth, cart and product services, over `CartService` | `order.service.ts` createOrder, `cart.client.ts` |
| `AuthSession` | register, login, rotation, logout | `auth.service.ts`, `refresh-token.repository.ts` |
| `ProductCatalog` | the in-memory repository, its service and validations, restarts | `product.service.ts`, `product.repository.ts` |
| `ShopPage` | the shop's listing in one tab, over `ProductCatalog` | `products-list-content.tsx`, `space-header.tsx`, `app/page.tsx` |
| `FrontendCart` | the cart cache of one tab, its mutations and sessions | `use-cart-queries.ts`, `cart/page.tsx`, `mini-cart-drawer.tsx` |
| `BrowserSession` | tabs of one browser, over `AuthSession` | `auth-provider.tsx`, `use-auth-store.ts`, `api-client.ts` |
| `PaymentPages` | the pages around a payment in one tab, over `PaymentService` | `payment-form-content.tsx`, `checkout/page.tsx`, `use-payment-queries.ts` |
| `*_proofs` | theorems about the module they are named after and those it EXTENDS | |
| `MC*` | values and symmetry sets for TLC; `MCPaymentService` also the behaviours in which nothing fails | |

`PaymentService` EXTENDS `OrderService`: a PATCH attempt `<<p, k>>` of payment `p`
is one of the calls the Order Service can be serving, so that a PATCH that timed
out goes on there while the payment moves on.  `Checkout` EXTENDS
`CartService`: its GET and each attempt of its DELETE are calls that service runs
from await to await, beside the shopper's own; it takes of `OrderService` only that
its save inserts a row.  `ShopPage` EXTENDS `ProductCatalog`, `BrowserSession`
EXTENDS `AuthSession` and `PaymentPages` EXTENDS `PaymentService`: the browser's
requests are calls those services serve, step by step.  `FrontendCart` takes the
carts as services that act at once.  The other modules stand alone.

### How state and actions correspond to the code

* **Awaits.** In every module a variable (`at`, `call`) holds, for each request
  being served, the `await` it is suspended at.  An action is the code from one
  `await` to the next, and begins with the effect of the query or call that was
  awaited: `LoadOrder` is `findById` answering and the checks on what it
  returned, `SaveOrder` is the UPDATE and the answer.  Middleware that runs
  before the first await is part of the action that receives the request.
* **Answers.** A request ends in the class of its HTTP answer: 2xx (`ok`,
  `created`), 4xx (`rejected`), 5xx (`failed`).
* **Failures.** `Fail...` and `StepFails` are a query or a call that throws, at
  whatever await; `...Stops` is SIGTERM, which drops every request under way.
  What was written before stays, as nothing is rolled back across queries.  A
  restart needs no action: a service's state is its tables.
* **`OrderService`.** `status`, `owner` are columns of `orders`; `held` is
  auxiliary, every status a row ever had.
* **`PaymentService`.** `row` is the status column of the journal; `request`,
  `verdict` and `tries` are locals of processPayment; `captured` is auxiliary,
  what the gateway really did.
* **`ResiliencePolicy`.** `state`, `failures` and `age` are the
  CircuitBreakerState of one operation name, `attempt` is the loop counter of each
  call.  Failures above the threshold make no difference and are capped there.
* **`CartService`.** `cart` and `items` are the two tables.  `call[c].mine` is the
  entity the handler holds and `call[c].seen` what TypeORM's save has found in the
  tables; `SaveLooks` and `SaveWrites` are the two halves of that save.  It is
  external code, modelled from how the entities are mapped (cascade on
  `Cart.items`, the foreign key, the unique constraints).
* **`Checkout`.** `call[<<k, 0>>]` is the GET of checkout `k` in the Cart Service and
  `call[<<k, i>>]` the i-th attempt of its DELETE, which may run on after createOrder
  has given it up.  `lines` and `order` are rows of the cart by their keys, so that a
  line that was merged into is not the line that was read.  `shared` is auxiliary:
  the checkouts during which, from the read of the cart to the end of the last
  DELETE, a writing call of the same shopper was received or still ran.
* **`AuthSession`.** `token` is what a row of `refresh_tokens` is good for:
  `live`, past `expires_at` (`expired`), or with `revoked_at` set (`revoked`).
  `from` and `session` are auxiliary: the token a row was exchanged for, and the
  first token of that chain.  `SetStatus` is an administrator with database
  access: no endpoint changes `users.status`.

* **`ProductCatalog`.** `products` is the repository's array; `issued` is every id
  ever made, by a creation or by the seeding of a start.  A restart seeds the
  products again under new ids.  The service's functions are `async` and await the
  repository, so that an update is two steps: the check that the product exists,
  then the write, which looks for it again.  The write spreads the whole body over
  the product, and the validator lets unknown fields through: an id may be one that
  was generated (a positive number), another text (a negative one) or no text at all
  (0), and a createdAt may be no date (`None`).  `renamed` is auxiliary: a PUT has
  given a product another id.
* **`ShopPage`.** The address parameters are the page's state (`pageVars`);
  `FilteredSorted`, `TotalPages`, `CurrentPage` and `Shown` are the component's memos
  and constants, checked against a definition by what a page must contain.  `Sorted`
  says what a stable sort by the comparator returns, not how it goes about it.
* **`FrontendCart`.** `cache`, `failed` and `get` are the entry's data, error and fetch;
  `slot[s]` is what an instance of a mutation hook has sent, with the snapshot that
  onMutate kept.  React Query is external, modelled from how the hooks use it:
  cancelQueries drops the fetch under way, setQueryData writes the entry,
  invalidateQueries fetches it again, in place of a fetch under way unless that is
  the entry's first.  Mutations outlive their page and their session.  `stray` is the
  users of whom a DELETE that the Order Service gave up on may still be served after
  the order was answered.
* **`BrowserSession`.** `stored` is localStorage, `page[b]` the await that a tab's page
  load or form is at.  An access token is named by the refresh token it was issued
  with.  `calm` is auxiliary: whether requests failed, tabs were closed while they
  loaded, two tabs loaded at once, or something was ended elsewhere.
* **`PaymentPages`.** `view` is the page shown, `pending` the payments whose answer an
  `onSubmit` still awaits, wherever the tab is, and `placing` the orders whose creation
  the checkout page does: its answer takes the tab to the form even if the shopper has
  left meanwhile.  `cache` and `get` are the query cache.  A key stands for one query of
  its kind.  `told` is auxiliary.

## Runs

| run | question | instance | states |
|---|---|---|---|
| `payment_retry` | Does the journal stay truthful, is the order told only what it holds, is no stage skipped, the payment lifecycle implemented and the payer answered, with PATCHes lost, late or retried? | 1 payment, 2 PATCH attempts, 1 operator call, 1 refund call, 2 amounts | 359 k |
| `double_charge` (violation) | Is an order charged once? | 2 payments, one after the other, nothing fails | |
| `order_left_unpaid` (violation) | Is a paid order PAID? | 1 payment, nothing fails | |
| `breaker` | Does the breaker agree with itself, drain, recover, and do calls end? | 3 calls, threshold 3, 2 retries, cooldown 2 | 52 k |
| `cart_race` | Do overlapping calls respect stock and owners, and do their copies agree with the tables? | 2 calls, 2 users, 2 products, 3 cart ids, 3 item ids | 323 k, with symmetry |
| `cart_serial` | Do calls that come one at a time act at once, whatever fails? | 1 call, 2 users, 2 products | 28 k |
| `cart_returns` (violation) | Does what was cleared stay away? | 2 calls, 1 user | |
| `checkout` | Does a checkout take nothing out of the cart that it did not order, unless the shopper wrote to it meanwhile, and is it answered? | 1 checkout, 2 DELETE attempts, 1 call of the shopper's, 2 products, 2 item ids | 437 k |
| `browser` | Can a stored token be exchanged, does a page load sign its user in, and are exchanged tokens dead, ended sessions over, inactive accounts shut out whatever the tabs do? | 2 tabs, 2 calls, 2 accounts, 3 tokens, 1 mishap | 1.5 M, with symmetry |
| `shop` | Does the page show what its address asks for, and does what is gone stay gone, while products change, PUTs name ids or take dates away, and the service restarts? | 1 seeded product, 3 ids, 2 calls, 1 product a page, 2 filters at a time | 328 k, with symmetry |
| `cart_cache` | Does the cache settle on the right cart, do edits stay visible, and whose cart is shown? | 2 hooks, 2 users, 1 product, quantities to 2 | 1.4 M, with symmetry |
| `pay_pages` | Is what the pages say of a payment what it was answered, when may the failure page be wrong, and do the lists agree? | 1 order, 2 payments, the payments list | 0.9 M, with symmetry |

### The bounds, and why they are enough

* *Calls.* Every race in this code is between a read and a write of one
  request and the writes of another, so two requests suffice for each pair of
  handlers.  `payment_retry` has three at the status endpoint (the two attempts
  and the operator's) besides the payment itself, and `breaker` has three calls
  because one must be in flight while a second opens and a third probes.
* *Attempts.* Two: the first and a retry that overlaps it.  A third repeats the
  second.
* *Amounts* 1 and 2 give a body below and one equal to the order's total.  The
  stock of the two products is 2 and 1, so that an addition merges up to the
  stock, and beyond.
* *Generated keys* (`CartIds`, `ItemIds`, `Tokens`) are finite in a run: when they
  are used up, creations only fail.  Three cart ids allow a cart, its successor
  after a clear, and one brought back; three tokens allow a login and two rotations
  of one token, or a rotation and one of its heir.
* *Calls used once.* A payment and a checkout are requests with an identity and
  happen once each; updates, refunds, cart calls and auth calls come for ever.
  So no run may come to rest, and all check deadlock.
* *One checkout, one cart id and one call of the shopper's* in `checkout`: what a
  checkout takes depends on its own reads and on writes beside it.  The shopper's
  call comes again and again and overlaps every await of the checkout and its late
  DELETEs; two of the shopper's calls that overlap one another are in `cart_race`,
  and the theorems hold for any number of all of them.
* *One mishap* in `browser`: what is promised holds while nothing has gone wrong,
  and one thing gone wrong suffices to leave any of the states that the later page
  loads and sign-ins start from.
* *Pages of `pay_pages`.* The payments list stands for every list, since all keys are
  handled alike; the other pages mount no query of the run, as the form does here.
  Queries of orders are left out of the run: no payment changes what they hold, as
  a customer's PATCH is refused, and the form is taken to have its order at hand.
* *Placing an order* in `pay_pages`: the answer is in before the order's first
  payment is submitted (`MCNext`), as it then does what a link to the form does.  No
  PATCH gets through there: it would be refused, and `payment_retry` has it.
* *Two hooks and one product* in `cart_cache`: an undo and a second edit of the same
  line are the worst an overlap can do, and the theorems hold for any number.
* *One request served late at a time* in `cart_cache` (`OneServedLate`): an answered
  order's DELETE, of the session that goes on, or a mutation given up on.  Either
  blurs the cache when it takes effect, and a second would find it blurred.  Of two
  mutations under way, one is of the session that goes on (`OneLeft`).
* *One PUT at a time* in `shop` has left an id or a date that the types of the code do
  not foresee (`FewOddOnes`), and a visitor does not come to the listing once a
  product has been given another text for its id, which a listing does not tell
  from the first (`SameToVisitors`).

### Fairness

Each module has a specification without fairness for safety and one with it for
liveness.  Weak fairness is asked of one thing only: that a request suspended at an
await goes on (`Proceed` for createOrder, `HandleUpdate`, `ProcessPayment`, `Settle`).
The event loop resumes what has settled; the database driver and axios (whose timeout
`ApiClient` always sets) settle everything.  Failing is one of the ways to settle, so
liveness never relies on a service being up.  `Tick` is fair because time passes.
Arrivals, operators, stops and the callee's side of an abandoned call are not fair.
`Recovers` states its own premise instead: from some point on nothing fails, and calls
keep coming.

## What is proved

For every value of the constants, from the assumptions the modules name and no
others.  Each safety theorem follows the same argument: an inductive invariant
holds initially, one lemma per action shows that the action keeps it, and the
property is a conjunct of it, or an action property that it implies.

* **`PaymentService_proofs`, the order endpoint.** `OrderInv` adds to the types that
  a status a save is about to write was reachable from one the row has had
  (`LoadedOnce`).  The status itself may be stale by then, so nothing stronger is
  true: that is why `NoStageSkipped` speaks of `held` and not of `status`.  Also
  `NeverBackToPending`, and the refinement `SerialUpdatesFollowLifecycle`: as long
  as at most one call is served, every step is a step of `OrderLifecycle`.
* **`PaymentService_proofs`, payments.** `PayInv` says what each await implies
  (`Progress`), that no PATCH runs which was not sent (`Unsent`), that refunds are of
  charged payments, and that rows of orders have owners.  It yields
  `JournalIsTruthful`, `NotifiesWhatIsJournaled`, the refinement
  `ImplementsLifecycle`, and, since every step of the composition is a step of the
  Order Service or leaves it alone, `NoStageSkipped` with payments as callers.
* **`PaymentPages_proofs`.** `PagesInv`: a page says of an answered payment what became
  of it (`ReportsFollowAnswers`); for that, what is shown or still awaited was submitted
  by the shopper (`SubmittedAreSent`), and what the shopper was told is over and awaited
  no more (`ToldAreOver`).  An answer on its way tells the same outcome as a fresh list
  would (`AnswersTell`).  Without the last, `ToldAreListed` is not inductive, as a fetch
  that the service has served is written into the list some steps later.  The property
  is about the lists a payment belongs to (`Lists`): another order's list says nothing
  of it.  `PayInv` is a conjunct, and is kept because every step is one of the Payment
  Service's or leaves it alone (`PagesAreCallers`); for the same reason the payment
  lifecycle is implemented with the pages as callers (`PagesKeepLifecycle`).
* **`ResiliencePolicy_proofs`.** `BreakerInv` (with `RetriesBounded`),
  `BreakerAgrees` and `OpenOnlyDrains`.
* **`Checkout_proofs`.** `CheckoutInv`, over `CartInv`: a DELETE takes whatever the
  cart holds when it is served.  So `NothingVanishes` needs that a DELETE under way
  is of the checkout's user (`SentByOrders`) and belongs to a saved order of what was
  read (`ClearsFollowOrders`), and that meanwhile the cart is what was read, or empty,
  with none of the shopper's writes under way, unless the checkout is `shared`
  (`OnlySharedAtRisk`).  That the rows of a cart are its user's, and stay so, is
  `CartInv`'s.
* **`FrontendCart_proofs`.** `TabInv`: the cache and the fetch under way are right or
  a mutation under way still owes a fetch (`CacheIsRightOrOwed`,
  `FetchIsRightOrOwed`), a fetch is the signed-in user's (`FetchIsOwn`), and what
  ran alone found nothing else under way (`AloneIsAlone`, `AnswerIsTheCart`).  From
  it `SettledCartIsRight`, `EditsStayVisible` and `OnlyLateAnswersShowAnothers`.
* **`BrowserSession_proofs`, the Auth Service.** `AuthInv`: what a rotation is about to
  insert descends from a token that is revoked by then (`RevokedBeforeIssue`), and
  session and holder of issued rows are in order.  From it `EndedStaysEnded` and
  `InactiveGetNoToken`.  `OnlyTwinsAreBothLive` needs more (`SessionInv`):
  a token descends within its session (`DescendsInSession`), and two tokens of a
  session that were never exchanged occur only in one that was forked
  (`ForksHaveTwins`).  A good token was never exchanged, so two of them are two ends.
* **`BrowserSession_proofs`, tabs.** `BrowserInv` adds to `SessionInv` that a browser
  holds only tokens that were issued, and `CalmInv`: while nothing has gone wrong,
  accounts are active, at most one tab loads, its rotation is of the one good token and
  its answer is that token's heir.  Without it `StoredTokenIsGood` is not inductive, as
  a rotation that is answered stores what the service did some steps before.  From it
  `StoredTokenIsGood` and `LoadsSignIn`; and since a step of a tab is a step of the
  Auth Service or leaves it alone, its three promises again, with tabs as callers.
* **`CartService_proofs`, races.** `CartInv`: a late save writes rows it read long ago,
  so `QuantityWithinStock` needs that every copy respects the stock (`CopiesAreSound`),
  and `OwnCartOnly` that keys never change hands: what a call has copied is in the
  cart it was copied from, if it is anywhere, and that cart is nobody else's
  (`CartsAreOwn`, `RowsBelong`).  A key is never generated twice: that is what
  `FreshItems` and `FreshCarts` say, and the proof rests on it.
* **`CartService_proofs`, one call at a time.** `SerialCallsActAtOnce`: with a single
  call in service, `CartService` implements `CartContents` (`ActsAtOnce`).  `CartInv`
  does not say enough for it, since with others around a copy may lack what the tables
  hold.  `UpToDate` does: the copy is the tables' rows with the request's change made,
  and what the save has found in the tables is there still.  Then one lemma for each
  action shows which step of `CartContents` it is: the effect is the save's write, the
  row's deletion, the cart's deletion or, for a read, its answer; every other await
  is a stutter, and an error anywhere refuses the call before its effect or answers
  `failed` after it.  That a cart is created ahead of the effect does not show, a new
  cart being as empty as none.
* **`ShopPage_proofs`.** `ShopInv`: until a PUT has given a product another id, the
  catalogue is in order of creation, so that an id is at one place of it
  (`OldestFirst`), and a list that the browser still holds was a catalogue
  (`CatalogInv`, `ShopTypeOK`).  `GoneStaysGone` and `DeletesWhatItNames` follow from
  what push, a write at the first index found and splice leave of an array, whether
  ids repeat or not; that an id is known only once generated (`Known`) makes a new one
  new.  For `ListingIsRight`,
  the comparison of the sort (`Ahead`) is a strict total order on the products that
  pass the filters; hence the places they take are 1 to their number, each once, there
  is one sorted list, and page arithmetic puts each product on one page.
  `PagesTurnOneByOne` follows from the same arithmetic and from each handler's address.
  The order is total as long as every product that passes the filters has a date, when
  it is by date that they are sorted (`Comparable`); without it the order is whatever the
  engine's sort leaves, and only the other promises of `ListingIsRight` are made.

## Only model-checked

Liveness (`PayersAreAnswered`, `Recovers`, `CallsEnd`, `CheckoutsAnswered`): the prover
does not do fairness.  Every other property of a passing run is a theorem.
`SerialUpdatesFollowLifecycle` and `SerialCallsActAtOnce` say of one call at a time what
is false of two.

## Findings

Where a document, a comment or an answer says one thing and the code does
another; each is a run that TLC is expected to find violated.

* `double_charge`: a second payment of an order is charged, since a customer's
  payment never changes the order's status and earlier payments are not looked up.
* `order_left_unpaid`: the PATCH that should mark the order PAID carries the
  payer's token, the route wants an administrator's, and the refusal is swallowed.
* `cart_returns`: the save of a copy read before a clear inserts the cleared lines
  again.

Seen while modelling and not checked by a run of its own: two overlapping updates of an
order are each validated against a status the other replaces, so that CANCELLED may
become PAYMENT_PENDING (`SerialUpdatesFollowLifecycle` shows that nothing but overlap
does this); the failure page is headed "Payment Declined" whatever the reason
(`failure-content.tsx:52`) and says that the card was not charged (`:33`) or billed
(`:38`) of a payment that timed out and may have been charged, and it fetches nothing
again (`ReportsFollowAnswers` says of which payments this cannot happen); an addition
that overlaps a checkout may be cleared with it, or write to rows that are gone, and is
answered 200; the DELETE of an order that was answered may be served later still, and
leaves the cache with a cart that is no more; logging out leaves the refresh token good
on the server; logging out in the shop's header leaves the query cache to the next user;
an order whose answer was lost is PENDING, and the details page offers payment only for
PAYMENT_FAILED; creations that lack `stockQuantity` are refused although the DTO names
`stock`; a PUT whose body names an id changes the product's id, as the validator lets
unknown fields through: it may list a deleted id again or give two products one id, and
an id that is no text breaks every listing (`id.slice` in `mapProductDetails`); a PUT of
a createdAt that is no date leaves the order of the listing to the engine's sort;
`docs/service-contracts.md` speaks of a paged, searched list and of soft deletion, which
the product service does not have; two overlapping additions of one product can leave
one (the write is absolute, which is also why `cart_serial` has one call); a payment can
be refunded again and again, as no refunded amount is kept; a success does not reset the
failure count of a CLOSED breaker; two overlapping exchanges of one refresh token leave
two good tokens (bounded by `OnlyTwinsAreBothLive`); two checkouts of one cart both save
an order.

## Abstractions

* Prices, names, order totals other than the one a payment must equal, and the
  contents of answers are left out, as are logging and request ids.
* The stock a product has is constant in `CartService` (0 stands for a 404).  No code
  decrements stock, but an administrator's PUT can lower it: `QuantityWithinStock` is
  about the stock that was checked.  In `Checkout`, the look at a line's product may
  find it orderable or not, at any time.
* In `ProductCatalog` a stock is what it compares as with 0: 0 stands for null and for
  what is no number too, a positive number for a fraction.  Prices count by their order
  only.
* A failed save has written nothing; a save that was committed but not
  acknowledged is the save, followed by a stop.
* Access tokens are not modelled in the services: a request that reaches a handler
  has a valid one, and its expiry in the middle of a request shows as a refusal by
  the next service.  `BrowserSession` has them, with their expiry.
* bcrypt and `updateLastLogin` are part of `CheckPassword`.  Identical e-mail
  addresses in other letter case are one address, as the repository folds them.
* The gateway is the interface and its mock: it charges, declines or throws, and
  throws only before it has charged.
* A query's staleTime passes at any time.  React's double effects in development are
  not modelled: the build does not have them.
* Lists are taken to be no longer than their limit of 20, or 3 on the dashboard.

## Not modelled

* The product details query, the cart badge and the drawer's open state: they show
  what other modules already hold.
* Code that nothing reaches: `product-filters.tsx`, `ui/pagination.tsx`,
  `useLogoutMutation`, `useUserProfileQuery`, the interceptor's queue of requests
  waiting for a rotation, `resetCircuits`, bulkheads and fallbacks.
* Tests, `verify.js`, documents: read as statements about the program.

Rendering, styles, build and deployment files, seeds and the compiled `dist`
directories have no protocol state and stay out.
