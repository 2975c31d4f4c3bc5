# FaizanMart, specified

TLA+ modules for FaizanMart, a Django / DRF marketplace on PostgreSQL (READ
COMMITTED, autocommit outside `transaction.atomic`), with Redis, Celery,
Channels, Elasticsearch, a language model and three payment gateways. Paths
below are relative to `src/`; `PROJECT.json` maps every definition to the lines
it stands for.

## The system

### Parts, their state and operations

| Part (`apps/...`) | State | Operations | Talks to |
|---|---|---|---|
| orders: checkout (`orders/services.py`) | `Order`, `OrderItem`, history | `place_order`, called by `CheckoutView.post` | locks the cart row, a coupon and stock rows; clears the cart; then calls a gateway |
| orders: status | `Order.status`, `payment_status` | `transition_status`, from `transition`, `cancel`, gateways, deliveries, returns | adjusts and releases stock of every item; notifies, queues emails |
| orders: returns (`orders/api_views.py`) | `ReturnRequest` | ask, respond | `transition_status`, then its own row |
| inventory (`inventory/services.py`) | `Stock.quantity`, `.reserved_quantity`, `InventoryLog`, `StockTransfer` | adjust, reserve, release, transfer: create, complete, cancel; plain PATCH | called by orders and, past the services, by catalog |
| payments (`payments/services/`) | `PaymentTransaction`, `Wallet`, saved methods | begin a payment, webhook / callback, refund to wallet or card; save, choose, delete a method | Stripe, JazzCash, EasyPaisa; `transition_status` |
| shipping (`shipping/`) | `DeliveryAssignment`, `Shipment`, `ShippingRule` | assign, update status; shipping cost | `transition_status`; called by checkout |
| cart (`cart/services.py`) | `Cart`, `CartItem` (users and guests) | add, update, remove, clear, merge a guest's cart, sweep | reads stock |
| coupons (`coupons/services.py`) | `Coupon.used_count`, `CouponRedemption` | validate (with or without the row's lock), redeem, discount | called by checkout |
| catalog (`catalog/`) | products and child rows, moderation status, cached pages, search index | create, edit, delete, approve, reject, cached reads, search | inventory, notifications, Elasticsearch |
| accounts (`accounts/`) | users, addresses, second factor, `UserSession`, login history | verify, reset, profile, TOTP, log in and out, revoke, address book | email tasks |
| chat (`chat/`) | conversations, messages, presence in Redis | connect, message, heartbeat, disconnect; post, list | channel layer |
| marketing (`marketing/services.py`) | referral codes and signups, newsletter | apply a code, subscribe, unsubscribe | wallet |
| vendors (`vendors/services.py`) | `Store.status`, `User.role` | register, apply, approve, reject, resubmit, edit | notifications |
| reviews (`reviews/`) | reviews, wishlist, questions | write, edit, reply, toggle | reads orders |
| support (`support/services.py`) | tickets and their messages | create, reply, set status | notifications |
| core (`core/audit.py`) | `AuditLog` | signals around every save of audited models | the rows of other parts |
| assistant (`assistant/services.py`) | none | answer a question | Ollama, the catalog's search |
| analytics (`analytics/services.py`) | `ProductView`, cached figures | record a view, lists, reports | reads orders and products |
| storefront (`storefront/views.py`) | the visitor's session | product page and others | the services above |
| notifications, sitesettings | rows written by others, one row of settings | no decisions on shared state | |

### What is hard in it

Requests run concurrently, each in a worker process. Only some of them lock the
rows they decide on, and those take locks in an order that depends on data. So
the hard behaviours are: decisions on what was read before a lock or without
one (`transition_status`, `complete_transfer`, delivery and return requests,
`get_or_create`); forms that save a whole row as it was loaded; locks taken in
opposite orders (checkouts, transfers); work that spans two statements or
transactions (approving a return, a referral's reward, a message and its
event, a row and its search document); a provider, a client or a model that
repeats, reorders, loses or makes up its answers; several tabs of one user;
crashes at each of these points. `PROJECT.json` lists the hazards at their
lines, each with the properties that cover it or the reason none does.

### What makes each part correct

* **Stock** (checkout, fulfilment, inventory): no row promises more than it
  holds; what is reserved is what open orders need; the log explains every unit.
* **Checkout**: all of an order's units or none; nothing in a cart ordered
  twice; coupon limits; totals that add up over the stores; every request
  answered.
* **Cart**: no unit counted twice by merges, late writes or sweeps.
* **Order status**: only allowed moves, stock moved once per move.
* **Delivery and returns**: one active attempt, one open return; goods on the
  road have left the stock; a return brings them back once.
* **Payments**: paid means captured; an outcome is final; at most one refund;
  a captured payment is settled in the end.
* **Catalog**: every copy of a product follows its row, and is wrong only for
  named reasons and a bounded time; staff publish, sellers do not.
* **Accounts**: what was confirmed is not taken back; a link works once; the
  second factor is as the user was told; one default; a true list of sessions.
* **Chat**: every message reaches every open socket and page, once; presence
  comes to be true.
* **Marketing, vendors, reviews, support, core**: a reward paid once on both
  sides; a store's and a ticket's last decision stands; a review says what its
  author and its vendor said; the audit log replays to the row.
* **Assistant, analytics, storefront**: what is shown is published, is what was
  asked for, and agrees with itself.

## Modules

`ReservationLedger` is the abstract promise: holders reserve units of stock rows
all at once, later release or ship them once, and may bring them back once;
staff may correct some rows. Three modules implement it.

* **`Checkout`** (`place_order`). Each request is a transaction with a program
  counter: lock the cart, lock the coupon, then for each line pick a warehouse
  (an unlocked read) and reserve at it (lock, second look, write), commit,
  answer. `taken` holds uncommitted reservations; a request sees the committed
  columns and its own. `Rollback` is a `ValueError`, a deadlock's victim or a
  lost process. Lines of one store come together, otherwise in any order, as
  the cart's query has none that matters here. Customers edit carts meanwhile.
* **`Fulfilment`** (`transition_status`). `Load` is the view's unlocked read
  and the check of the status; `Apply` is the transaction, one step because it
  locks each stock row before reading it and writes the order last; `Fail` is a
  refusal or a crash; `ConfirmPayment` locks the order row and decides on it.
* **`Delivery`** extends `Fulfilment` with delivery attempts and return
  requests. A visit is a request that has read its rows and not yet written;
  an approval is `TakeBack` and then `MarkReturn`, two transactions with a
  crash possible between them.
* **`Payments`**. A payment (`intent`) covers the orders of a checkout, each
  with its own transaction row, at one of three gateways. `CreatePaymentIntent`
  is a Stripe payment; `BuildRequest` starts a redirect payment, whose rows
  `BuildJazzCash` and `BuildEasyPaisa` commit one order at a time. The
  provider's side (`Decline`, `Capture`, `Tell`, `LoseNotice`) is external.
  `HandleWebhookEvent`, `HandleJazzCash` and `HandleEasyPaisa` settle; a notice
  of Stripe stays in the set until acknowledged, so it may be handled twice,
  and notices are taken in any order. `RefundUnrecorded` is a process lost
  between the provider's answer and the commit; `RefundedOnce` counts recorded
  refunds.
* **`Inventory`**: the stock rows of one product. Changes of one row are one
  step (lock, read, write, log, commit). A completed transfer is two, since it
  holds its source row while it waits for the target. `LoadRow`/`SaveRow` is
  the PATCH that saves the whole row, quantities included.
* **`Cart`**. A request reads a line in one statement and writes it by its key
  in another (`calls` holds what it read). A merge is a transaction: `wrote`
  holds its uncommitted rows, which it alone sees and which are locked for the
  others; `FinishMerge` deletes the guest's cart and commits. Keys of lines are
  never used again, so a new line gets a key that no running request
  remembers. What a request remembers is one of five kinds of job: `AddJob`,
  `SetJob`, `RemoveJob`, and for a merge `FindJob` and `MergeJob`, whose `added`
  is history: the guest's lines it has added to the customer's. `MostUnits` stands
  for what the look at the stock lets pass, which `Checkout` and `Inventory`
  model.

Most other requests load a row in one statement and save it in another, with no
transaction around them. **`Requests`** holds that shape once: a job is what a
request does next, on which row, what it loaded, and whether somebody saved the
row since (`old`, a history field that only properties look at). Cart's jobs, with fields of
their own, are kept there too. These extend it:

* **`Catalog`**: `UpdateProduct`, `Moderate` and the rest save a product;
  `WriteDocument` and `InvalidatePage` are the signals that follow, in their
  order; `FillPage` is `retrieve` storing what `ReadProduct` read. `Expire` is
  the cache's time limit.
* **`Accounts`**: an account's row is written column by column, save by the
  profile's form; the second factor is opened, confirmed and removed.
  **`Sessions`**: the framework's session of a browser against the rows of
  `UserSession`; the session is saved with the response.
* **`Marketing`** (a referral's five statements), **`Reviews`**, **`Support`**,
  **`Vendors`** (a store and its owner's role), **`Audit`** (pre-save look,
  save, entry), **`Entries`** (wishlist, newsletter and conversations: look,
  then write, with or without a unique constraint).
* **`Assistant`**: `answers` of a model that returns anything, recovered or
  refused as the code does. **`Analytics`**: each list or report is its
  several statements, among views, orders and publications. **`Storefront`**:
  product pages of one session that load, change and save it whole.

Modules of their own shape:

* **`Defaults`**, transactions under READ COMMITTED that clear a flag on all rows
  and set it on one; **`PaymentMethods`**, with one flag, is a choice among its
  requests.
* **`Chat`**: `inbox` is a socket's queue of group events, `shown` the thread's
  page, which polls and posts and may get either answer first, and appends the
  messages of an answer one after another, those it shows already left out;
  presence is a key with an expiry.
* **`Pricing`**: the loop of `place_order` over the stores of a cart as steps on
  cents. `SmartQuery`: the words of a search, taken one by one. Both end in a
  value that a definition over the whole input gives as well. Loops over lists
  are folds, here as in Analytics and Storefront.

Modules are composed where they share state: `Delivery` on `Fulfilment`, and
`Checkout`, `Fulfilment` and `Delivery` on the ledger. The others meet only through
`Requests` and are put side by side, one part to a behaviour, in `Profile` (accounts,
addresses, payment methods, sessions), `Desk` (referrals, reviews, tickets, the
log, stores, lists, and the assistant with requests of its own, `asking`) and
`Shop` (the history's lists and reports, the visitor's pages, prices, words): the
variable `area` says which part it is. `MCShop` adds to `Shop`
the carts, and reports with a history of their own size.
`MC<Module>` holds the small instances, `<Module>Proofs` the theorems:
`NoticesProofs` is about `Payments`, `Chat` and `Inventory`, `CheckoutProofs` about `Cart` too,
`DeliveryProofs` about `Fulfilment` too, `DeskProofs` about `Catalog` too, and
`AccountsProofs` is about `Profile`, and takes over the lemmas of `DefaultsProofs`
for addresses and for payment methods by two instances of that module.
`SumProofs` holds the lemmas about sums that `CheckoutProofs`, `DeliveryProofs`
and `ShopProofs` share. Definitions commented as mutants are plausible
mistakes used to see that each property can fail; nothing else refers to them.

### Assumptions stated as constants

* `Overlap` (Fulfilment, Delivery, Inventory, Cart): whether several requests
  may work on *one order* (or transfer, or merge one guest's cart) at a time.
  The code does not prevent it. With `TRUE` the status check is stale and
  `double_release` shows what follows; with `FALSE` requests for one order
  follow one another (those for different orders still interleave) and the
  stronger properties hold. `NoOversell` of Fulfilment and `LogExplainsStock`
  are proved for both; `inventory` runs with `TRUE`. In Cart, two merges of one
  guest's cart at a time would add its units twice: the second has read the
  guest's lines before the first one commits, and the customer's after it.
* `Corrected` (Fulfilment) and `Edited` (Inventory): rows that staff correct by
  hand, or whose columns are written past the services (`set_stock_quantity`,
  PATCH). The properties about overselling and the log leave those rows out:
  `adjust_stock` lets a correction go below what is reserved, and the other two
  log nothing.
* `EagerRefunds` (Payments): whether staff refund an order whose payment is
  still open. With `TRUE`, `late_success` refunds twice.
* In Sessions a browser sends one request at a time; in Storefront two tabs of
  one session overlap.

Where requests overlap freely (catalog, accounts, desk, shop) the properties
name the overlaps that spoil them, by history variables such as `mixed`,
`crossed` or `overlapped`: "unless the owner was changing the store while the
decision was made". So they say two things: that nothing else spoils the data,
and which rows may be spoiled.

## Runs

Runs that pass:

| Run | Instance and bounds | Shows |
|---|---|---|
| `checkout` | three requests (one customer twice), two stores, three stock rows in two warehouses, a digital product, a coupon of one use, one cart edit, two choices of carts | `NoOversell`, `StockBacksOrders`, `CartOrderedOnce`, `CouponWithinLimits`, refinement of the ledger, and `EventuallyAnswered`; deadlock checked |
| `delivery` | two orders, two rows (one corrected by hand), two attempts, two return requests, two requests | `OnlyAllowedMoves`, `OneActiveAttempt`, `GoodsLeftStock`, `ReturnsMatchOrders`, `OneReturn`, refinement of the ledger |
| `payments` | two orders in one payment, one in another, any gateway for each, one refusal each | `PaidMeansCaptured`, `RefundedOnce`, `SettledOnce`, `CapturedIsSettled` |
| `inventory` | two rows (one also edited), two transfers in any direction, two requests, perhaps of one transfer, two other changes | `LogExplainsStock`, `RequestsEnd` |
| `catalog` | one product, the list of categories, two requests, three saves | `CopiesFollowRows`, `PublishedByStaff`, `PagesSettle`; deadlock checked |
| `accounts` | one user, two requests, one reset link, two secrets and two new passwords; two addresses with two flags; two methods; two browsers of two members, two keys and rows | `AccountKept`, `LinkWorksOnce`, `FactorAsTold`, `OneDefault`, `SessionsListed` |
| `chat` | a customer with two sockets, a vendor on the page, two messages, a page of one | `NothingMissed`, `ShownOnce`, `MessagesArrive`, `PresenceSettles`; deadlock checked |
| `desk` | two requests, on three customers' referrals, or two reviews of two products, or a ticket of two replies, or an audited row of two columns, or two stores, or a wish, an address and a conversation with three keys; or a question to the assistant with three products of two brands | `RewardedOnce`, `ReviewsTrue`, `StatusStands`, `LogReplays`, `StoresStand`, `EntriesAsTold`, `ReplyGrounded` |
| `shop` | carts: a customer, two guests, a product without variants and one with, three lines, two requests; the history of two customers; reports over two stores and two orders; three amounts for two stores, seven coupons, every set of four shipping rules; searches of up to four words; two tabs, three pages, a list of two | `NothingCountedTwice`, `HistoryRetold`, `FiguresAndWords` |

Runs that find a violation, each a disagreement between the code and what its
own texts say:

| Run | What happens |
|---|---|
| `double_release` | Two cancellations (or a cancellation and a shipment) loaded the same order. Both release its reservation; the second takes another order's. |
| `late_success` | A refund to the wallet before the webhook; the webhook then writes `PAID`, and the order is refunded again. |
| `prose_reply` | The model answers in prose without a tool call; the reply says `ai_generated`, which its docstring denies. |

Why the bounds are enough: a stale read needs two requests and one row; a lock
cycle needs two rows and two holders; a lost race for stock needs two buyers
and one unit less than both want; a double submit needs two requests of one
customer; a merge goes wrong with two guests' lines of one product, or one
that changes under it; a lost message needs one message, a doubled one two
ways to get it; a wrong default needs two rows; a discount given twice needs
two stores. Each is present, and each property's mutant is found in the same
run. The bounds are `MaxAsked` (units asked of one product), `MaxEdits` (cart
edits, or changes of stock besides transfers), `MaxUnits` (the highest quantity
staff type in, and in Fulfilment a row's quantity), `MaxDeclines` (refusals of
one payment), `MaxWrites` (saves of products), `MaxPasswords`, `MaxLogins`,
`MaxLinks`, `MaxSecrets`, `MaxKeys`, `MaxRows` (what accounts and sessions may
make), `MaxMessages`, `MaxCredits`, `MaxReplies`, `MaxReplied`, `MaxValue`,
`MaxViews`, `MaxOrders`, `MaxEvents`, `MaxHidden`, `MaxWords`, `MaxSeen`,
`MaxPages`, `MaxProducts`, and the sizes of the constant sets.
`CHECK_DEADLOCK FALSE` is set where the system may be at rest or a bound stops
it. Each module states a type invariant; those of Checkout, Fulfilment, Payments,
Inventory, Delivery, Catalog, Accounts and Chat are proved as theorems, that of
Cart as a lemma, those of Defaults, Sessions, Marketing, Reviews, Support, Audit,
Vendors, Entries and of the parts of Shop as parts of larger invariants.

### Fairness

* Checkout: weak fairness of each request's own next step (a worker goes on
  with its request; the steps of a request do not disable one another except by
  waiting for a lock) and of the database's deadlock detector. Arrivals,
  crashes and cart edits are not fair. Weak fairness is enough because locks
  are released at commit or rollback and no request is served again.
* Inventory: strong fairness of a request's work, because a row may be locked
  and freed again and again by others while it waits, and PostgreSQL queues the
  waiters of a row; weak fairness of the deadlock detector.
* Payments: weak fairness of `HandleWebhookEvent`, because Stripe repeats a
  notice until it is acknowledged. The redirect gateways get none: their notice
  goes through the customer's browser.
* Catalog: weak fairness of each request's next step, and of `Expire`, because
  the cache keeps a page for `CACHE_TTL`.
* Chat: weak fairness of a consumer's steps, of the page's timer (`Poll`) and of
  the expiry of presence; strong fairness of `Heartbeat` and `ShowPolled`, since a
  connected client's timer goes on and a network that loses answers does not
  lose all of them.

## What the code does otherwise than one might think

Seen while modelling, where no run of its own says so:

* An order cancelled after its delivery was assigned is picked up and delivered
  all the same; `transition_status` is then not called, and the order stays
  cancelled (`shipping/services.py:84`).
* Refunding one order to the card names the payment and no amount, so it gives
  back the whole checkout's payment (`payments/services/stripe.py:168`).
* A card refused and then accepted on the same payment leaves the order unpaid:
  the first notice ended the transaction (`stripe.py:116`).
* Two requests that loaded the same pending transfer both move its units, or one
  moves them and the other cancels it (`inventory/services.py:96`);
  `MovedAsRecorded` is proved for requests that follow one another only.
* A line changed while a checkout runs is deleted by its `clear_cart`
  (`cart/services.py:81`); a gateway that fails after the commit leaves the
  orders and their reservations (`orders/api_views.py:52`); the cancellation
  email goes out even if the transaction is rolled back
  (`orders/services.py:211`), and the confirmation is lost with its process
  (`:152`).
* Two simultaneous first messages make two conversations, after which
  `get_or_create` fails for good (`chat/services.py:11`; `chat/tests.py:54` tests
  the sequential case).
* A percentage coupon may be over 100, and the order's total is then negative
  (`coupons/services.py:40`); a fixed one is bounded by the amount.
* `vendor_report` counts all orders, whatever their status; the lists of best
  sellers and of products bought together are not filtered by published; a
  list of recommendations may be short, since unpublished products take places
  in it (`analytics/services.py`).
* A tool call that the assistant does not recognise, because it is malformed, is
  shown to the customer as text.
* Pages opened at the same time lose each other's entries of the recently viewed
  list.

## Proofs

All theorems hold for every value of the constants that satisfies the module's
named assumption; the theorems of `ShopProofs` have theirs, `ShopConstants`, as a
hypothesis, which `InstanceAssumption` of `MCShop` makes TLC evaluate.

* **`CheckoutProofs`**. The inductive invariant is `TypeOK`, `NoOversell`,
  `TransactionInv` and the coupon count. `NoOversell` alone is not inductive: a commit adds
  `taken` to `reserved`, so the invariant must say that each running request
  would fit (its second look was under the row's lock) and that no two of them
  hold units of one row (the lock is still held). From it: `TypeCorrect`,
  `NeverOversold`, `CouponLimits`, `LocksProtect`, and
  `CheckoutImplementsLedger`, where every step but `Commit` is a stutter and
  `Commit` is `Reserve`. `OrdersAreBacked` is about sums: `FillFits` says of a
  running request that what it has reserved of a product, what it is about to
  reserve and what it has still to do make up what it read, and `BackInv` that
  `reserved` is the sum over the orders placed. `NothingOrderedTwice` rests on
  `CartInv`: units a request read under the cart's lock are covered by what the
  customer put there and nobody ordered yet. What a sum over a finite set does
  when one of its terms changes is proved in **`SumProofs`** by a least
  counterexample (the library's `WFMin` for strict subsets), since the theorems
  of induction cannot be used.

  `CountedOnce` is about carts and assumes `~Overlap` of Cart. A merge adds a guest's
  line to a customer's, and until it commits both rows are there for the others
  to read, write and clear; if it is lost, only the guest's remains. So what is
  asked for cannot be shared out among the lines once and for all. The
  invariant `Backed` says that however the running merges end, there are shares
  that do: for every set of calls there are a share for each line (never more
  in all than was asked of its article) and its article, so that if just the
  merges in the set commit, what will be in the carts and what running requests
  are about to write stays within the shares. A step keeps it by moving shares:
  a merged line gives its share to the line it was added to, in the sets that
  hold its merge and in no other. `MergeInv` says what merges rely on: no two
  of them claim or have written one line (`MergesApart`), the lines a merge has
  read are its guest's or gone, and those it wrote are nobody else's to change.
* **`NoticesProofs`** begins with Payments. `NeverPaidForNothing` needs that a notice of success
  implies a captured payment.
  `OutcomeIsFinal` is an action property.
  `NeverRefundedTwice` assumes `~EagerRefunds`; its invariant says that an
  order once refunded stays `refunded`, since its transaction is settled.
  Then Chat. `ChatTypeCorrect` and `NoDoubles` rest on `PagesInv`: a page that
  waits for the answer to its own message waits for one that has a number, and
  what it shows is shown once. What the page's loop leaves is proved by the
  least message at which it would go wrong. `EveryMessageOnce` rests on
  `ChatInv`: a message that is not lost has one sender that has still to send
  it or has reached every socket that joined before it, never both (`Senders`,
  `Heard`).
  Then Inventory: `StockCorrect` and `LogIsComplete`. The invariant says
  that a transfer which took units out holds its source row's lock and that the
  row still holds what was read there; otherwise the commit would write an old
  quantity. `PatchInv` says that whole-row saves touch edited rows only.
  `MovedOnce` assumes `~Overlap`; its invariant `TurnInv` says that the transfer
  in a request's hand is still pending and in no other's.
* **`DeliveryProofs`** begins with Fulfilment. `TypeCorrect` and `NeverOversold` hold
  whatever overlaps, since the refusals of `adjust_stock` and `release_stock`
  look at locked rows. `StatusMachine` and `FulfilmentImplementsLedger` assume
  `~Overlap`; their invariant says that what a request loaded is still the
  order's status. Then Delivery: `DeliveryTypeCorrect` and
  `DeliveryNeverOversold` hold whatever overlaps. The rest assume `~Overlap` and
  rest on `DeliveryInv`: what an open request loaded is still the order's
  status, no two requests have one order, an active attempt belongs to an order
  whose status fits how far the attempt has come, and an approval that was cut
  off between its two transactions leaves a pending request of a returned
  order. From it: `OneDeliveryBoy`, `PickedUpGoodsLeft`, `ApprovedCameBack`,
  `AskedOnce`, `DeliveryStatusMachine` and `DeliveryImplementsLedger`, the last
  by the lemmas of Fulfilment's refinement for the steps the two share. `ReservationsAreNeeded` and
  `DeliveryReservationsAreNeeded` state what `double_release` refutes when
  requests overlap: under `~Overlap` each row's reserved units are the sum of
  what its open orders need. Their invariant `BooksInv` adds that only finitely
  many orders are open; a move changes the sum just when it takes an order out
  of the open ones, which is just when the code releases or ships its units.
* **`DefaultsProofs`**. `OneDefaultAddress` and `OneDefaultMethod`. `DefaultsInv`
  says of a request that met no other (`crossed`) that it sees the rows as they
  are, but for the flags it has cleared itself, and that a row about to be
  deleted is the only one it writes; so when it sets the last flag there is one
  default again. That a finite set of keys has a newest is proved by a least
  counterexample; the assumption `Numbered` says that keys are numbers.
* **`AccountsProofs`**. `AccountsInv` joins, per user, what the history says was
  done to what the row says (`Kept`, `LinksSpent`, `FactorTold`, `HasSecret`), and
  says of each request that what it loaded is the row or is marked stale. From
  it: `TypeCorrect`, `NothingTakenBack`, `ResetLinkOnce` and `FactorTrue`. For
  `Profile` as a whole, `OneDefaultEach`, and `SessionsOnList`, whose invariant
  `SessionsInv` says of each browser: it has one request at a time; the key in
  its session is its own and no other's; every row of the list belongs to a key
  that was given out; a stored session that is signed in has an active row on
  the list, or one that was taken off for a noted reason; and what a running
  request holds fits the session as stored.
* **`DeskProofs`** begins with Catalog. A copy (page, list, document) is right
  unless a window is open, so the invariant `CatalogInv` adds to `TypeOK` and
  `CopiesFollowRows` what every running call carries (`JobFits`): the row it
  loaded or saved, and that it is marked `old` as soon as another save passed
  it. From it: `CatalogTypeCorrect`, `CopiesTrue`, and the action property
  `StaffPublish`. Then the parts of `Desk`. Four are systems of their own
  that start with no call running (`SupportSpec`, `MarketingSpec`,
  `ReviewsSpec`, `AuditSpec`). `TicketStatusStands`: a reply that loaded the ticket
  before a change is known as such. `ReferralsRewardedOnce`: the invariant counts
  the referrals whose rewards are still owed by a running call, with
  cardinalities of finite sets, against what the wallets hold.
  `ReviewsStayTrue`: a running change holds the row, or is marked to have been
  overtaken. `AuditReplays`: a row is what the log tells, or what it tells
  together with the one entry that is about to be written. `StoresAreDecided`:
  what a running request loaded has the store's status unless somebody decided
  since, and a store that is being opened or changed has a vendor as its owner.
  `ListsAreAsTold`, on the whole `DeskSpec`: a thing has one row unless the
  requests for it raced, and is listed exactly if its user was last told so,
  unless it was written between that request's look and its write.
  `AnswersGrounded`, on `DeskSpec` as well: while an answer is being made,
  whatever is published now was published since the question (`AnswerStands`),
  so what the search finds is among it, whatever the model made of the question.
  They assume, as the constants of `MCCatalog` and `MCDesk` satisfy, that
  `Idle`, the mark of a request without a job, is none of the jobs (nor a
  customer); Cart's `NothingAssumption` says the same of its `Idle` and `NoLine`.
* **`ShopProofs`**. `HistoryHolds` and `FiguresHold` compare what loops over lists
  make with what a definition over the whole says. A loop is a fold, so its
  values are a function from `0..n`; that what holds at the start and is kept by
  each step holds all the way (`AllTheWay`) is proved once, by a least
  counterexample, and each loop's lemma (what a list keeps of a set, which of
  several equal entries stays, what a sum comes to, which words are taken) says
  what is so after `k` steps. `ShopInv` has one part for each area. `HistoryInv`:
  while a list of recommendations is being made, it has nothing its customer
  had met when the purchases were read, and when it is done nothing twice; every figure
  a report has read is still what a new reading would give, or the report is
  marked as overtaken; counts taken at different times only grow
  (orders are never deleted); so the figures agree (`ReportAgrees`, with
  the sums of `SumProofs` over a partition). That the products viewed last are
  in the order of their last views follows from what `Distinct` does to a
  reversed history. `PagesInv`: a page holds what the session was when loaded,
  and unless pages overlapped that is the session still, which is the start of
  the visits without repetitions. `PricesInv`: each priced order is right by
  itself, and the coupon has gone to one order or can still go to one of the
  groups left, which is why `Accepts` looks for its store in the cart.
  `WordsInv` adds to `EveryWordCounts` only the type of the query, since a search is
  one step; its loop's lemma says that after each word the filters are the first words of
  their kinds among those taken and the text is the rest in order.

The conditional theorems have the form `~Overlap => (Spec => []P)`; `~Overlap` is
satisfied by the instances of `delivery` and `shop`.

Only model-checked: the liveness properties (`EventuallyAnswered`,
`CapturedIsSettled`, `RequestsEnd`, `PagesSettle`, `MessagesArrive`,
`PresenceSettles`), since fairness and `ENABLED` are out of the prover's reach.
Every invariant, action property and refinement that a passing run checks is a
theorem as well.

## Not modelled

Wording, notifications, emails and the history rows; the tax on an order;
signatures and permissions; clock time (a coupon's validity, token lifetimes,
throttling), save for expiries as steps that may come at any time. Questions
and answers, banners, flash sales, FAQs, shipments, the chat's typing and read
marks, a coupon's administration and the plain PATCH and DELETE of a transfer
are forms over one row, or have no rule to break. The search's facets and
ranking, the exports of analytics, the other storefront pages, site settings
and the deployment decide nothing about shared state.

## Plan

1. done: `ReservationLedger`, `Checkout`, `Fulfilment`, `Payments`, `Delivery`,
   `Inventory`, `Cart`, with proofs for all.
2. done: `Catalog`, `Accounts`, `Sessions`, `Defaults`, `PaymentMethods`,
   `Chat`, `Marketing`, `Vendors`, `Reviews`, `Support`, `Audit`, `Entries`,
   `Assistant`, `SmartQuery`, `Analytics`, `Pricing`, `Storefront`, `Profile`,
   `Desk`, with proofs for `Catalog`, `Chat` and the parts of `Profile` and `Desk`.
3. done: `Shop`, with proofs for its parts; every invariant, action property and
   refinement that a passing run checks is a theorem.
