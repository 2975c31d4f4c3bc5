------------------------------ MODULE Payments ------------------------------
(***************************************************************************)
(* Paying for orders through a gateway and refunding them:                 *)
(* payments.services, its gateways stripe, jazzcash and easypaisa, and the *)
(* webhook and callback views.                                             *)
(*                                                                         *)
(* One payment (an intent) covers all the orders of a checkout, one per    *)
(* store; each order has its own PaymentTransaction.  The provider decides *)
(* on its own time and tells the shop by notices, which arrive in any      *)
(* order and perhaps more than once.  The redirect gateways send theirs    *)
(* through the customer's browser, which may never deliver them.           *)
(*                                                                         *)
(* Every handler runs in one transaction that locks the rows it decides    *)
(* on: the pending transactions and then the order, or just the order.     *)
(***************************************************************************)
EXTENDS Integers, FiniteSets

CONSTANTS
  Order,
  Intent,       \* payments at a gateway
  Cash,         \* not a payment: the order is paid on delivery
  IntentOf,     \* [Order -> Intent, or Cash]
  EagerRefunds, \* may staff refund an order before its payment is settled?
  MaxDeclines   \* bound: refusals of one payment

ASSUME PaymentsAssumption ==
  /\ Cash \notin Intent
  /\ IntentOf \in [Order -> Intent \cup {Cash}]
  /\ EagerRefunds \in BOOLEAN
  /\ MaxDeclines \in Nat

VARIABLES
  \* the shop
  status,     \* status[o]: Order.status, as far as payments look at it
  payment,    \* payment[o]: Order.payment_status
  txn,        \* txn[o]: status of the order's PaymentTransaction, if it has one
  credited,   \* credited[o]: wallet_refund rows, each with its wallet credit
  returned,   \* returned[o]: stripe_refund rows
  gateway,    \* gateway[i]: the payment's method, chosen at checkout
  \* the provider
  intent,     \* intent[i]: how far the customer is with the payment
  givenBack,  \* the payments refunded to the card
  notices,    \* notices sent and not yet acknowledged
  declines    \* declines[i]: refusals so far

shop == <<status, payment, txn, credited, returned, gateway>>
provider == <<intent, givenBack, notices, declines>>
vars == <<shop, provider>>

Gateway == {"stripe", "jazzcash", "easypaisa"}

\* The payments at Stripe; the other gateways redirect the customer.
Stripe == {i \in Intent : gateway[i] = "stripe"}

Notice == [intent : Intent, succeeded : BOOLEAN]
OrdersOf(i) == {o \in Order : IntentOf[o] = i}

TypeOK ==
  /\ status \in [Order -> {"pending", "processing", "cancelled"}]
  /\ payment \in [Order -> {"pending", "paid", "failed", "refunded"}]
  /\ txn \in [Order -> {"none", "pending", "success", "failed"}]
  /\ credited \in [Order -> Nat]
  /\ returned \in [Order -> Nat]
  /\ intent \in [Intent -> {"none", "open", "closed", "captured"}]
  /\ gateway \in [Intent -> Gateway \cup {"none"}]
  /\ givenBack \subseteq Intent
  /\ notices \subseteq Notice
  /\ declines \in [Intent -> 0..MaxDeclines]

Init ==
  /\ status = [o \in Order |-> "pending"]
  /\ payment = [o \in Order |-> "pending"]
  /\ txn = [o \in Order |-> "none"]
  /\ credited = [o \in Order |-> 0]
  /\ returned = [o \in Order |-> 0]
  /\ gateway = [i \in Intent |-> "none"]
  /\ intent = [i \in Intent |-> "none"]
  /\ givenBack = {}
  /\ notices = {}
  /\ declines = [i \in Intent |-> 0]

-----------------------------------------------------------------------------
(* The payment is begun, and the provider's side of it *)

\* A payment is begun, and a pending transaction recorded for these orders.
Begin(i, method, orders, next) ==
  /\ intent[i] = "none"
  /\ intent' = [intent EXCEPT ![i] = next]
  /\ gateway' = [gateway EXCEPT ![i] = method]
  /\ txn' = [o \in Order |-> IF o \in orders THEN "pending" ELSE txn[o]]
  /\ UNCHANGED <<status, payment, credited, returned, givenBack, notices, declines>>

\* create_payment_intent_for_orders, one transaction of the database.
CreatePaymentIntent(i) == Begin(i, "stripe", OrdersOf(i), "open")

\* build_payment_request of a redirect gateway commits order by order.  The
\* customer learns how to pay only from the answer: if the process dies on the
\* way, some orders wait for a payment that never comes.
BuildRequest(i, method) ==
  \/ Begin(i, method, OrdersOf(i), "open")
  \/ \E orders \in SUBSET OrdersOf(i) : Begin(i, method, orders, "closed")

BuildJazzCash(i) == BuildRequest(i, "jazzcash")
BuildEasyPaisa(i) == BuildRequest(i, "easypaisa")

Tell(i, succeeded) ==
  notices' = notices \cup {[intent |-> i, succeeded |-> succeeded]}

\* A refused card leaves a Stripe payment open for another try; a redirect
\* gateway is done with it.
Decline(i) ==
  /\ intent[i] = "open" /\ declines[i] < MaxDeclines
  /\ declines' = [declines EXCEPT ![i] = @ + 1]
  /\ intent' = [intent EXCEPT ![i] = IF i \in Stripe THEN "open" ELSE "closed"]
  /\ Tell(i, FALSE)
  /\ UNCHANGED <<shop, givenBack>>

Capture(i) ==
  /\ intent[i] = "open"
  /\ intent' = [intent EXCEPT ![i] = "captured"]
  /\ Tell(i, TRUE)
  /\ UNCHANGED <<shop, givenBack, declines>>

\* The customer closes the browser before it posts to the return URL.
LoseNotice(n) ==
  /\ n \in notices /\ n.intent \notin Stripe
  /\ notices' = notices \ {n}
  /\ UNCHANGED <<shop, intent, givenBack, declines>>

-----------------------------------------------------------------------------
(* Webhooks and callbacks *)

\* The transactions a notice is about: those of its payment, while pending.
\* Mutants: transactions already settled are settled again; the method asked
\* for is another gateway's.
ToSettleAgain(i) == {o \in OrdersOf(i) : txn[o] # "none"}
ToSettleRedirected(i) == {o \in OrdersOf(i) : i \notin Stripe /\ txn[o] = "pending"}

ToSettle(i) == {o \in OrdersOf(i) : txn[o] = "pending"}

\* Mutant: the outcome is not looked at.
OutcomePaid(n) == IF n \in notices THEN "paid" ELSE "failed"

Outcome(n) == IF n.succeeded THEN "paid" ELSE "failed"
Confirms(n, o) == n.succeeded /\ status[o] = "pending"

\* What every gateway does with a notice.  When the answer does not reach its
\* sender, the notice comes again.
Settle(n) ==
  LET mine == ToSettle(n.intent) IN
  /\ n \in notices
  /\ txn' = [o \in Order |->
       IF o \in mine THEN IF n.succeeded THEN "success" ELSE "failed" ELSE txn[o]]
  /\ payment' = [o \in Order |-> IF o \in mine THEN Outcome(n) ELSE payment[o]]
  /\ status' = [o \in Order |->
       IF o \in mine /\ Confirms(n, o) THEN "processing" ELSE status[o]]
  /\ notices' \in {notices, notices \ {n}}
  /\ UNCHANGED <<credited, returned, gateway, intent, givenBack, declines>>

\* Stripe's webhook, and what the browser posts to a return URL: a gateway
\* looks only at transactions of its own.
HandleWebhookEvent(n) == gateway[n.intent] = "stripe" /\ Settle(n)
HandleJazzCash(n) == gateway[n.intent] = "jazzcash" /\ Settle(n)
HandleEasyPaisa(n) == gateway[n.intent] = "easypaisa" /\ Settle(n)

-----------------------------------------------------------------------------
(* Staff *)

\* Staff confirm an order, a cash order say, by hand.
ConfirmByHand(o) ==
  /\ status[o] = "pending"
  /\ status' = [status EXCEPT ![o] = "processing"]
  /\ UNCHANGED <<payment, txn, credited, returned, gateway, provider>>

Cancel(o) ==
  /\ status[o] \in {"pending", "processing"}
  /\ status' = [status EXCEPT ![o] = "cancelled"]
  /\ UNCHANGED <<payment, txn, credited, returned, gateway, provider>>

Settled(o) == IntentOf[o] = Cash \/ txn[o] \in {"success", "failed"}

\* Mutant: neither refund looks at payment_status.
RefundableAlways(o) == EagerRefunds \/ Settled(o)

Refundable(o) == payment[o] # "refunded" /\ (EagerRefunds \/ Settled(o))

\* refund_order_to_wallet asks nothing about what was paid.
RefundToWallet(o) ==
  /\ Refundable(o)
  /\ credited' = [credited EXCEPT ![o] = @ + 1]
  /\ payment' = [payment EXCEPT ![o] = "refunded"]
  /\ UNCHANGED <<status, txn, returned, gateway, provider>>

\* refund_payment_intent: Refund.create names the payment and no amount, so
\* the provider gives back all of it, once; it refuses a second time.
AsksProvider(o) ==
  /\ Refundable(o) /\ txn[o] = "success"
  /\ IntentOf[o] \in Stripe \ givenBack
  /\ givenBack' = givenBack \cup {IntentOf[o]}

RefundToCard(o) ==
  /\ AsksProvider(o)
  /\ returned' = [returned EXCEPT ![o] = @ + 1]
  /\ payment' = [payment EXCEPT ![o] = "refunded"]
  /\ UNCHANGED <<status, txn, credited, gateway, intent, notices, declines>>

\* The process dies after the provider's answer and before the commit.
RefundUnrecorded(o) ==
  /\ AsksProvider(o)
  /\ UNCHANGED <<shop, intent, notices, declines>>

Next ==
  \/ \E i \in Intent :
       \/ CreatePaymentIntent(i) \/ BuildJazzCash(i) \/ BuildEasyPaisa(i)
       \/ Decline(i) \/ Capture(i)
  \/ \E n \in notices :
       LoseNotice(n) \/ HandleWebhookEvent(n) \/ HandleJazzCash(n) \/ HandleEasyPaisa(n)
  \/ \E o \in Order :
       \/ ConfirmByHand(o) \/ Cancel(o)
       \/ RefundToWallet(o) \/ RefundToCard(o) \/ RefundUnrecorded(o)

Spec == Init /\ [][Next]_vars

\* Stripe repeats a notice until the shop acknowledges it.
FairSpec ==
  /\ Spec
  /\ \A n \in Notice : WF_vars(HandleWebhookEvent(n))

-----------------------------------------------------------------------------
(* Properties *)

\* Whatever order notices arrive in, and however often, an order counts as
\* paid, and its transaction as successful, only if the provider has the money.
PaidMeansCaptured ==
  \A o \in Order :
    payment[o] = "paid" \/ txn[o] = "success" =>
      IntentOf[o] \in Intent /\ intent[IntentOf[o]] = "captured"

\* A second notice about a settled transaction changes nothing, neither the
\* transaction nor a cancelled order.
SettledOnce ==
  [][\A o \in Order :
       /\ txn[o] \in {"success", "failed"} => txn'[o] = txn[o]
       /\ status[o] = "cancelled" => status'[o] = "cancelled"]_vars

\* No order is recorded as refunded twice, to the wallet, to the card, or to
\* both ("has already been refunded", payments/services/__init__.py).  A refund
\* lost before it was recorded is not counted.
RefundedOnce == \A o \in Order : credited[o] + returned[o] <= 1

\* No order of a captured Stripe payment waits for its outcome for ever.
CapturedIsSettled ==
  \A i \in Intent : i \in Stripe /\ intent[i] = "captured" ~> \A o \in OrdersOf(i) : txn[o] # "pending"

=============================================================================
