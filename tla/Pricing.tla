------------------------------- MODULE Pricing -------------------------------
(***************************************************************************)
(* What a checkout costs: the loop of orders.services.place_order over the *)
(* stores of the cart, with the coupon's discount (coupons.services) and   *)
(* the shipping rules (shipping.rules).  Amounts are in cents.             *)
(***************************************************************************)
EXTENDS Integers, Sequences, SequencesExt, FiniteSets, FiniteSetsExt

CONSTANTS
  Store,      \* the vendors' stores
  Blank,      \* a condition that is left blank
  NoCoupon,   \* a checkout without a coupon
  Subtotal,   \* amounts that the goods of one store may cost
  Coupons,    \* the coupons there are
  RuleSets    \* the sets of shipping rules there are

Coupon ==
  [kind : {"percentage", "fixed", "free_shipping"}, value : Nat, minimum : Nat, store : Store \cup {Blank}]
ShippingRule ==
  [priority : Int, id : Nat, store : Store \cup {Blank}, least : Nat, free : BOOLEAN, cost : Nat]

PricingConstants ==
  /\ IsFiniteSet(Store) /\ Subtotal \subseteq Nat
  /\ Coupons \subseteq Coupon /\ NoCoupon \notin Coupon
  /\ \A set \in RuleSets :
       /\ IsFiniteSet(set) /\ set \subseteq ShippingRule
       /\ \A r, o \in set : r.id = o.id => r = o

VARIABLES
  groups,   \* groups: the stores still to price, and what their goods cost
  coupon,   \* the coupon of the checkout, or NoCoupon
  rules,    \* the active shipping rules
  applied,  \* was the coupon applied to one of the orders?
  priced    \* the orders priced so far

pricingVars == <<groups, coupon, rules, applied, priced>>

Group == [store : Store, subtotal : Subtotal]
Priced == [store : Store, subtotal : Subtotal, discount : Nat, shipping : Nat, total : Int, coupon : BOOLEAN]

PricingTypeOK ==
  /\ groups \in Seq(Group)
  /\ coupon \in Coupons \cup {NoCoupon}
  /\ rules \in RuleSets
  /\ applied \in BOOLEAN
  /\ priced \in Seq(Priced)

SumOf(list, Amount(_)) == FoldLeft(LAMBDA sum, x : sum + Amount(x), 0, list)
SubtotalOf(group) == group.subtotal

\* The coupon's minimum is for the whole cart; its store must be in the cart.
Accepts(cpn, cart) ==
  /\ SumOf(cart, SubtotalOf) >= cpn.minimum
  /\ cpn.store # Blank => \E i \in DOMAIN cart : cart[i].store = cpn.store

Carts ==
  {cart \in UNION {[1..n -> Group] : n \in 1..Cardinality(Store)} :
     \A i, j \in DOMAIN cart : cart[i].store = cart[j].store => i = j}

PricingInit ==
  /\ groups \in Carts
  /\ coupon \in {NoCoupon} \cup {cpn \in Coupons : Accepts(cpn, groups)}
  /\ rules \in RuleSets
  /\ applied = FALSE
  /\ priced = <<>>

-----------------------------------------------------------------------------
(* Shipping *)

\* Place, weight and warehouse are conditions like these two.
Matches(r, group) == r.store \in {Blank, group.store} /\ group.subtotal >= r.least

\* The model's ordering: -priority, then id.
Before(r, q) == r.priority > q.priority \/ (r.priority = q.priority /\ r.id < q.id)
InOrder(set) == CHOOSE list \in SetToSeqs(set) : \A i, j \in DOMAIN list : i < j => Before(list[i], list[j])

\* The first rule that matches; no rule, no cost.
ShippingCost(group) ==
  LET list == InOrder(rules)
      matching == {i \in DOMAIN list : Matches(list[i], group)}
  IN
  IF matching = {} \/ list[Min(matching)].free THEN 0 ELSE list[Min(matching)].cost

-----------------------------------------------------------------------------
(* The discount *)

\* quantize(Decimal("0.01")): half a cent goes to the even cent.
HalfEven(n, d) ==
  LET whole == n \div d  rest == n % d IN
  IF 2 * rest > d \/ (2 * rest = d /\ whole % 2 = 1) THEN whole + 1 ELSE whole

Discount(cpn, subtotal, shipping) ==
  CASE cpn.kind = "percentage" -> HalfEven(subtotal * cpn.value, 100)
    [] cpn.kind = "fixed" -> Min({cpn.value, subtotal})
    [] cpn.kind = "free_shipping" -> shipping

\* Mutant: every order of the checkout gets the discount.
GetsCouponAgain(store) == coupon # NoCoupon /\ coupon.store \in {Blank, store}

\* The first order that it is for.
GetsCoupon(store) == coupon # NoCoupon /\ ~applied /\ coupon.store \in {Blank, store}

PriceOrder ==
  LET group    == Head(groups)
      shipping == ShippingCost(group)
      gets     == GetsCoupon(group.store)
      discount == IF gets THEN Discount(coupon, group.subtotal, shipping) ELSE 0
  IN
  /\ groups # <<>>
  /\ groups' = Tail(groups)
  /\ applied' = (applied \/ gets)
  /\ priced' = Append(priced,
       [store |-> group.store, subtotal |-> group.subtotal, discount |-> discount, shipping |-> shipping,
        total |-> group.subtotal - discount + shipping, coupon |-> gets])
  /\ UNCHANGED <<coupon, rules>>

PricingNext == PriceOrder

-----------------------------------------------------------------------------
(* What holds *)

\* Written anew: the rules that are for an order, and the one that counts, which
\* no other of them comes before: a higher priority, or the same and older.
AreFor(order) == {r \in rules : r.store \in {Blank, order.store} /\ r.least <= order.subtotal}
Counts(r, order) ==
  /\ r \in AreFor(order)
  /\ \A o \in AreFor(order) \ {r} : o.priority < r.priority \/ (o.priority = r.priority /\ r.id < o.id)

\* A checkout that is priced gives its coupon to exactly one order, of the
\* coupon's store if it has one; no order gets more off than it costs, unless
\* a percentage is over a hundred, which nothing rules out; a percentage is
\* right to half a cent; and each order is shipped at the price of the rule
\* that counts, which is free where the rule says so.
TotalsAddUp ==
  /\ \A i \in DOMAIN priced :
       LET order == priced[i] IN
       /\ order.total = order.subtotal + order.shipping - order.discount
       /\ order.total < 0 => order.coupon /\ coupon.kind = "percentage" /\ coupon.value > 100
       /\ order.coupon => coupon.store \in {Blank, order.store}
       /\ order.discount > 0 => order.coupon
       /\ order.coupon /\ coupon.kind = "percentage" =>
            LET exact == order.subtotal * coupon.value IN
            100 * order.discount - exact \in -50..50
       /\ order.coupon /\ coupon.kind = "free_shipping" => order.total = order.subtotal
       /\ \A r \in rules : Counts(r, order) => order.shipping = IF r.free THEN 0 ELSE r.cost
       /\ AreFor(order) = {} => order.shipping = 0
  /\ groups = <<>> /\ coupon # NoCoupon => Cardinality({i \in DOMAIN priced : priced[i].coupon}) = 1

=============================================================================
