------------------------------ MODULE Analytics ------------------------------
(***************************************************************************)
(* What the shop makes of its history (analytics.services): the products a *)
(* customer viewed last, what else to recommend, and the figures of the    *)
(* reports and dashboards.                                                 *)
(*                                                                         *)
(* Each is several statements, and views, orders and publications go on    *)
(* between them.  They change nothing, so that one at a time shows what    *)
(* any number of them would.  An order by count leaves ties to the         *)
(* database.                                                               *)
(***************************************************************************)
EXTENDS Requests, Integers, Sequences, SequencesExt, FiniteSets, FiniteSetsExt

CONSTANTS
  Product,     \* products
  Customer,    \* customers
  Anonymous,   \* who views without being logged in
  CategoryOf,  \* CategoryOf[p]: the category of a product
  StoreOf,     \* StoreOf[p]: its store
  PriceOf,     \* PriceOf[p]: its price
  Limit,       \* the length of a list
  Window,      \* views looked at for the products viewed last: ten a place
  Reports,     \* the reports asked for
  Moves,       \* bound: the moves of an order's status, pairs
  MaxViews,    \* bound: views
  MaxOrders,   \* bound: orders
  MaxEvents,   \* bound: views and orders together
  MaxHidden    \* bound: products that are not published

AnalyticsConstants ==
  /\ Limit \in Nat /\ Window \in Nat /\ Limit <= Window
  /\ {MaxViews, MaxOrders, MaxEvents, MaxHidden} \subseteq Nat
  /\ IsFiniteSet(Product) /\ PriceOf \in [Product -> Nat \ {0}]
  /\ DOMAIN CategoryOf = Product /\ DOMAIN StoreOf = Product
  /\ Idle \notin Customer /\ \A p \in Product : StoreOf[p] \notin Customer \cup {Idle}
  /\ Reports \subseteq {"sales", "vendor", "admin", "account"}

VARIABLES
  views,      \* ProductView rows, in the order of viewed_at
  orders,     \* orders, in the order they were placed
  published,  \* the published products
  answer      \* what was just answered, or Idle

historyVars == <<views, orders, published>>
analyticsVars == <<historyVars, answer>>

View == [product : Product, user : Customer \cup {Anonymous}]
OrderStatus == {"pending", "shipped", "delivered", "returned", "cancelled"}
Order == [customer : Customer, items : (SUBSET Product) \ {{}}, status : OrderStatus]
Stores == {StoreOf[p] : p \in Product}

AnalyticsTypeOK ==
  /\ views \in Seq(View) /\ orders \in Seq(Order)
  /\ Len(views) + Len(orders) <= MaxEvents /\ Len(orders) <= MaxOrders
  /\ published \subseteq Product

AnalyticsInit ==
  /\ views = <<>> /\ orders = <<>>
  /\ published = Product
  /\ answer = Idle

-----------------------------------------------------------------------------
(* History *)

RecordView(p, u) ==
  /\ Len(views) < MaxViews /\ Len(views) + Len(orders) < MaxEvents
  /\ views' = Append(views, [product |-> p, user |-> u])
  /\ answer' = Idle
  /\ UNCHANGED <<calls, orders, published>>

\* Whose orders these are.
IsOf(order, x) ==
  x = Idle \/ order.customer = x \/ \A p \in order.items : StoreOf[p] = x

\* Whoever reads the figures of such orders has read too early.
OrderMoved(order) ==
  calls' = [c \in Call |->
    IF Does(c, "figures") /\ IsOf(order, calls[c].on) THEN [calls[c] EXCEPT !.old = TRUE] ELSE calls[c]]

PlaceOrder(u, items) ==
  /\ Len(orders) < MaxOrders /\ Len(views) + Len(orders) < MaxEvents
  /\ \E s \in Stores : \A p \in items : StoreOf[p] = s
  /\ LET order == [customer |-> u, items |-> items, status |-> "pending"] IN
       orders' = Append(orders, order) /\ OrderMoved(order)
  /\ answer' = Idle
  /\ UNCHANGED <<views, published>>

MoveOrder(i, status) ==
  /\ <<orders[i].status, status>> \in Moves
  /\ orders' = [orders EXCEPT ![i].status = status]
  /\ OrderMoved(orders[i])
  /\ answer' = Idle
  /\ UNCHANGED <<views, published>>

TogglePublished(p) ==
  /\ published' = IF p \in published THEN published \ {p} ELSE published \cup {p}
  /\ Cardinality(Product \ published') <= MaxHidden
  /\ answer' = Idle
  /\ UNCHANGED <<calls, views, orders>>

-----------------------------------------------------------------------------
(* Counting *)

PURCHASABLE_STATUSES == {"shipped", "delivered"}
ViewsOf(u) == {i \in DOMAIN views : views[i].user = u}
ViewedBy(u) == {views[i].product : i \in ViewsOf(u)}
BoughtBy(u) ==
  UNION {orders[i].items : i \in {j \in DOMAIN orders : orders[j].customer = u /\ orders[j].status \in PURCHASABLE_STATUSES}}
Taken(list, n) == SubSeq(list, 1, Min({n, Len(list)}))

\* The first n of the things in S that count, by their counts: one of these.
Ranked(S, count(_), n) ==
  LET counted == {x \in S : count(x) > 0} IN
  {Taken(list, n) : list \in
    {l \in SetToSeqs(counted) : \A i, j \in DOMAIN l : i < j => count(l[i]) >= count(l[j])}}

UnitsSold(p) == Cardinality({i \in DOMAIN orders : p \in orders[i].items /\ orders[i].status \in PURCHASABLE_STATUSES})
BestSellers(n) == Ranked(Product, UnitsSold, n)

\* The week's views: all of them, here.
ViewCount(p) == Cardinality({i \in DOMAIN views : views[i].product = p})
Trending(n) == Ranked(published, ViewCount, n)

-----------------------------------------------------------------------------
(* Lists *)

\* What of a list is in the set.
Only(list, set) == FoldLeft(LAMBDA kept, x : IF x \in set THEN Append(kept, x) ELSE kept, <<>>, list)

\* Each product once, where it comes first, until there are enough.
Distinct(list) ==
  FoldLeft(LAMBDA seen, p : IF Contains(seen, p) \/ Len(seen) >= Limit THEN seen ELSE Append(seen, p),
           <<>>, list)

-----------------------------------------------------------------------------
(* Products viewed last *)

\* The newest views first, and no more than the window.
RecentViews(u) == Taken(Reverse(Only(views, [product : Product, user : {u}])), Window)

RecentlyViewed(u) ==
  Only(Distinct([i \in DOMAIN RecentViews(u) |-> RecentViews(u)[i].product]), published)

-----------------------------------------------------------------------------
(* Recommendations for a customer *)

NoneRuns == \A c \in Call : calls[c] = Idle
Reads(c, do, row) == Goes(c, [calls[c] EXCEPT !.do = do, !.row = row]) /\ UNCHANGED analyticsVars
Answered(c, what) == answer' = what /\ End(c) /\ UNCHANGED historyVars

\* viewed: history, what the customer had viewed when asking.
AskRecommendations(c, u) ==
  /\ NoneRuns
  /\ Begin(c, Job("purchases", u, [viewed |-> ViewedBy(u)]))
  /\ UNCHANGED analyticsVars

\* Mutant: what was bought is left out, what was viewed is not.
InteractedByBuying(u, viewed) == BoughtBy(u)

Interacted(u, viewed) == viewed \cup BoughtBy(u)

ReadPurchases(c) ==
  LET row == calls[c].row  met == Interacted(calls[c].on, row.viewed) IN
  /\ Does(c, "purchases")
  /\ Reads(c, IF met = {} THEN "cold" ELSE "similar", [viewed |-> row.viewed, met |-> met, list |-> <<>>])

\* Best sellers, published or not.
ColdStart(c) ==
  /\ Does(c, "cold")
  /\ \E list \in BestSellers(Limit), trending \in Trending(Limit) :
       Answered(c, [kind |-> "cold", list |-> IF list = <<>> THEN trending ELSE list])

\* What others viewed who viewed what the customer has met.
ReadSimilar(c) ==
  LET row == calls[c].row
      similar == {u \in Customer \ {calls[c].on} : ViewedBy(u) \cap row.met # {}}
      Score(p) == Cardinality({u \in similar : p \in ViewedBy(u)})
  IN
  /\ Does(c, "similar")
  /\ \E list \in Ranked(Product \ row.met, Score, 2 * Limit) :
       Reads(c, "content", [row EXCEPT !.list = list])

\* Published products of the same categories, in no order.
ReadContent(c) ==
  LET row == calls[c].row
      alike == {p \in published \ row.met : \E q \in row.met : CategoryOf[p] = CategoryOf[q]}
  IN
  /\ Does(c, "content")
  /\ \E list \in SetToSeqs(alike) :
       Reads(c, "fill", [row EXCEPT !.list = Distinct(@ \o Taken(list, 2 * Limit))])

FillUp(c) ==
  LET row == calls[c].row IN
  /\ Does(c, "fill")
  /\ \E best \in BestSellers(2 * Limit) :
       Reads(c, "finish", [row EXCEPT !.list =
         Distinct(@ \o Only(best, Product \ row.met))])

\* The products are loaded at last, those that are published by now.
FinishList(c) ==
  LET row == calls[c].row IN
  /\ Does(c, "finish")
  /\ Answered(c, [kind |-> "list", viewed |-> row.viewed,
                  list |-> Only(row.list, published)])

-----------------------------------------------------------------------------
(* Reports and dashboards *)

\* The figures of a report, in the order they are read, a statement each: the
\* sales report builds its by_status first and reads it last.
Figures ==
  [sales |-> <<"count", "revenue", "statuses">>,
   vendor |-> <<"revenue", "sold", "count", "average", "pending">>,
   admin |-> <<"revenue", "sold", "stores">>,
   account |-> <<"spent", "count", "open", "delivered">>]

\* Of whom a report is: a store or the whole shop, a store, the shop, a customer.
Subject ==
  [sales |-> Stores \cup {Idle}, vendor |-> Stores, admin |-> {Idle}, account |-> Customer]

OrdersOf(x) == {i \in DOMAIN orders : IsOf(orders[i], x)}
WithStatus(x, set) == {i \in OrdersOf(x) : orders[i].status \in set}
Total(ids) == SumFunctionOnSet([i \in ids |-> SumFunctionOnSet(PriceOf, orders[i].items)], ids)

Figure(name, x) ==
  LET sold == WithStatus(x, PURCHASABLE_STATUSES) IN
  CASE name = "count"     -> Cardinality(OrdersOf(x))
    [] name = "revenue"   -> Total(sold)
    [] name = "sold"      -> Cardinality(sold)
    [] name = "average"   -> [sum |-> Total(sold), of |-> Cardinality(sold)]
    [] name = "pending"   -> Cardinality(WithStatus(x, {"pending"}))
    [] name = "open"      -> Cardinality(WithStatus(x, {"pending", "shipped"}))
    [] name = "delivered" -> Cardinality(WithStatus(x, {"delivered"}))
    [] name = "spent"     -> Total(WithStatus(x, OrderStatus \ {"cancelled"}))
    [] name = "stores"    -> [s \in Stores |-> Total(WithStatus(s, PURCHASABLE_STATUSES))]
    [] name = "statuses"  ->
         [st \in OrderStatus |-> [number |-> Cardinality(WithStatus(x, {st})), total |-> Total(WithStatus(x, {st}))]]

AskReport(c, report, x) ==
  /\ NoneRuns
  /\ Begin(c, Job("figures", x, [report |-> report, read |-> <<>>]))
  /\ UNCHANGED analyticsVars

\* One statement more; after the last the report is complete.
ReadFigure(c) ==
  LET row  == calls[c].row
      list == Figures[row.report]
      read == Append(row.read, Figure(list[Len(row.read) + 1], calls[c].on))
  IN
  /\ Does(c, "figures")
  /\ IF Len(read) < Len(list) THEN Reads(c, "figures", [row EXCEPT !.read = read])
     ELSE Answered(c, [kind |-> row.report, moved |-> calls[c].old,
                       figure |-> [name \in ToSet(list) |-> read[CHOOSE i \in DOMAIN list : list[i] = name]]])

-----------------------------------------------------------------------------
AnalyticsNext ==
  \/ \E p \in Product :
       TogglePublished(p) \/ \E u \in Customer \cup {Anonymous} : RecordView(p, u)
  \/ \E u \in Customer, items \in (SUBSET Product) \ {{}} : PlaceOrder(u, items)
  \/ \E i \in DOMAIN orders, status \in OrderStatus : MoveOrder(i, status)
  \/ \E c \in Call :
       \/ \E u \in Customer : AskRecommendations(c, u)
       \/ ReadPurchases(c) \/ ColdStart(c) \/ ReadSimilar(c) \/ ReadContent(c) \/ FillUp(c) \/ FinishList(c)
       \/ \E report \in Reports : \E x \in Subject[report] : AskReport(c, report, x)
       \/ ReadFigure(c)

-----------------------------------------------------------------------------
(* What holds *)

LastView(u, p) == Max({i \in ViewsOf(u) : views[i].product = p})
InWindow(u) == {p \in ViewedBy(u) : Cardinality({i \in ViewsOf(u) : i > LastView(u, p)}) < Window}

\* The products a customer viewed last are the published ones of the last
\* Limit products, each once, by the time of the last view: however often a
\* product was viewed, and as far as the window of views reaches.
LastViewedFirst ==
  \A u \in Customer :
    LET list == RecentlyViewed(u)
        Later(p) == {q \in ViewedBy(u) : LastView(u, q) > LastView(u, p)}
    IN
    /\ ToSet(list) = {p \in InWindow(u) \cap published : Cardinality(Later(p)) < Limit}
    /\ \A i, j \in DOMAIN list : i < j => LastView(u, list[i]) > LastView(u, list[j])

\* A customer with a history is recommended no product that was viewed before
\* and none that is not published by the time of the answer; nobody is
\* recommended a product twice, or more than were asked for.
NewToCustomer ==
  answer # Idle /\ answer.kind \in {"cold", "list"} =>
    /\ IsInjective(answer.list) /\ Len(answer.list) <= Limit
    /\ answer.kind = "list" => ToSet(answer.list) \subseteq published \ answer.viewed

Numbers(statuses) == SumFunction([st \in OrderStatus |-> statuses[st].number])

\* The figures of a report agree with each other if none of its orders was
\* placed or moved while it was made.  Whatever happened, a sales report counts
\* no more orders than its statuses do, and a vendor's sales are no more than
\* the orders.
ReportAgrees ==
  answer # Idle /\ answer.kind \in DOMAIN Figures =>
    LET f == answer.figure  kind == answer.kind IN
    /\ kind = "sales" => f.count <= Numbers(f.statuses)
    /\ kind = "vendor" => f.sold <= f.count
    /\ ~answer.moved =>
         /\ kind = "sales" =>
              /\ f.count = Numbers(f.statuses)
              /\ f.revenue = f.statuses["shipped"].total + f.statuses["delivered"].total
         /\ kind = "vendor" =>
              /\ f.average = [sum |-> f.revenue, of |-> f.sold]
              /\ f.sold + f.pending <= f.count
         /\ kind = "admin" => SumFunction(f.stores) = f.revenue /\ f.sold <= f.revenue
         /\ kind = "account" => f.open + f.delivered <= Min({f.count, f.spent})

=============================================================================
