------------------------------- MODULE MCShop -------------------------------
(***************************************************************************)
(* Shop on small sets, with two areas more that share no state with it nor *)
(* with each other: the carts of customers and guests, and the reports,    *)
(* whose history has other bounds than that of the lists.                  *)
(***************************************************************************)
EXTENDS Cart, Shop, TLC

CONSTANTS
  Ann, g1, g2, k1, k2, k3, c1, c2,
  ann, ben, p1, p2, q, s1, s2, ours, theirs

MCMostUnits == [plain |-> 2, red |-> 1]
MCAsked == [s \in Article |-> 2]

-----------------------------------------------------------------------------
MCStoreOf == (p1 :> ours) @@ (p2 :> ours) @@ (q :> theirs)
MCCategoryOf == (p1 :> "books") @@ (p2 :> "books") @@ (q :> "games")
MCPriceOf == (p1 :> 1) @@ (p2 :> 1) @@ (q :> 3)
MCMoves == {<<"pending", "shipped">>, <<"shipped", "returned">>}

\* A third of a cent, half a cent, and a percentage that nothing rules out.
MCCoupons ==
  [kind : {"percentage"}, value : {33, 50, 150}, minimum : {0}, store : {Blank, "ours"}]
    \cup [kind : {"fixed"}, value : {100}, minimum : {0, 200}, store : {Blank, "ours"}]
    \cup [kind : {"free_shipping"}, value : {0}, minimum : {0}, store : {Blank}]
MCRule(priority, id, store, least, free) ==
  [priority |-> priority, id |-> id, store |-> store, least |-> least, free |-> free, cost |-> 10 * id]
MCRuleSets ==
  SUBSET {MCRule(0, 1, Blank, 0, FALSE), MCRule(0, 2, Blank, 100, FALSE), MCRule(1, 3, "ours", 100, TRUE),
          MCRule(1, 4, Blank, 200, FALSE)}

MCReportStores == (p1 :> s1) @@ (p2 :> s2)
MCReportPrices == (p1 :> 2) @@ (p2 :> 2)

R == INSTANCE Analytics WITH
  Product <- {p1, p2}, CategoryOf <- MCReportStores, StoreOf <- MCReportStores,
  PriceOf <- MCReportPrices, Limit <- 0, Window <- 0,
  Reports <- {"sales", "vendor", "admin", "account"},
  Moves <- {<<"pending", "shipped">>, <<"shipped", "delivered">>, <<"pending", "cancelled">>},
  MaxViews <- 0, MaxOrders <- 2, MaxEvents <- 2, MaxHidden <- 0

ASSUME InstanceAssumption == ShopConstants /\ R!AnalyticsConstants

-----------------------------------------------------------------------------
pageAndPriceVars == <<storefrontVars, pricingVars, queryVars>>
mcShopVars == <<shopVars, cartVars>>

MCShopInit ==
  /\ CartInit
  /\ \/ ShopInit
     \/ /\ area \in {"carts", "reports"}
        /\ R!AnalyticsInit /\ StorefrontInit /\ PricingStill /\ SearchStill

MCShopNext ==
  \/ ShopNext /\ UNCHANGED <<items, guests, asked>>
  \/ area = "carts" /\ CartNext /\ UNCHANGED <<area, analyticsVars, pageAndPriceVars>>
  \/ area = "reports" /\ R!AnalyticsNext /\ UNCHANGED <<area, items, guests, asked, pageAndPriceVars>>

MCShopSpec == MCShopInit /\ [][MCShopNext]_mcShopVars

-----------------------------------------------------------------------------
\* Guest carts, products and stores, and requests and customers, are swapped
\* together: no behaviour is about both carts and the others.
Swap(x, y) == (x :> y) @@ (y :> x)
Symmetry ==
  Permutations({k1, k2, k3}) \cup
    {Swap(g1, g2) @@ Swap(p1, p2) @@ Swap(s1, s2), Swap(c1, c2), Swap(ann, ben),
     Swap(c1, c2) @@ Swap(ann, ben)}

=============================================================================
