-------------------------------- MODULE Shop --------------------------------
(***************************************************************************)
(* The lists and reports made of the shop's history, the price of a        *)
(* checkout, the words of a search, and the product pages of a visitor.    *)
(* They share no state of the program; here the history and the pages      *)
(* share the running requests, so each behaviour is about one of the four, *)
(* chosen at its start, while the others stand still.                      *)
(***************************************************************************)
EXTENDS Analytics, Storefront, Pricing, SmartQuery

VARIABLE area

ShopConstants ==
  AnalyticsConstants /\ StorefrontConstants /\ PricingConstants /\ SmartQueryConstants

shopVars == <<area, calls, analyticsVars, storefrontVars, pricingVars, queryVars>>

PricingStill == groups = <<>> /\ coupon = NoCoupon /\ rules = {} /\ applied = FALSE /\ priced = <<>>
SearchStill == query = <<>> /\ chosen = NoName /\ found = NoName

ShopInit ==
  /\ area \in {"history", "pages", "prices", "words"}
  /\ calls = [c \in Call |-> Idle]
  /\ AnalyticsInit /\ StorefrontInit
  /\ IF area = "prices" THEN PricingInit ELSE PricingStill
  /\ IF area = "words" THEN SmartQueryInit ELSE SearchStill

ShopNext ==
  /\ UNCHANGED area
  /\ \/ /\ area = "history" /\ AnalyticsNext
        /\ UNCHANGED <<storefrontVars, pricingVars, queryVars>>
     \/ /\ area = "pages" /\ StorefrontNext
        /\ UNCHANGED <<analyticsVars, pricingVars, queryVars>>
     \/ /\ area = "prices" /\ PricingNext
        /\ UNCHANGED <<calls, analyticsVars, storefrontVars, queryVars>>
     \/ /\ area = "words" /\ SmartQueryNext
        /\ UNCHANGED <<calls, analyticsVars, storefrontVars, pricingVars>>

ShopSpec == ShopInit /\ [][ShopNext]_shopVars

\* What is made of the shop's history is true of it: the products viewed last,
\* the recommendations, the reports and dashboards (Analytics), and the
\* products a visitor has seen (Storefront).
HistoryRetold == LastViewedFirst /\ NewToCustomer /\ ReportAgrees /\ SeenInOrder /\ StripTrue

\* A checkout's figures add up, and the words of a search all count (Pricing,
\* SmartQuery).
FiguresAndWords == TotalsAddUp /\ EveryWordCounts

=============================================================================
