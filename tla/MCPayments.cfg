\* Notices repeated, reordered and lost; staff refund only what is settled;
\* Stripe repeats its notices until they are handled.
SPECIFICATION FairSpec
CONSTANTS
  Order <- MCGatewayOrder
  Intent = {"one", "two"}
  Cash = Cash
  IntentOf <- MCIntentOf
  EagerRefunds = FALSE
  MaxDeclines = 1
INVARIANTS
  PaidMeansCaptured
  RefundedOnce
PROPERTIES
  
  CapturedIsSettled
CHECK_DEADLOCK FALSE
