\* Two orders from checkout to return, requests for one order in turn.
SPECIFICATION DeliverySpec
CONSTANTS
  Order <- MCOrder
  Row <- MCRow
  Call = {c1, c2}
  Idle = Idle
  Need <- MCNeed
  Stock <- MCStock
  Overlap = FALSE
  Corrected = {"cup@1"}
  MaxUnits = 2
  Attempt = {t1, t2}
  Return = {x1, x2}
  NoRecord = NoRecord
SYMMETRY Interchangeable
INVARIANTS
  OneActiveAttempt
  GoodsLeftStock
  ReturnsMatchOrders
  OneReturn
PROPERTIES
  OnlyAllowedMoves
  ImplementsLedger
CHECK_DEADLOCK FALSE
