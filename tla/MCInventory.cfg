\* Opposite transfers, each perhaps worked on twice at a time, among changes
\* of the same rows.
SPECIFICATION InventoryFairSpec
CONSTANTS
  Row <- MCRow
  Transfer = {t1, t2}
  Call = {c1, c2}
  Idle = Idle
  NoOne = NoOne
  Stock <- MCStock
  Edited = {"main"}
  Overlap = TRUE
  Amounts = {1}
  MaxUnits = 2
  MaxEdits = 2
INVARIANTS
  LogExplainsStock
PROPERTY
  RequestsEnd
CHECK_DEADLOCK FALSE
