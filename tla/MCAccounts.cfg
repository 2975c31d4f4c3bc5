SPECIFICATION ProfileSpec
\* The bound on keys is what stops the model: the last address may go.
CHECK_DEADLOCK FALSE
CONSTANTS
  ann = ann
  mia = mia
  bob = bob
  b1 = b1
  b2 = b2
  c1 = c1
  c2 = c2
  User = {ann}
  Call = {c1, c2}
  Idle = Idle
  MaxPasswords = 2
  MaxLogins = 1
  MaxLinks = 1
  MaxSecrets = 2
  Item <- MCItem
  Flag <- MCFlag
  Browser = {b1, b2}
  Member = {mia, bob}
  MaxKeys = 2
  MaxRows = 2
SYMMETRY Symmetry
INVARIANTS
  AccountKept
  LinkWorksOnce
  FactorAsTold
  OneDefault
  SessionsListed
