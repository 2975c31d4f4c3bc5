SPECIFICATION ChatSpec
CONSTANTS
  customer = customer
  vendor = vendor
  c1 = c1
  c2 = c2
  Party = {customer, vendor}
  Socket = {c1, c2}
  Reader = {vendor}
  PartyOf <- MCPartyOf
  MaxMessages = 2
  PageSize = 1
INVARIANTS
  NothingMissed
  ShownOnce
PROPERTIES
  MessagesArrive
  PresenceSettles
