SPECIFICATION MCShopSpec
CONSTANTS
  Ann = Ann
  g1 = g1
  g2 = g2
  k1 = k1
  k2 = k2
  k3 = k3
  c1 = c1
  c2 = c2
  ann = ann
  ben = ben
  p1 = p1
  p2 = p2
  q = q
  s1 = s1
  s2 = s2
  ours = ours
  theirs = theirs
  User = {Ann}
  Guest = {g1, g2}
  Article = {"plain", "red"}
  Plain = {"plain"}
  Line = {k1, k2, k3}
  NoLine = NoLine
  Call = {c1, c2}
  Idle = Idle
  MostUnits <- MCMostUnits
  Overlap = FALSE
  MaxAsked <- MCAsked
  Product = {p1, p2, q}
  Customer = {ann, ben}
  Anonymous = Anonymous
  CategoryOf <- MCCategoryOf
  StoreOf <- MCStoreOf
  PriceOf <- MCPriceOf
  Limit = 2
  Window = 2
  Reports = {}
  Moves <- MCMoves
  MaxViews = 3
  MaxOrders = 1
  MaxEvents = 3
  MaxHidden = 1
  Shown = {p1, p2, q}
  MaxSeen = 2
  MaxPages = 3
  Store = {"ours", "theirs"}
  Blank = Blank
  NoCoupon = NoCoupon
  Subtotal = {99, 101, 250}
  Coupons <- MCCoupons
  RuleSets <- MCRuleSets
  Word = {"apple", "acme", "toys", "red"}
  BrandName = {"apple", "acme"}
  CategoryName = {"apple", "toys"}
  NoName = NoName
  MaxWords = 4
SYMMETRY Symmetry
INVARIANTS
  NothingCountedTwice
  
  FiguresAndWords
\* All orders are priced, or the words are searched: nothing is left to do.
CHECK_DEADLOCK FALSE
