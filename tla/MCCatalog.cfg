SPECIFICATION Spec
CONSTANTS
  p1 = p1
  c1 = c1
  c2 = c2
  Call = {c1, c2}
  Idle = Idle
  Product = {p1}
  Nav = Nav
  NoPage = NoPage
  MaxWrites = 3
INVARIANTS
  CopiesFollowRows
PROPERTIES
  PublishedByStaff
  PagesSettle
