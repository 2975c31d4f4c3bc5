SPECIFICATION DeskSpec
CONSTANTS
  c1 = c1
  c2 = c2
  u1 = u1
  u2 = u2
  u3 = u3
  p1 = p1
  p2 = p2
  q = q
  i1 = i1
  i2 = i2
  f1 = f1
  f2 = f2
  s1 = s1
  s2 = s2
  w = w
  a = a
  v = v
  k1 = k1
  k2 = k2
  k3 = k3
  NoRow = NoRow
  Call = {c1, c2}
  Idle = Idle
  Customer = {u1, u2, u3}
  MaxCredits = 1
  Goods = {p1, p2}
  ReviewId = {i1, i2}
  MaxReplies = 1
  Ticket = {t}
  MaxReplied = 2
  Record = {r}
  Field = {f1, f2}
  MaxValue = 1
  Seller = {s1, s2}
  Wish = {w}
  Address = {a}
  Conversation = {v}
  Pk = {k1, k2, k3}
  Asker = {ask}
  Item = {p1, p2, q}
  Brand = {"A", "B"}
  BrandOf <- MCBrandOf
  MaxProducts = 1
SYMMETRY Symmetry
INVARIANTS
  RewardedOnce
  ReviewsTrue
  StatusStands
  LogReplays
  StoresStand
  EntriesAsTold
  ReplyGrounded
\* Everybody was referred and has a code, or the row is gone: nothing is left to do.
CHECK_DEADLOCK FALSE
