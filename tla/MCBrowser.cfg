SPECIFICATION BrowserSpec
CONSTANTS
  Customers = {c1}
  Staff = {u1}
  Requests = {q1, q2}
  MaxPasswords = 2
  NoAccount = NoAccount
  Tabs = {t1, t2}
  Products = {p1, p2}
  CartOrders = {o1, o2}
  NoTab = NoTab
INVARIANTS
  BrowserTypeOK
  SessionIsUsers
  TemporaryIsForced
  WantedKept
  OrderedOnce
PROPERTIES
  TokensCatchUp
