SPECIFICATION Spec
CONSTANTS
  Orders = {o1}
  AccountOrders = {o1}
  Payments = {p1}
  Staff = {s1}
  Moderators = {m1, m2}
  Buyers = {}
  Hooks = {}
  ItemsTotal <- MCItemsTotal
  DeliveryPrices = {1}
  MaxDebt = 4
  NoOrder = NoOrder
  NoPayment = NoPayment
INVARIANT DebtMatchesTotal
CHECK_DEADLOCK FALSE
