SPECIFICATION Spec
CONSTANTS
  Orders = {o1}
  AccountOrders = {o1}
  Payments = {p1, p2, p3}
  Staff = {s1}
  Moderators = {}
  Buyers = {b1, b2}
  Hooks = {h1}
  ItemsTotal <- MCItemsTotal
  DeliveryPrices = {}
  MaxDebt = 4
  NoOrder = NoOrder
  NoPayment = NoPayment
INVARIANT PaidOnce
CHECK_DEADLOCK FALSE
