SPECIFICATION Spec
CONSTANTS
  Orders = {o1}
  AccountOrders = {o1}
  Payments = {p1}
  Staff = {s1}
  Moderators = {}
  Buyers = {b1}
  Hooks = {h1}
  ItemsTotal <- MCItemsTotal
  DeliveryPrices = {}
  MaxDebt = 4
  NoOrder = NoOrder
  NoPayment = NoPayment
INVARIANT MoneyAccounted
CHECK_DEADLOCK FALSE
