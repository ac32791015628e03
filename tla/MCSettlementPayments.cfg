SPECIFICATION FairSpec
CONSTANTS
  Orders = {o1}
  AccountOrders = {o1}
  Payments = {p1, p2}
  Staff = {s1}
  Moderators = {}
  Buyers = {b1}
  Hooks = {h1}
  ItemsTotal <- MCItemsTotal
  DeliveryPrices = {}
  MaxDebt = 4
  NoOrder = NoOrder
  NoPayment = NoPayment
INVARIANTS
  TypeOK
  SettledOnce
PROPERTIES
  ImplementsPaymentBook
  PaidLeavesPending
CHECK_DEADLOCK FALSE
