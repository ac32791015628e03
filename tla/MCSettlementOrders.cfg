SPECIFICATION Spec
CONSTANTS
  Orders = {o1, g1}
  AccountOrders = {o1}
  Payments = {p1}
  Staff = {s1, s2}
  Moderators = {m1}
  Buyers = {}
  Hooks = {}
  ItemsTotal <- MCItemsTotal
  DeliveryPrices = {1, 2}
  MaxDebt = 5
  NoOrder = NoOrder
  NoPayment = NoPayment
INVARIANTS
  DebtMatchesTotal
PROPERTIES
  FlowRespected
  CancelReversesDebt
CHECK_DEADLOCK FALSE
