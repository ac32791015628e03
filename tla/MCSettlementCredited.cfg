SPECIFICATION Spec
CONSTANTS
  Orders = {o1}
  AccountOrders = {o1}
  Payments = {p1}
  Staff = {s1}
  Moderators = {m1}
  Buyers = {b1}
  Hooks = {h1}
  ItemsTotal <- MCItemsTotal
  DeliveryPrices = {1}
  MaxDebt = 4
  NoOrder = NoOrder
  NoPayment = NoPayment
INVARIANT CreditedWhatWasPaid
CHECK_DEADLOCK FALSE
