SPECIFICATION Spec
CONSTANTS
  p1 = p1
  p2 = p2
  o1 = o1
  o2 = o2
  o3 = o3
  Procs = {t1, t2, t3}
  NoProc = NoProc
  NoProduct = NoProduct
  NoOrder = NoOrder
  Products <- MCProducts
  Orders <- MCOrders
  Legacy <- MCLegacy
  Basket <- MCBasket
  HasDelivery <- MCHasDelivery
  InitialStock <- MCInitialStock
  StockLevels <- MCStockLevels
INVARIANTS
  TransactionsConsistent
  NumbersContiguous
  PlacementsNeverDeadlock
SYMMETRY Symmetry
