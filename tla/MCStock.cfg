SPECIFICATION FairSpec
CONSTANTS
  p1 = p1
  p2 = p2
  o1 = o1
  o2 = o2
  o3 = o3
  Procs = {t1, t2}
  NoProc = NoProc
  NoProduct = NoProduct
  NoOrder = NoOrder
  Products <- MCProducts
  Orders <- MCOrders
  Legacy <- MCLegacy
  Basket <- MCBasket
  HasDelivery <- MCHasDelivery
  InitialStock <- MCInitialStock
  StockLevels <- MCStockLevels
INVARIANT TypeOK
PROPERTIES
  PalletsConserved
  ImplementsStockBook
  RequestsEnd
