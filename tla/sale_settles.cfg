SPECIFICATION FairSaleSpec
CONSTANTS
  Users = {u1}
  Sales = {s1}
  Buys = {b1}
  TopUps = {}
  MaxQuantity = 2
  Amounts = {}
  MaxRate = 5
  MaxClock = 2
  MayFail = {}
  Visits = {v1}
  Methods = {"patch", "delete"}
  Jobs = {j1, j2}
  Echoes = {}
  MaxRetries = 3
  MayBreak = {}
  Restocks = {0}
  Droppable = {}
  Allotted = 1
  Shelf = 2
  Opening1 = 0
  Closing1 = 1
  Opening2 = 1
  Closing2 = 2
  First = s1
  DayLength = 4
  Extension = 2
  NoOne = NoOne
  Price <- PriceOf
  Total <- TotalOf
  Opens <- OpensAt
  Closes <- ClosesAt
  Funds <- FundsOf
  DayOf <- Calendar
  Products <- OneProduct
  ProductOf <- ForProduct
  Stocked <- HasUnits
  Patches <- Extend
INVARIANTS FitsWhileOpen
PROPERTIES SaleCloses AllSettle
