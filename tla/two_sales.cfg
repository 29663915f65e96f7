SPECIFICATION HistorySpec
CONSTANTS
  Users = {u1}
  Sales = {s1, s2}
  Buys = {}
  TopUps = {}
  MaxQuantity = 1
  Amounts = {}
  MaxRate = 5
  MaxClock = 2
  MayFail = {}
  Visits = {v1}
  Methods = {"patch", "delete"}
  Jobs = {j1, j2, j3}
  Echoes = {}
  MaxRetries = 1
  MayBreak = {j1}
  Restocks = {0}
  Droppable <- OneProduct
  Allotted = 1
  Shelf = 2
  Opening1 = 0
  Closing1 = 2
  Opening2 = 1
  Closing2 = 2
  First = s1
  DayLength = 4
  Extension = 1
  NoOne = NoOne
  Price <- PriceOf
  Total <- TotalOf
  Opens <- OpensAt
  Closes <- ClosesAt
  Funds <- FundsOf
  DayOf <- Calendar
  Products <- OneProduct
  ProductOf <- ForProduct
  Stocked <- HasUnits
  Patches <- Extend
INVARIANTS SaleHasProduct ShelfAccounts OverlapNeedsRace
