SPECIFICATION SaleSpec
CONSTANTS
  Users = {u1, u2, u3}
  Sales = {s1}
  Buys = {b1, b2, b3}
  TopUps = {}
  MaxQuantity = 1
  Amounts = {}
  MaxRate = 5
  MaxClock = 1
  MayFail = {}
  Visits = {}
  Methods = {"patch"}
  Jobs = {j1}
  Echoes = {}
  MaxRetries = 3
  MayBreak = {}
  Restocks = {}
  Droppable = {}
  Allotted = 1
  Shelf = 2
  Opening1 = 0
  Closing1 = 1
  Opening2 = 1
  Closing2 = 2
  First = s1
  DayLength = 4
  Extension = 2
  NoOne = NoOne
  Price <- PriceOf
  Total <- TotalOf
  Opens <- OpensAt
  Closes <- ClosesAt
  Funds <- FundsOf
  DayOf <- Calendar
  Products <- OneProduct
  ProductOf <- ForProduct
  Stocked <- HasUnits
  Patches <- Extend
SYMMETRY Same
INVARIANTS NoOversell
