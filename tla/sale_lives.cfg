SPECIFICATION SaleSpec
CONSTANTS
  Users = {u1}
  Sales = {s1}
  Buys = {b1}
  TopUps = {}
  MaxQuantity = 1
  Amounts = {}
  MaxRate = 5
  MaxClock = 1
  MayFail = {b1}
  Visits = {v1}
  Methods = {"patch", "get", "delete"}
  Jobs = {j1, j2}
  Echoes = {e1}
  MaxRetries = 1
  MayBreak = {s1, v1, j1}
  Restocks = {}
  Droppable = {}
  Allotted = 1
  Shelf = 2
  Opening1 = 0
  Closing1 = 1
  Opening2 = 1
  Closing2 = 2
  First = s1
  DayLength = 4
  Extension = 2
  NoOne = NoOne
  Price <- PriceOf
  Total <- TotalOf
  Opens <- OpensAt
  Closes <- ClosesAt
  Funds <- FundsOf
  DayOf <- Calendar
  Products <- OneProduct
  ProductOf <- ForProduct
  Stocked <- HasUnits
  Patches <- ExtendOrSwitch
INVARIANTS SaleTypeOK RowHasSale ConservedWhileOpen LocksOrdered
PROPERTIES StaysClosed ImplementsSaleBook
