SPECIFICATION FairSpec
CONSTANTS
  Users = {u1}
  Sales = {s1, s2}
  Buys = {b1, b2}
  TopUps = {t1}
  MaxQuantity = 2
  Amounts = {2}
  Unit = 1
  Allotted = 2
  Wallet = 2
  From = 1
  Until = 2
  DayLength = 3
  MaxRate = 1
  MaxClock = 3
  MayFail = {b1, b2, t1}
  NoOne = NoOne
  Price <- PriceOf
  Total <- TotalOf
  Opens <- OpensAt
  Closes <- ClosesAt
  Funds <- FundsOf
  DayOf <- Calendar
INVARIANTS StockInv MoneyBounds RowHasMark MarkHasBuyer WindowCloses
PROPERTIES NoSecondPurchase RefusedForLack Answered
