SPECIFICATION Spec
CONSTANTS
  Users = {u1}
  Sales = {s1}
  Buys = {b1, b2}
  TopUps = {}
  MaxQuantity = 1
  Amounts = {}
  Unit = 1
  Allotted = 2
  Wallet = 3
  From = 0
  Until = 0
  DayLength = 1
  MaxRate = 5
  MaxClock = 0
  MayFail = {}
  NoOne = NoOne
  Price <- PriceOf
  Total <- TotalOf
  Opens <- OpensAt
  Closes <- ClosesAt
  Funds <- FundsOf
  DayOf <- Calendar
SYMMETRY Same
INVARIANTS OncePerDay
