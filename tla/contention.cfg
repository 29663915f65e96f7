SPECIFICATION Spec
CONSTANTS
  Users = {u1, u2}
  Sales = {s1}
  Buys = {b1, b2, b3}
  TopUps = {}
  MaxQuantity = 2
  Amounts = {}
  Unit = 1
  Allotted = 3
  Wallet = 2
  From = 0
  Until = 0
  DayLength = 1
  MaxRate = 5
  MaxClock = 0
  MayFail = {}
  NoOne = NoOne
  Price <- PriceOf
  Total <- TotalOf
  Opens <- OpensAt
  Closes <- ClosesAt
  Funds <- FundsOf
  DayOf <- Calendar
SYMMETRY Same
INVARIANTS TypeOK NoOversell NeverInDebt
PROPERTIES ImplementsInventory
