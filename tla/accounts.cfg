SPECIFICATION Spec
CONSTANTS
  Names = {n1, n2}
  Ids = {i1, i2}
  Registers = {r1, r2}
  Sends = {s1, s2}
  Verifies = {v1, v2}
  CodeLife = 2
  MaxClock = 2
  MayFail = {r1, v1}
  NoCode = NoCode
INVARIANTS UniqueAccounts RefusedForAnAccount VerifiedByItsCode
PROPERTIES UsedUp
