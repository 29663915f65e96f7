SPECIFICATION FairSpec
CONSTANTS
  Servers = {a, b}
  Emails = {def, own}
  Names = {def, other}
  Default = def
  OwnEmail = own
  Overridden = {b}
  Samples = 2
  MaxRetries = 2
  MaxRows = 2
  AdminOf <- Admin
INVARIANT ServesReady
PROPERTIES FirstSeedAddsOnce Decided HealthyStart
