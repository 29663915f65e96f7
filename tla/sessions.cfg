SPECIFICATION RotationSpec
CONSTANTS
  Users = {u1}
  Logins = {l1}
  Refreshes = {f1, f2}
  Logouts = {o1}
  Calls = {c1}
  AccessLife = 2
  RefreshLife = 3
  PerSecond = 2
  MaxClock = 6
  MayFail = {f1, o1}
  NoToken = NoToken
INVARIANTS BarredToTheEnd RefreshesUntilTaken
PROPERTIES StaysLoggedOut TakenForGood
