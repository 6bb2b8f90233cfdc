CONSTANTS
  r1 = r1
  r2 = r2
  u1 = u1
  NoUser = NoUser
  Users = {u1}
  Runs = {r1, r2}
  Bucket = 2
  Thresholds = {1}
  Amounts = {1}
  StartCredits = 1
  MaxNow = 4
  MaxFaults = 0
  MaxCrashes = 0
SPECIFICATION Spec
CHECK_DEADLOCK FALSE
SYMMETRY Symmetry
INVARIANT DepositsArePaid
