SPECIFICATION PaymentsSpec
CONSTANTS
  r1 = r1
  r2 = r2
  u1 = u1
  creator = creator
  pro = pro
  studio = studio
  pack = pack
  NoUser = NoUser
  Users = {u1}
  Runs = {r1, r2}
  Bucket = 2
  Thresholds = {1}
  Amounts = {1, 2}
  StartCredits = 1
  MaxNow = 3
  MaxFaults = 1
  MaxCrashes = 1
  Products = {creator, studio, pack}
  Kind <- MCKind
  MaxPeriods = 1
  Hooks = {r1, r2}
  Customers <- MCCustomers
  Runners = {r1, r2}
  Recipients = {u1}
  LastStep = 2
  NoRunner = NoUser
  MaxLeases = 1
  MaxSlips = 2
INVARIANTS
  PaymentsInv
  OneChargePerBucket
  CreditedOnce PaymentNotLost SoleSubscriptionMirrored
  WinbackOnce
PROPERTIES
  CreditsFollowPayment FailurePausesCharges
SYMMETRY Symmetry
CHECK_DEADLOCK FALSE
