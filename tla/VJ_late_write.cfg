CONSTANTS
  j1 = j1
  j2 = j2
  u1 = u1
  w1 = w1
  w2 = w2
  c1 = c1
  c2 = c2
  NoOne = NoOne
  Jobs = {j1}
  Users = {u1}
  Owner <- OneOwner
  Watchers = {w1, w2}
  Calls = {c1, c2}
  Kinds = {"fal"}
  Lanes = {}
  MaxProv = 1
  Credits = {1}
  Grants = {1}
  StartCredits = 0
  MaxTopUps = 1
  MaxErrs = 1
  MaxFaults = 0
  MaxCrashes = 0
SPECIFICATION Spec
CHECK_DEADLOCK FALSE
SYMMETRY Symmetry
INVARIANT PaymentDueIsUnpaid
