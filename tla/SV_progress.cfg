CONSTANTS
  j1 = j1
  j2 = j2
  u1 = u1
  w1 = w1
  w2 = w2
  c1 = c1
  c2 = c2
  NoOne = NoOne
  Jobs = {j1}
  Users = {u1}
  Owner <- OneOwner
  Watchers = {w1}
  Calls = {c1}
  Kinds = {"runpod", "fal", "local"}
  Lanes = {}
  MaxProv = 2
  Credits = {1}
  Grants = {1}
  StartCredits = 0
  MaxTopUps = 1
  MaxErrs = 2
  MaxFaults = 0
  MaxCrashes = 1
  s1 = s1
  s2 = s2
  h1 = h1
  Nobody = Nobody
  Holds = {h1}
  Price <- MCPrice
  StartPurse = 3
  MaxMishaps = 2
  Callers = {s1, s2}
  Grace = TRUE
  MaxTroubles = 2
SPECIFICATION ServicesSpec
CHECK_DEADLOCK FALSE
INVARIANTS ServicesInv RefundsFollowOutcome NoJobStranded
PROPERTIES PendingResolves CancelStopsWatcher HoldsEnd ScaledToZero
