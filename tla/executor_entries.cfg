SPECIFICATION Spec
CONSTANTS
  e1 = e1
  e2 = e2
  x1 = x1
  k1 = k1
  k2 = k2
  None = None
  Entries = {e1, e2}
  Exits = {}
  Keys = {k1, k2}
  Key <- TwoKeys
  Notional <- Unequal
  Monitored = {e1}
  MaxSell = 1
  PerEntryCap = 2
  AggregateCap = 2
  OutageCap = 2
  ViewsDiverge = FALSE
  LiveRecovery = FALSE
  MaxCrashes = 1
  MaxRollbacks = 0
INVARIANTS
  PersistBeforeSubmit
  AtRiskWithinCaps
  OutcomesStand
CHECK_DEADLOCK FALSE
