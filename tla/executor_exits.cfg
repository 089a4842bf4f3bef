SPECIFICATION Spec
CONSTANTS
  e1 = e1
  e2 = e2
  x1 = x1
  k1 = k1
  k2 = k2
  None = None
  Entries = {e1}
  Exits = {x1}
  Keys = {k1, k2}
  Key <- EntryAndExit
  Notional <- Alone
  Monitored = {e1}
  MaxSell = 2
  PerEntryCap = 2
  AggregateCap = 2
  OutageCap = 2
  ViewsDiverge = FALSE
  LiveRecovery = FALSE
  MaxCrashes = 1
  MaxRollbacks = 0
INVARIANTS
  LedgerCoversCustody
CHECK_DEADLOCK FALSE
