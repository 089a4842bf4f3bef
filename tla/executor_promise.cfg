SPECIFICATION FairSpec
CONSTANTS
  e1 = e1
  e2 = e2
  x1 = x1
  k1 = k1
  k2 = k2
  None = None
  Entries = {e1, e2}
  Exits = {}
  Keys = {k1}
  Key <- OneKey
  Notional <- Unequal
  Monitored = {}
  MaxSell = 1
  PerEntryCap = 2
  AggregateCap = 2
  OutageCap = 0
  ViewsDiverge = TRUE
  LiveRecovery = FALSE
  MaxCrashes = 1
  MaxRollbacks = 1
INVARIANTS
  NotLandedIsFinal
  SettledLedgerIsExact
PROPERTIES
  KeepsPromise
  EventuallyResolved
  TrackerPauseLifts
CHECK_DEADLOCK FALSE
