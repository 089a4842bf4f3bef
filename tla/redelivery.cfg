SPECIFICATION RedeliverySpec
CONSTANTS
  e1 = e1
  e2 = e2
  x1 = x1
  k1 = k1
  k2 = k2
  None = None
  Entries = {e1, e2}
  Exits = {}
  Keys = {k1}
  Key <- OneKey
  Notional <- Unequal
  Monitored = {e1, e2}
  MaxSell = 1
  PerEntryCap = 2
  AggregateCap = 2
  OutageCap = 2
  ViewsDiverge = FALSE
  LiveRecovery = TRUE
  MaxCrashes = 1
  MaxRollbacks = 0
  c1 = c1
  c2 = c2
  monitor = monitor
  actions = actions
  Cycles = {c1, c2}
  Sellers = {monitor, actions}
  Tighteners = {monitor, actions}
  Survivor = actions
  Capital = 2
  PositionCap = 2
  MaxDecisions = 1
  MaxStop = 2
  MaxRestarts = 1
  r1 = r1
  r2 = r2
  Requests = {r1, r2}
  ClearedCycles = {c1, c2}
  MaxInFlight = 1
  Budget = 1
  MaxProjections = 2
  MaxDeaths = 1
  a1 = a1
  a2 = a2
  Approvers = {a1, a2}
  MaxPetitions = 3
  MaxMishaps = 1
  Full = 10
  Half = 4
  Rug = 1
  MaxUnknown = 2
  MaxRows = 2
  MaxMoves = 2
  Triggers = {"heartbeat", "excursion", "security"}
  Cooldown <- Cooldowns
  Interval <- Intervals
  RetryBase = 1
  RetryMax = 4
  Window = 4
  MaxWait = 1
  MaxMeanwhile = 1
  MaxStumbles = 1
INVARIANTS
  RedeliveryTypeOK
  AtMostOncePerKey
  SafetyRemembers
  BooksMatchFills
  CapitalSignedOnce
  ReleaseOnEvidence
PROPERTIES
  StopNeverLoosens
  RetriesBackOff
CHECK_DEADLOCK FALSE
