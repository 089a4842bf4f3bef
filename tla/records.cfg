SPECIFICATION RecordsSpec
CONSTANTS
  h1 = h1
  h2 = h2
  MaxCycles = 2
  Handlers = {h1, h2}
  MaxCutoffs = 2
  o1 = o1
  o2 = o2
  Orders = {o1, o2}
  BatchSize = 2
  MaxLines = 4
  b1 = b1
  b2 = b2
  Books = {b1, b2}
  MaxChanges = 2
  MaxFaults = 2
  Runners = {"loop"}
  Walk = 3
  MaxTxs = 3
  MaxFailures = 1
  s1 = s1
  Streams = {s1}
  Tick = 2
  WindowTo = 6
  MaxLatency = 3
  FillDelay = 1
  UnquotableAfter = 2
  Start = 8
  Cap = 8
  Costs = {5}
  Lots = {3, 12}
  Prices = {1, 2}
  MaxCandidates = 2
  v1 = v1
  v2 = v2
  Views = {v1, v2}
  LastValid = 2
  ConfLag = 1
  MaxTip = 5
  Positions = {1, 2}
  Commands <- ClosesUnderWay
  LastConfirmed <- TwoUnits
  Custody <- TwoUnits
  Aside <- SecondAside
  MaxTx = 1
  NoMarket = {1}
  MaxMoves = 3
  MaxMishaps = 1
INVARIANTS
  RecordsTypeOK
  ExecutedAsConfirmed
  NoImportableSkipped
  ShadowAgrees
  NothingForgotten
  ReplayStands
  DeadUnlessOutrun
PROPERTIES
  CyclesEnd
  ImportsCatchUp
  SyncSettles
  AlarmsEnd
  HitsAreSold
CHECK_DEADLOCK FALSE
