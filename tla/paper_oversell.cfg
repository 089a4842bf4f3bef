SPECIFICATION PaperSpec
CONSTANTS
  c1 = c1
  monitor = monitor
  actions = actions
  Cycles = {c1}
  Sellers = {monitor, actions}
  Tighteners = {monitor, actions}
  Survivor = actions
  Capital = 2
  PositionCap = 2
  MaxDecisions = 1
  MaxStop = 1
  MaxRestarts = 0
INVARIANT SoldIsHeld
CHECK_DEADLOCK FALSE
