CONSTANTS
  Done = 999999
  Stray = 888888
  Pred <- MCPred
  Mapper <- MCMapper
  Accum <- MCAccum
  Key <- MCKey
  Values = {1, 2, 3}
  Sources <- MCTimedSources
  Chains <- MCThrottle
  Made = 7
  MaxPushes = 3
  MaxFlushes = 3
SPECIFICATION Spec
PROPERTIES
  FlushKeepsLast
CHECK_DEADLOCK FALSE
