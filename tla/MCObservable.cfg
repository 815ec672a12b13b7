CONSTANTS
  Done = 999999
  Stray = 888888
  Pred <- MCPred
  Mapper <- MCMapper
  Accum <- MCAccum
  Key <- MCKey
  Values = {1, 2, 3}
  Sources <- MCSources
  Chains <- MCChains
  Made = 7
  MaxPushes = 3
  MaxFlushes = 0
SPECIFICATION Spec
INVARIANTS
  TypeOK EmitsReference OneShotMatches PathsAgree
PROPERTIES
  CompletionIsFinal
CHECK_DEADLOCK FALSE
