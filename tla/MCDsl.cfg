SPECIFICATION Spec
CONSTANTS
  Numbers <- MCNumbers
  Texts <- MCTexts
  WellFormed <- MCWellFormed
  Defines <- MCDefines
  Runs = 2
INVARIANTS
  TypeOK
  ParserIsExact
  FusedComputesMeaning
  BackendsAgree
  CleanProgramsCompile
  RunsRepeat
CHECK_DEADLOCK FALSE
