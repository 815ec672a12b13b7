SPECIFICATION Spec
CONSTANTS
  Lines <- MCLines
  MaxLines = 3
  Helper <- MCHelper
  Address <- MCAddress
  Records <- MCRecords
  Garbage = 999
  Accumulator = "mix"
  Initial <- MCInitial
  SizeOf <- MCSizeOf
  AlignOf <- MCAlignOf
  Runs <- MCRuns
INVARIANTS
  TypeOK
  AcceptedIsEmitted
  RefusalsAreExplained
  SlotsFit
  NoResultDropped
CHECK_DEADLOCK FALSE
