SPECIFICATION Spec
CONSTANTS
  Lines <- MCGraphLines
  MaxLines = 4
  Helper <- MCHelper
  Address <- MCAddress
  Records <- MCRecords
  Garbage = 999
  Accumulator = "mix"
  Initial <- MCInitial
  SizeOf <- MCSizeOf
  AlignOf <- MCAlignOf
  Runs <- MCRuns
INVARIANTS
  GraphKeepsResults
CHECK_DEADLOCK FALSE
