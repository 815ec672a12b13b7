SPECIFICATION Spec
CONSTANTS
  Lines <- MCKernelLines
  MaxLines = 4
  Helper <- MCHelper
  Address <- MCAddress
  Records <- MCRecords
  Garbage = 999
  Accumulator = "mix"
  Initial <- MCInitial
  SizeOf <- MCSizeOf
  AlignOf <- MCAlignOf
  Runs <- MCRuns
INVARIANTS
  KernelComputesMeaning
  InlineMatchesCall
  OptimisedMatchesLoop
  AstMatchesLoop
  CompilesUnlessRefused
  StorageFits
CHECK_DEADLOCK FALSE
