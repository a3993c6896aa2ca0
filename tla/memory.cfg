SPECIFICATION Spec
CONSTANTS
  WordBytes = 2
  MemoryLimit = 7
  MaxUsize = 31
  WordGas = 3
  QuadDivisor = 2
  Ranges <- MCRanges
  Copies <- MCCopies
  CallOperands <- MCCallOperands
  Words <- MCWords
  Outputs <- MCOutputs
  TxInput <- MCTxInput
  GasLimits = {12}
  MaxFrames = 3
  MaxSteps = 6
INVARIANTS NeverOutOfBounds PaysForItsMemory
PROPERTY MemoriesAreSeparate
CHECK_DEADLOCK FALSE
