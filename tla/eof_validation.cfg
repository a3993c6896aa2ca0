SPECIFICATION Spec
CONSTANTS
  StackLimit = 5
  NonReturning = 3
  DataSize = 33
  Containers = 1
  ReturnLimit = 2
  Padding = 3
  Depths = {0, 1}
  Programs <- MCPrograms
  LegacyCodes <- MCLegacyCodes
  RawContainers <- MCRawContainers
INVARIANTS RunsOnInstructions HeightsAsAnalysed
  ValidatedCodeDoesNotFail DecodeIsCanonical
CHECK_DEADLOCK FALSE
