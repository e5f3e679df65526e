SPECIFICATION BackoffSpec
CONSTANTS
  MaxInt = 31
  DefaultInitial = 2
  DefaultMax = 20
  MaxFails = 7
INVARIANTS UpToMax
