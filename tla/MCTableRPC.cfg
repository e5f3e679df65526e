SPECIFICATION TableSpec
CONSTANTS
  WriteCalls = {w1}
  ReadCalls = {r1}
  Keys = {k1, k2}
  MaxUpdates = 2
INVARIANTS OutcomeTrue NotPrimaryUntouched ReadWhole
SYMMETRY KeySymmetry
