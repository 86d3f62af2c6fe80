SPECIFICATION Spec
CONSTANTS
  Rates = {48000, 56000, 64000}
  EightK = {TRUE, FALSE}
  Packing = {TRUE, FALSE}
  Samples <- MCSamples
  ChangesAt = {4, 16}
  MaxCodes = 230
  MaxLag = 3
CHECK_DEADLOCK FALSE
INVARIANTS Stable CodesIntact PredictorsAgree CloseToInput
