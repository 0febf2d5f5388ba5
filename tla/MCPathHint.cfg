SPECIFICATION Spec
CONSTANTS
  Transport = "udp"
  DirectProbe = TRUE
  CandLists <- OneList
  MaxEpoch = 1
  StaleAfter = 1
  Dwell = 2
  FastDwell = 1
  Window = 2
  ProbationMin = 1
  ProbationTimeout = 3
  RetryAfter = 1
  MaxRetryAfter = 2
  StableTenure = 2
  HoldDownBase = 1
  MaxHoldShift = 1
PROPERTY SyncLeavesRelay
