SPECIFICATION LossySpec
CONSTANTS
  a = a
  b = b
  Agents <- Pair
  HardNAT = {}
  maxPunchAttempts = 1
  punchCooldown = 0
  OnlineFor = 0
  ServerRestarts = 0
  MaxEpoch = 2
PROPERTY EpochReachesBoth
