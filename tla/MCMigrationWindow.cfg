SPECIFICATION AddressSpec
CONSTANTS
  Pair = {k1, k2}
  PubKeys = {k1, k2}
  Families <- OneFamily
  Networks <- WideNarrow4
  Default <- Wide4
  Migrators = {m1}
  Editors = {}
  KeyLimits <- Unlimited
  KeyLives <- NeverExpires
  MaxKeys = 1
  MaxPeers = 2
  MaxRules = 0
  MaxUses = 2
  MaxBatch = 0
  DefaultAllow = TRUE
SYMMETRY PeerSymmetry
INVARIANTS InsideOverlay
