SPECIFICATION PolicySpec
CONSTANTS
  Pair = {k1, k2}
  PubKeys = {k1, k2, k3}
  Families <- OneFamily
  Networks <- OnlyWide4
  Default <- Wide4
  Migrators = {}
  Editors = {}
  KeyLimits <- Unlimited
  KeyLives <- NeverExpires
  MaxKeys = 2
  MaxPeers = 3
  MaxRules = 1
  MaxUses = 4
  MaxBatch = 1
  DefaultAllow = FALSE
SYMMETRY PeerSymmetry
INVARIANTS ReferencesLive NoExitChain LinksMutual
PROPERTIES VisibilityGrantedByPolicy
CHECK_DEADLOCK FALSE
