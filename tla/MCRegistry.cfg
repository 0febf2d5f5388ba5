SPECIFICATION RegistrySpec
CONSTANTS
  Pair = {k1, k2}
  PubKeys = {k1, k2, k3}
  Families <- BothFamilies
  Networks <- Three46
  Default <- Wide46
  Migrators = {m1}
  Editors = {e1}
  KeyLimits <- SomeLimits
  KeyLives <- MayExpire
  MaxKeys = 2
  MaxPeers = 3
  MaxRules = 0
  MaxUses = 3
  MaxBatch = 0
  DefaultAllow = TRUE
SYMMETRY PairSymmetry
INVARIANTS MemoryFollowsSettings VisibleMobileRouted
PROPERTIES KeySpentWithPeer ImplementsPool
CHECK_DEADLOCK FALSE
