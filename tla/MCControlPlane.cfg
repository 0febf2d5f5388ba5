SPECIFICATION AllSpec
CONSTANTS
  a = a
  b = b
  Agents <- Pair
  HardNAT = {}
  maxPunchAttempts = 1
  punchCooldown = 1
  OnlineFor = 0
  ServerRestarts = 1
  MaxEpoch = 2
  Broadcasters = {1}
  MaxSessions = 3
  MaxStimuli = 3
  MaxFaults = 1
  MaxFlight = 2
  proxyTailMaxQueue = 2
  proxyDrainPerTick = 1
  UserNames = {"admin", "ops"}
  SeedName = "admin"
  Browsers = {1, 2}
  MaxBirths = 3
  MaxChanges = 1
  RawNames = {"", "CORP", "corp.", "-bad-"}
  RawServers = {"", " n1 ", "no-address"}
  MaxList = 2
  Hosts <- SomeHosts
  maxHostCandidates = 4
  maxHost6Candidates = 2
  maxAgentCandidates = 8
  maxEndpointCandidates = 6
  Sources = {1, 2}
  Rate = 1
  Burst = 4
  EvictAfter = 3
  Sizes = {0, 1, 2, 3}
  MaxFragments = 2
  MaxAssemblies = 2
  IdSpace = 3
  MaxPackets = 3
  MaxDrawn = 6
SYMMETRY Sides
INVARIANTS NoDeafSession TrafficAccounted EventsFaithful SessionsCurrent UpgradeSafe OffersRanked
  NoExtraTokens PacketsWhole SecretsStable
PROPERTIES BumpIsNews RestartKeepsSettings
CHECK_DEADLOCK FALSE
