SPECIFICATION AllSpec
CONSTANTS
  HostLists <- HostNS
  Pushes <- PushNS
  resolvConfMaxNS = 3
  Backends = {"firewalld", "ufw", "nftables", "iptables"}
  Ports = {1, 2}
  Preferred = 1
  Nets = {"n1", "n2"}
  portMapLease = 4
  portMapRenew = 2
  portMapRetryMin = 1
  portMapRetryMax = 4
  Configs <- SomeConfigs
  Admins = {1, 2}
  MaxCommits = 2
  MaxBoots = 1
  Assignments <- SomeAssignments
  MaxAssignments = 3
  Surroundings <- SomeSurroundings
  natCheckEvery = 4
  MaxMoves = 2
  MaxLosses = 1
INVARIANTS OriginalKept HolesAccounted ExternalIsMapped RulesTracked StartsClean NeverUnaddressed EasyIsCone
PROPERTIES NeverBackwards ChangesArrive AddressAdopted EndpointFollows
