SPECIFICATION FairSpec
CONSTANTS
  Pairs <- TwoPairs
  PortMin = 1
  PortMax = 2
  IdleLimit = 0
  Homes <- OneRoams
  MaxNet = 1
  Watched <- Roamer
INVARIANTS SidesOfOneSession
PROPERTIES RoamingConverges
