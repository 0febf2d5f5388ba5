SPECIFICATION RelaySpec
CONSTANTS
  a = a
  b = b
  NoConn = NoConn
  Pairs <- BothHubs
  OneWriter = {"ws"}
  Members <- Both
  Conns = {c1, c2, c3}
  UdpBlocked = {}
INVARIANTS ServedIsReachable
PROPERTIES SameTransportMeets
