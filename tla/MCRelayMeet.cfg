SPECIFICATION RelaySpec
CONSTANTS
  a = a
  b = b
  NoConn = NoConn
  Pairs <- BothHubs
  OneWriter = {"ws"}
  Members <- Both
  Conns = {c1, c2}
  UdpBlocked = {b}
PROPERTY RelaysMeet
