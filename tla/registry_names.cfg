SPECIFICATION LimitSpec
CONSTANTS
  elsewhere = c3
  Conns = {c1, c2, c3}
  Subs = {s1, s2, s3}
  Ports = {}
  ClientIp <- TwoIps
  Tasks = {}
  NoConn = NoConn
  NoKey = NoKey
  AnyPort = AnyPort
  MaxTunnels = 2
  MaxPerIp = 1
  ExpiryOn = FALSE
  KeepaliveOn = TRUE
INVARIANT HttpNameOwned
INVARIANT LimitsExceededByRacesOnly
PROPERTY NameNeverTaken
PROPERTY ImplementsLease
SYMMETRY Interchangeable
