SPECIFICATION CFairSpec
CONSTANTS
  Conns = {c1, c2}
  Mine = {c1, c2}
  Subs = {s1}
  Ports = {p1}
  MyKeys = {s1, p1}
  MaxRetries = 2
  ClientIp <- OneIp
  Tasks = {t1}
  NoConn = NoConn
  NoKey = NoKey
  AnyPort = AnyPort
  MaxTunnels = 0
  MaxPerIp = 0
  ExpiryOn = FALSE
  KeepaliveOn = TRUE
INVARIANT ExitJustified
INVARIANT ReadyMeansRouted
PROPERTY ServesOrExits
PROPERTY EndedTunnelNoticed
