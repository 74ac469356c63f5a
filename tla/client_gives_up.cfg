SPECIFICATION CFairSpec
CONSTANTS
  Conns = {c1, c2}
  Mine = {c1, c2}
  Subs = {s1}
  Ports = {}
  MyKeys = {s1}
  MaxRetries = 0
  ClientIp <- OneIp
  Tasks = {}
  NoConn = NoConn
  NoKey = NoKey
  AnyPort = AnyPort
  MaxTunnels = 0
  MaxPerIp = 0
  ExpiryOn = FALSE
  KeepaliveOn = TRUE
INVARIANT OwnEntryNotFatal
