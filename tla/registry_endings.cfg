SPECIFICATION FairSpec
CONSTANTS
  Conns = {c1, c2}
  Subs = {s1}
  Ports = {p1}
  ClientIp <- OneIp
  Tasks = {t1}
  NoConn = NoConn
  NoKey = NoKey
  AnyPort = AnyPort
  MaxTunnels = 1
  MaxPerIp = 1
  ExpiryOn = TRUE
  KeepaliveOn = TRUE
INVARIANT LeaksUnconfirmed
PROPERTY OverwriteOnlyClosing
PROPERTY EvictionCompletes
PROPERTY DropFreesKey
