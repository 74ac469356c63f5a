SPECIFICATION MCSpec
CONSTANTS
  Ips = {"a"}
  Max = 2
  Window = 2
  Clients = {c1}
  Peers = {p1}
  IpOf <- MCIpOf
  Tokens = {"t", "u"}
  TokenOf <- MCTokenOf
  NoToken = NoToken
  Names = {"n"}
  NameOf <- MCNameOf
  NoName = NoName
  Reserved = {}
  GeoBlocked = {}
  Unreadable = Unreadable
  MaxTime = 3
  MaxReloads = 1
  MaxAccepts = 4
INVARIANT LimiterExact
INVARIANT AdmittedByLists
INVARIANT PassGaugeExact
PROPERTY ForwardEnds
