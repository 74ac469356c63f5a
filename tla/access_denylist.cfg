SPECIFICATION MCSpec
CONSTANTS
  Ips = {"a"}
  Max = 2
  Window = 2
  Clients = {}
  Peers = {p1}
  IpOf <- MCIpOf
  Tokens = {"t"}
  TokenOf <- MCTokenOf
  NoToken = NoToken
  Names = {}
  NameOf <- MCNameOf
  NoName = NoName
  Reserved = {}
  GeoBlocked = {}
  Unreadable = Unreadable
  MaxTime = 0
  MaxReloads = 2
  MaxAccepts = 1
PROPERTY DenylistKept
