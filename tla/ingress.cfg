SPECIFICATION MCSpec
CONSTANTS
  Conns = {c1, c2}
  Hosts <- MCHosts
  Domains = {"s.base"}
  Lower <- MCLower
  Subs = {"s", "t"}
  SubOf <- MCSubOf
  Allowed = {"s.base"}
  Entries = {e1, e2}
  DdosReqs <- MCDdosReqs
  DefaultRps = 2
  DefaultBurst = 2
  TicksPerSec = 2
  None = None
  MaxTime = 2
  MaxChanges = 3
  MaxRequests = 2
SYMMETRY Symmetry
INVARIANT GaugeExact
INVARIANT RoutedAsConfigured
INVARIANT PauseHolds
INVARIANT LimitHolds
PROPERTY NoRouteJustified
