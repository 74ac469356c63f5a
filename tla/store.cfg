SPECIFICATION Spec
CONSTANTS
  RouteIds = {r1, r2}
  Domains = {d1}
  Tokens = {"t1"}
  Idents = {x1, x2}
  Inodes = {i1, i2, i3}
  Requests = {q1, q2}
  Boot = Boot
  None = None
  Empty = Empty
  Torn = Torn
  DiskFaults = TRUE
INVARIANT SerialLiveComplete
INVARIANT DurableWhenIdle
INVARIANT IdentityStable
SYMMETRY Interchangeable
