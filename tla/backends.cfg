SPECIFICATION MCSpec
CONSTANTS
  Backends = {b1, b2}
  FailLimit = 3
  MaxCalls = 1
  Flaky = {b1}
INVARIANT UnhealthyBacked
INVARIANT ListWatched
PROPERTY HealthFollows
