SPECIFICATION MCSpec
CONSTANTS
  d1 = d1
  d2 = d2
  Domains <- MCDomains
  KeyPairs = {k1, k2, k3, k4, k5}
  MaxAttempts = 2
  Life = 2
  Margin = 1
  None = None
  Torn = Torn
  Cut = Cut
  SelfSigned = SelfSigned
  MaxFaults = 3
INVARIANT PairOnDisk
PROPERTY BootCompletes
PROPERTY RenewalHappens
PROPERTY PairHeals
