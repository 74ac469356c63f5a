SPECIFICATION MCSpec
CONSTANTS
  Emitters = {m1, m2}
  RingCapacity = 2
  ChannelSize = 1
  LastDay = 2
  None = None
  MaxEvents = 3
  MaxFaults = 1
SYMMETRY Interchangeable
INVARIANT RingFaithful
INVARIANT FilesOrdered
INVARIANT LossAccounted
INVARIANT DatedAtMost
