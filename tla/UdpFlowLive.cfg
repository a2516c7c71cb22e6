CONSTANTS
  Assocs = {a1}
  Targets = {g1}
  Tasks = {t1, t2}
  Slots = {s1, s2}
  MaxFlows = 1
  MaxPerAssoc = 1
  MaxStaleRetries = 0
  MaxAddresses = 2
  Timeout = 0
  None = None
SPECIFICATION FairSpec
INVARIANTS Bounded
PROPERTIES CloseReleases PacketEnds
