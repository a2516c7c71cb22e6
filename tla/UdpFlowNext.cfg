CONSTANTS
  Assocs = {a1}
  Targets = {g1}
  Tasks = {t1}
  Slots = {s1, s2}
  MaxFlows = 2
  MaxPerAssoc = 1
  MaxStaleRetries = 1
  MaxAddresses = 2
  Timeout = 1
  None = None
SPECIFICATION Spec
PROPERTIES NextStartsElsewhere
