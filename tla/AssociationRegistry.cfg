CONSTANTS
  Ids = {i1, i2}
  Hosts = {h1}
  Families = {"v4", "mapped"}
  Ports = {1, 2}
  None = None
SPECIFICATION FairSpec
INVARIANTS IndexExact SourceFidelity TypeOK
PROPERTIES NoTakeover ImplementsOwnership HangUpReleases ShutdownDrains
