CONSTANTS
  Conns = {c1, c2}
  MaxClients = 1
  MaxAhead = 1
SPECIFICATION FairSpec
INVARIANTS AuthGate InSync NoMutualWait ResultTruthful TypeOK
PROPERTIES HandshakeIsShort ShutdownEndsAll
