CONSTANTS
  None = None
  Ids = {lib, other}
  Library = {lib}
  ByteBits = 4
  V4Len = 1
  V6Len = 2
  BufferSize = 29
  MaxV4 = 20
  MaxV6 = 25
  ServerPort = 52
  MaxPort = 2000
  MaxBytes = 2
  MaxServers = 2
  MaxTasks = 1
  MaxFlows = 1
  MaxUp = 1
  MaxDown = 1
  MappedPrefix <- MCPrefix
  Hosts <- MCHosts
  Placements <- MCPlacements
  ServerV4 <- MCServerV4
  ServerV6 <- MCServerV6
  Ports <- MCPorts
  Targets <- MCTargets
  Resolve <- MCResolve
  Payloads <- MCPayloads
  Answers <- MCAnswers
  Strays <- MCStrays
  Requests <- MCRequests
  Starts <- MCStarts
  DefaultDns <- MCDefaultDns
  Explored <- MCExplored
SPECIFICATION Spec
INVARIANTS PayloadsIntact Established
PROPERTIES OnlyValidBinds WhitelistExact StartExact
CHECK_DEADLOCK FALSE
