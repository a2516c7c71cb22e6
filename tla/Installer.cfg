CONSTANTS
  Ports = {1080, 1081}
  None = None
  ByFile = ByFile
  Torn = Torn
  Marred = Marred
  MaxMishaps = 2
  Managers = {"sysvinit"}
  ByteBits = 4
  V4Len = 1
  V6Len = 2
  MaxPort = 65535
  MaxBytes = 255
  MaxServers = 8
  MappedPrefix <- MCPrefix
  DefaultDns <- MCDefaultDns
SPECIFICATION Spec
INVARIANTS ServiceStarts RulesFollow ProcessCurrent
PROPERTIES UpgradeHarmless
