CONSTANTS
  TicksPerHalf = 1
  Apps = 1
  AppInstances = 2
  Sequences = 2
  Ids <- MCIds
  EntityTypes <- MCTypes
  Macs <- MCMacs
  Keys <- MCKeys
  Mac <- MCMac
  Enc <- MCEnc
  Dec <- MCDec
  MaxVariant = 1
  AppId = 0
  Configs <- MCConfigs
  FirstConfig <- MCFirstConfig
  MaxTracked <- MCMaxTracked
  MaxLoaded = 1
  MaxObjects = 2
  MaxReadings = 1
  MaxTime = 1
  MaxFaults <- MCMaxFaults
SPECIFICATION Spec
INVARIANTS IdIsIdentity EntityIdsAreRead
PROPERTIES NoLostUpdate
CHECK_DEADLOCK FALSE
