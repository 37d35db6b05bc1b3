SPECIFICATION Spec
CONSTANTS
  MaxKeys = 1
  MaxFaults = 0
  LedBytes = 2
  RateBytes = 2
CONSTANTS
  BiosStates <- MCPlainBios
  KbdDevices <- MCPico
  AuxDevices <- MCNoDevice
  ScanCodes <- MCScanCodes
  Variants <- MCAt
INVARIANT Typeable
