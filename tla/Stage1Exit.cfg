SPECIFICATION Spec
CONSTANTS
  MaxKeys = 0
  MaxFaults = 0
  LedBytes = 2
  RateBytes = 2
CONSTANTS
  BiosStates <- MCPlainBios
  KbdDevices <- MCPico
  AuxDevices <- MCNoDevice
  ScanCodes <- MCScanCodes
  Variants <- MCAt
INVARIANT Stage1Unmasks
