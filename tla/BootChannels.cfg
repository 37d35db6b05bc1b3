SPECIFICATION FairSpec
CONSTANTS
  MaxKeys = 1
  MaxFaults = 2
  LedBytes = 2
  RateBytes = 2
CONSTANTS
  BiosStates <- MCBiosStates
  KbdDevices <- MCDevices
  AuxDevices <- MCDevices
  ScanCodes <- MCScanCodes
  Variants <- MCVariants
INVARIANTS TypeOK MasksComeBack GivenBack HandoffHonest
PROPERTY Terminates
