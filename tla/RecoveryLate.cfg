SPECIFICATION FairSpec
CONSTANTS
  NoFile = NoFile
  MaxFaults = 2
  MaxRestarts = 0
  BlockSize = 2
  MaxStage2Size = 6
  MaxBlocks = 3
  SizeModulus = 16
  StressIterations = 2
  BlockRetries = 3
CONSTANTS
  Byte <- MCByte
  Image <- MCImage6
  MisreadSizes <- MCNone
  FaultKinds <- MCLossyAndLate
  Modes <- MCSppOnly
  DosFailures <- MCNone
INVARIANT CommittedPrefix
PROPERTIES Recovers
