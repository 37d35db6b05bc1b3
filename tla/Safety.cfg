SPECIFICATION FairSpec
CONSTANTS
  NoFile = NoFile
  MaxFaults = 3
  MaxRestarts = 1
  BlockSize = 2
  MaxStage2Size = 4
  MaxBlocks = 3
  SizeModulus = 16
  StressIterations = 1
  BlockRetries = 3
CONSTANTS
  Byte <- MCByte
  Image <- MCImage3
  MisreadSizes <- MCMisreadSizes
  FaultKinds <- AllFaultKinds
  Modes <- AllModes
  DosFailures <- MCAllDosFailures
INVARIANTS TypeOK ExecExact CrcCoversDisk NoPartialFileAfterFailure ServerNeverAhead
PROPERTIES ImplementsTransfer Terminates
