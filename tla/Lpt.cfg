SPECIFICATION FairSpec
CONSTANTS
  FifoDepth = 1
  DrainTicks = 68
  RingWords = 2
  MaxSwitches = 2
  MaxRestarts = 1
  Targets = {"SppNibble", "Byte", "Epp", "Ecp", "EcpDma"}
CONSTANTS
  Bytes <- MCBytes
  Xrvs <- MCXrvs
CHECK_DEADLOCK FALSE
INVARIANTS MuxTypeOK Conserved PinsFollowMode NegotiatedModeAgrees ForwardInOrder ReverseInOrder DrainedWhenDisabled
PROPERTIES HandshakeEnds
