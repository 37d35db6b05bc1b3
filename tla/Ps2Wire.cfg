SPECIFICATION Spec
CONSTANTS
  IdleTimeout = 20
  GlitchThreshold = 1
  Keystroke = 165
  PollTicks = 4
  RingWords = 12
  SelfTxGuard = 150
  Layouts = {"low", "high"}
  HostPulls = {3, 30}
  LateBy = {1, 7}
  MaxDisturbed = 1
CONSTANT Sessions <- MCSessions
CHECK_DEADLOCK FALSE
INVARIANTS NoLoopback SendsToStalledMachine ClocksPerFrame OverrunsCounted
