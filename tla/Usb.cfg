SPECIFICATION FairSpec
CHECK_DEADLOCK FALSE
CONSTANTS
  MouseDepth = 1
  Packet = 2
  EventDepth = 2
  BulkDepth = 1
  InjectDepth = 1
  InjectMax = 1
  LineCap = 3
  SeqWrap = 2
  BulkHeader = 3
  BULK_FRAME_MAX = 4
  Lengths = {2, 3}
  Delta <- MCDelta
  Lines <- MCLines
  Work = 3
  Drops = 2
  Together <- MCTogether
INVARIANTS TypeOK EventsAccounted BulkSurvivesDisconnect FramesFlushed MouseAnswers
PROPERTIES PortsServe
