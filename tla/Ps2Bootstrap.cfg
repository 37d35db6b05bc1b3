SPECIFICATION FairSpec
CONSTANTS
  Confidence = 3
  KbdDepth = 1
  RawDepth = 1
  EChunk = 2
CONSTANT Image <- MCImage
INVARIANTS TypeOK FreshUnlessReset InjectShownOnlyWhileTyping ImageTyped
PROPERTIES ClassFollowsFrames TriggerServed
