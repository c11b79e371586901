CONSTANTS
  MaxStreams = 2
  MaxBuffers = 2
  Burst = 2
  MaxFrames = 3
  MaxCalls = 3
  Calls = {"capture", "repeat", "clear", "flush", "drain", "create", "delete", "configure", "disconnect"}
  MaxFaults = 1
  None = None
SPECIFICATION Spec
INVARIANTS FramesAnswered StatusFollows NobodyStuck
CHECK_DEADLOCK FALSE
