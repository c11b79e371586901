SPECIFICATION FairSpec
CONSTANTS
  Kinds = {"ATL", "WIFI", "DS"}
  Subscribers = {s1, s2}
  MaxRetries = 2
  MaxMsgs = 3
  MaxTimers = 1
INVARIANTS MachineAgrees NoStuckMachine
PROPERTIES EveryoneIsAnswered
CHECK_DEADLOCK FALSE
