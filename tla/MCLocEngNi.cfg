SPECIFICATION FairSpec
CONSTANTS
  MaxRequests = 2
  MaxRestarts = 1
  MayFailCreate = TRUE
  UserSays = {"ACCEPT"}
  Overrides = {TRUE, FALSE}
INVARIANTS OneAnswer OnceUntilRestart
PROPERTIES EveryRequestFreed
CHECK_DEADLOCK FALSE
