INIT MCInit
NEXT MCNext
CONSTANTS
  Settings <- MCSettings
  kMaxRetryCount = 1
  MaxPictures = 2
  MaxLate = 1
  MaxErrors = 2
  Modes <- MCModes
  Quirk = TRUE
  MaxTriggers = 3
  MaxFrames = 2
  MaxModes = 1
  Infos <- MCInfos
  Changes <- MCChanges
INVARIANTS ClientAgrees FocusAnswered ParamsAgree
CHECK_DEADLOCK FALSE
