SPECIFICATION FairSpec
CONSTANTS
  Messages = {m1, m2, m3}
  MayFailCreate = TRUE
INVARIANTS MessagesOnce DelegateOutlivesThreads
PROPERTIES TaskEnds
CHECK_DEADLOCK FALSE
