SPECIFICATION Spec
CONSTANTS
  p1 = p1
  p2 = p2
  a = a
  b = b
  c = c
  None = None
  Procs = {p1, p2}
  Api1 = {p1}
  Cams = {a, b, c}
  Cost <- MCCost
  Conflicts <- MCConflicts
  MaxCost = 1
  Flash = {a}
  Removable = {a}
  Scores = {0, 1}
  User <- MCUser
  MaxClients = 2
  MaxEvents = 1
  MaxTorch = 2
INVARIANTS CamerasShared BooksAgree NobodyStuck
CHECK_DEADLOCK FALSE
