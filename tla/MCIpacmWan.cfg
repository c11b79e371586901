SPECIFICATION WanSpec
CONSTANTS
  Wans = {q1, e1}
  Stas = {e1}
  Lans = {l1}
  None = None
  MaxV6Addrs = 2
  MaxTether = 3
  MaxRules = 9
  MaxReports = 9
  MaxQueue = 2
INVARIANTS UpstreamAgrees RulesHeld
CHECK_DEADLOCK FALSE
