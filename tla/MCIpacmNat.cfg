SPECIFICATION MCSpec
CONSTANTS
  c1 = c1
  c2 = c2
  t1 = t1
  t2 = t2
  p1 = p1
  p2 = p2
  NoIp = NoIp
  NoConn = NoConn
  Clients = {c1, c2}
  Peers = {t1, t2}
  StaNet = {t1}
  Pubs = {p1, p2}
  Conns <- MCConns
  MaxEntries = 2
  MaxTemp = 1
  MaxPwrSave = 1
  MaxSta = 2
  MaxNat = 1
INVARIANTS CacheMatchesTable OffloadedOnlyWanted
