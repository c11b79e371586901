SPECIFICATION Spec
CONSTANTS
  Macs = {m1, m2}
  NoMac = NoMac
  V4 = {a1, a2}
  V6 = {b1}
  NoAddr = NoAddr
  MaxClients = 2
  MaxV6 = 1
  MaxRoutes = 5
  MaxHeaders = 5
  MaxFails = 1
SYMMETRY Symmetry
INVARIANTS HandlesKept RoutedWhileAwake
