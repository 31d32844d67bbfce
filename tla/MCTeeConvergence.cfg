\* Two replays of the same requests in different orders.
SPECIFICATION Spec
CONSTANTS
  None = None
  Top = Top
  n1 = n1
  n2 = n2
  up = up
  down = down
  a = a
  b = b
  alert = alert
  i1 = i1
  i2 = i2
  p1 = p1
  p2 = p2
  Str <- MCStr
  Time <- MCTime
  Replay <- MCReplay
  Requests <- MCRequests
SYMMETRY Symmetry
INVARIANTS
  StrongConvergence
  StoreIsJoin
  DisputesAreTold
