\* Liveness: the hand-over of the lock between three concurrent calls.
SPECIFICATION FairSpec
CONSTANTS
  None = None
  Top = Top
  n1 = n1
  n2 = n2
  up = up
  down = down
  a = a
  b = b
  alert = alert
  i1 = i1
  i2 = i2
  t1 = t1
  t2 = t2
  t3 = t3
  Str <- MCStr
  Time <- MCTime
  Task <- FairTask
  Requests <- FairRequests
PROPERTY NoStarvation
