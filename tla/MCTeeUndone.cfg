\* A write that fails keeps what it has stored.
SPECIFICATION HistorySpec
CONSTANTS
  None = None
  Top = Top
  n1 = n1
  n2 = n2
  up = up
  down = down
  a = a
  b = b
  alert = alert
  i1 = i1
  i2 = i2
  t1 = t1
  t2 = t2
  Str <- MCStr
  Time <- MCTime
  Task <- MCTask
  Requests <- MCRequests
PROPERTY FailedWritesAreUndone
