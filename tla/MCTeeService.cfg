\* Safety of the service: two concurrent calls.
SPECIFICATION Spec
CONSTANTS
  None = None
  Top = Top
  n1 = n1
  n2 = n2
  up = up
  down = down
  a = a
  b = b
  alert = alert
  i1 = i1
  i2 = i2
  t1 = t1
  t2 = t2
  t3 = t3
  Str <- MCStr
  Time <- MCTime
  Task <- MCTask
  Requests <- MCRequests
INVARIANTS
  TypeOK
  WritersExclude
  SnapshotReads
  SchemaConformance
  ReportsStayTrue
  CreditedOnce
PROPERTIES
  RetriesAreAbsorbed
  GrowOnly
