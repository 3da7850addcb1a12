\* Two handlers, two methods and the reporter share the lock; the window is
\* smaller than the number of calls.
SPECIFICATION Spec
CONSTANTS
  h1 = h1  h2 = h2  m1 = m1  m2 = m2
  Nobody = Nobody
  Handlers = {h1, h2}
  Methods = {m1, m2}
  Latencies = {1, 2}
  MaxSamples = 3
  Percent = 60
  MaxCalls = 4
  MaxReports = 1
INVARIANTS
  TypeOK
  ReportsAreOfOneMoment
PROPERTIES
  CallsAreRecorded
CHECK_DEADLOCK FALSE
