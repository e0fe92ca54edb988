SPECIFICATION Spec
CONSTANTS
  Instances = {i1, i2}
  Requests = {r1}
  RunOnStartup = TRUE
  MaxMonth = 2
  MaxRecords = 1
  MaxEvents = 1
INVARIANTS TypeOK ReportsSound
PROPERTY EventuallyReported
