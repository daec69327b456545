CONSTANTS
  r1 = r1
  w1 = w1
  z1 = z1
  AllRequest = r1
  Requests = {r1}
  Kind <- MCKind
  ZipWorkers = {z1}
  ReportWorkers = {w1}
  Putters = {}
  Bodies = {}
  MaxConsecutiveErrors = 5
  Faults = {}
SPECIFICATION Spec
INVARIANTS
  PendingIsWaiting
