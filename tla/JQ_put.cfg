CONSTANTS
  nobody = nobody
  p1 = p1
  r1 = r1
  r2 = r2
  z1 = z1
  AllRequest = nobody
  Requests = {r1,r2}
  Kind <- MCKind
  ZipWorkers = {z1}
  ReportWorkers = {}
  Putters = {p1}
  Bodies <- MCBodies
  MaxConsecutiveErrors = 2
  Faults = {"api_redis"}
SPECIFICATION Spec
INVARIANTS
  AcknowledgedIsQueued
  VisibleIsQueued
SYMMETRY MCSymmetry
