CONSTANTS
  r1 = r1
  w1 = w1
  z1 = z1
  AllRequest = r1
  Requests = {r1}
  Kind <- MCKind
  ZipWorkers = {z1}
  ReportWorkers = {w1}
  Putters = {}
  Bodies = {}
  MaxConsecutiveErrors = 2
  Faults = {"api_redis", "api_crash", "worker_redis", "worker_crash"}
SPECIFICATION RecoverySpec
INVARIANTS
  TypeOK
  RunsAtMostOnce
  CompletedIsTrue
  ReportAfterZip
PROPERTIES
  QueueDrains
  ImplementsLifecycle
