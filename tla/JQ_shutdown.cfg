CONSTANTS
  r1 = r1
  w1 = w1
  z1 = z1
  z2 = z2
  AllRequest = r1
  Requests = {r1}
  Kind <- MCKind
  ZipWorkers = {z1,z2}
  ReportWorkers = {w1}
  Putters = {}
  Bodies = {}
  MaxConsecutiveErrors = 2
  Faults = {"sigterm", "expiry"}
SPECIFICATION RecoverySpec
INVARIANTS
  NoAbandonedJob
  ProcessingIsHeld
  ErrorMeansFailed
  VisibleExpires
PROPERTIES
  StatusNeverRegresses
  QueuedIsProcessed
  ProcessingEnds
  ShutdownEnds
