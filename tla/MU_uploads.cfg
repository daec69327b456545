CONSTANTS
  s1 = s1
  s2 = s2
  Sessions = {s1, s2}
  Sizes = {0, 7, 17}
  Depths = {0}
  Files <- MCFiles
  AllowedNames <- MCAllowedNames
  MIN_PART_SIZE = 5
  MAX_CHUNK = 100
  MAX_PARTS = 3
  MAX_RETRIES = 2
  maxRetries = 1
  MaxNumParts = 2
  MaxFaults = 2
  Faults = {"s3", "net", "api_crash", "part"}
SPECIFICATION FairSpec
INVARIANTS
  TypeOK
  StoredWhole
  SuccessIsStored
  CancelledStaysCancelled
  FailureIsCancelled
  CleanSucceeds
PROPERTIES
  UploadEnds
CHECK_DEADLOCK FALSE
