CONSTANTS
  s1 = s1
  Sessions = {s1}
  Sizes = {7}
  Depths = {1}
  Files <- MCFiles
  AllowedNames <- MCAllowedNames
  MIN_PART_SIZE = 5
  MAX_CHUNK = 100
  MAX_PARTS = 3
  MAX_RETRIES = 2
  maxRetries = 1
  MaxNumParts = 2
  MaxFaults = 0
  Faults = {}
SPECIFICATION Spec
INVARIANTS
  FailureIsCancelled
CHECK_DEADLOCK FALSE
