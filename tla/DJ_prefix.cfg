CONSTANTS
  j1 = j1
  Jobs = {j1}
  Keys = {1, 2, 3}
  Own = {1, 2}
  Markers = {1}
  PageSize = 1
  MaxVersion = 3
  Faults = {}
SPECIFICATION Spec
INVARIANTS
  ArchiveIsOfFolder
CHECK_DEADLOCK FALSE
