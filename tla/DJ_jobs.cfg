CONSTANTS
  j1 = j1
  j2 = j2
  Jobs = {j1, j2}
  Keys = {1, 2, 3}
  Own = {1, 2, 3}
  Markers = {1}
  PageSize = 1
  MaxVersion = 3
  Faults = {"s3", "catalogue", "crash"}
SPECIFICATION Spec
INVARIANTS
  TypeOK
  ArtefactIsFresh
  CatalogueIsBacked
  CleanJobSucceeds
SYMMETRY MCSymmetry
CHECK_DEADLOCK FALSE
