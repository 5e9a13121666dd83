SPECIFICATION Spec
CONSTANTS
  long = long
  Id = {short, long}
  File = {f1, f2}
  Stream = {s1}
  None = None
  Length <- MCLength
  Announced <- Understated
  MaxSizes = {1, 3}
  Faults = {}
  RemoveActive = FALSE
  MaxActive = 2
  MaxRestarts = 0
CHECK_DEADLOCK FALSE
SYMMETRY Symmetry
INVARIANTS
  ReadersKeepFile
PROPERTIES
  Accounted
