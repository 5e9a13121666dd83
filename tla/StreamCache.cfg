SPECIFICATION Spec
CONSTANTS
  long = long
  Id = {long}
  File = {f1, f2}
  Stream = {s1}
  None = None
  Length <- MCLength
  Announced <- Understated
  MaxSizes = {2}
  Faults = {"read", "write", "rename", "thread"}
  RemoveActive = TRUE
  MaxActive = 2
  MaxRestarts = 1
CHECK_DEADLOCK FALSE
SYMMETRY Symmetry
INVARIANTS
  CompleteAlone
  ReadersSeeData
PROPERTIES
  EosEarlyWhileFetching
