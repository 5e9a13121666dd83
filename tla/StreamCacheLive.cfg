SPECIFICATION FairSpec
CONSTANTS
  long = long
  Id = {long}
  File = {f1, f2}
  Stream = {s1}
  None = None
  Length <- MCLength
  Announced <- Overstated
  MaxSizes = {3}
  Faults = {"read", "rename"}
  RemoveActive = FALSE
  MaxActive = 2
  MaxRestarts = 0
CHECK_DEADLOCK FALSE
PROPERTIES
  ReadEnds
  TmpCleared
