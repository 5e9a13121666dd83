SPECIFICATION FairSpec
CONSTANTS
  Msg = {m1}
  Worker = {w1, w2}
  None = None
  Calls = {"cancel"}
  Faults = {}
  MaxSignals = 4
  MaxCrashes = 0
CHECK_DEADLOCK FALSE
PROPERTIES
  CancelReturns
