SPECIFICATION FairSpec
CONSTANTS
  Msg = {m1, m2}
  Worker = {w1}
  None = None
  Calls = {"offline"}
  Faults = {"transport", "msg", "headers", "add", "thread"}
  MaxSignals = 2
  MaxCrashes = 0
CHECK_DEADLOCK FALSE
INVARIANTS
  LocksReleased
PROPERTIES
  StopAfterSent
  StartThenStop
  MovedIsTold
