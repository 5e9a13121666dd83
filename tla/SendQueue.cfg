SPECIFICATION Spec
CONSTANTS
  Msg = {m1}
  Worker = {w1, w2}
  None = None
  Calls = {"flush", "cancel", "headers", "crash", "addsync"}
  Faults = {"transport", "transfer"}
  MaxSignals = 1
  MaxCrashes = 1
CHECK_DEADLOCK FALSE
SYMMETRY Symmetry
INVARIANTS
  DuplicateNeedsOverlap
  SentAccounted
PROPERTIES
  SendsWaiting
  SyncedNotResent
  ImplementsOutbox
