SPECIFICATION Spec
CONSTANTS
  refresh = refresh
  sync = sync
  plain = plain
  refresh2 = refresh2
  None = None
  Item = {refresh, refresh2, sync, plain}
  Thread = {t1, t2}
  Flags <- MCFlags
  Masks <- MCMasks
  Spurious = FALSE
SYMMETRY Symmetry
CHECK_DEADLOCK FALSE
INVARIANTS
  OneWorker
  WorkerHoldsQueue
  ListedIntact
  RanXorCancelled
  CallbackBeforeFree
  NoStrayCancel
PROPERTIES
  ImplementsTaskQueue
