SPECIFICATION FairSpec
CONSTANTS
  refresh = refresh
  sync = sync
  plain = plain
  refresh2 = refresh2
  None = None
  Item = {refresh, sync, plain}
  Thread = {t1}
  Flags <- MCFlags
  Masks <- MCMasks
  Spurious = TRUE
CHECK_DEADLOCK FALSE
PROPERTIES
  StageClears
  OnlySleepStrands
