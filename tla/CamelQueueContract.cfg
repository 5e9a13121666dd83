SPECIFICATION FairSpec
CONSTANTS
  refresh = refresh
  sync = sync
  plain = plain
  refresh2 = refresh2
  None = None
  Item = {sync, plain}
  Thread = {t1}
  Flags <- MCFlags
  Masks <- MCMasks
  Spurious = FALSE
CHECK_DEADLOCK FALSE
PROPERTIES
  ContractServed
