SPECIFICATION Spec
CONSTANTS
  Main = main
  Others = {}
  Worker = worker
  Camel = camel
  Calls = {"get_headers", "refresh", "sync", "refresh_async", "get_headers_async", "set_flag"}
  MaxCalls = 2
  MaxEvents = 1
  MaxMsgs = 2
CHECK_DEADLOCK FALSE
INVARIANTS
  ReasonCounted
  FolderStays
  UnloadedWhenQuiet
  HeadersHaveFolder
  FkillRestored
  OnlyInterlock
