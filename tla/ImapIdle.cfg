CONSTANTS
    Callers = {c1, c2}
    Idler = idler
    Calls = {"work", "down", "push", "offline"}
    MaxCalls = 3
    MaxNews = 1
SPECIFICATION FairSpec
INVARIANTS LocksGivenBack InIdleHasThread
PROPERTIES OneIdler RestartsAfterDONE NewsKept CallsEnd
CHECK_DEADLOCK FALSE
