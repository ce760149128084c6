\* Two callers; collections that free enough, too little or nothing, or fail.
CONSTANTS
    Caller = {t1, t2}
    MinFree = 2
    MaxFree = 3
    Disk = 3
    MaxCalls = 2
    Faults = {"gcfails", "nothread"}
SPECIFICATION FairSpec
INVARIANTS StoreOutlivesCollection
PROPERTIES NobodyWaitsForEver
\* The store is closed in the end.
CHECK_DEADLOCK FALSE
