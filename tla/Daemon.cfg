CONSTANTS
    d = d
    p = p
    r = r
    t1 = t1
    t2 = t2
    Process = {d, p, r}
    Instance = d
    MaxWithUpgrade = 0
    ReadOnly = {r}
    Stores <- AllStores
    MaxOpens = 1
    Crashes = TRUE
    Task = {t1, t2}
    Kinds = {"query", "add", "addNar", "nar", "refused"}
    MaxCommands = 2
    Frames = 1
    Chunks = 1
    Logs = 2
    Capacity = 1
    Faults = {"cancel", "source", "drop", "error", "parse", "dump", "die"}
SPECIFICATION FairSpec
INVARIANTS UpgradesAlone SchemaIsDone OldStoreOpens FreeMeansIdle AnswersMatch DaemonInSync ServesCurrentStore
PROPERTIES ClientIsServed
CHECK_DEADLOCK FALSE
