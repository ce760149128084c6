\* Two client processes and a collector; every deletion is of one path.
CONSTANTS
    a = a
    b = b
    d = d
    c1 = c1
    c2 = c2
    P1 = P1
    P2 = P2
    None = None
    Path = {a, b}
    References <- Flat
    Deriver <- NoDeriver
    KeepOutputs = FALSE
    KeepDerivations = FALSE
    Client = {c1, c2}
    Process = {P1, P2}
    ProcOf <- OneEach
    GCOptions <- DeleteDead
    Ops = {"add", "perm"}
    Faults = {}
    InitValid = {a, b}
    MaxOps = 1
    MaxGC = 1
SPECIFICATION FairSpec
INVARIANTS ValidPathsExist
PROPERTIES RootsKept NobodyWaitsForEver
\* Clients and collector stop when their operations are used up.
CHECK_DEADLOCK FALSE
