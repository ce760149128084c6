\* All ways to call the collector, and every kind of failure.
CONSTANTS
    a = a
    b = b
    d = d
    c1 = c1
    c2 = c2
    P1 = P1
    P2 = P2
    None = None
    Path = {a, b}
    References <- BNeedsA
    Deriver <- NoDeriver
    KeepOutputs = FALSE
    KeepDerivations = FALSE
    Client = {c1}
    Process = {P1}
    ProcOf <- OneEach
    GCOptions <- AllOptions
    Ops = {"add", "perm", "unroot"}
    Faults = {"exit", "crash", "gccrash", "interrupt"}
    InitValid = {a}
    MaxOps = 2
    MaxGC = 1
SPECIFICATION Spec
INVARIANTS ClosureInvariant WriterHasLockFile
PROPERTIES FoundRootsKept
\* Clients and collector stop when their operations are used up.
CHECK_DEADLOCK FALSE
