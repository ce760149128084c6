\* keep-outputs and keep-derivations, with an output a of d.
CONSTANTS
    a = a
    b = b
    d = d
    c1 = c1
    c2 = c2
    P1 = P1
    P2 = P2
    None = None
    Path = {a, b, d}
    References <- BNeedsA
    Deriver <- DerivesA
    KeepOutputs = TRUE
    KeepDerivations = TRUE
    Client = {c1}
    Process = {P1}
    ProcOf <- OneEach
    GCOptions <- DeleteDead
    Ops = {"add", "perm"}
    Faults = {}
    InitValid = {a, b, d}
    MaxOps = 2
    MaxGC = 1
SPECIFICATION Spec
INVARIANTS AliveIsNeeded
PROPERTIES KeepSettingsHonoured
\* Clients and collector stop when their operations are used up.
CHECK_DEADLOCK FALSE
