\* Two top-level goals that share references, two substituters, one slot.
CONSTANTS
    a = a
    b = b
    c = c
    None = None
    Path = {a, b, c}
    Top = {b, c}
    NSubs = 2
    Info <- MCInfo
    Slots = 1
    Settings <- MCSettings
    Faults = {"readonly", "query", "disabled", "untrusted", "copy", "gone"}
    InitValid = {a}
    InitCache <- MCCache
SPECIFICATION FairSpec
INVARIANTS   KeepGoingFinishesAll
PROPERTIES WorkerEnds
\* The worker has returned.
CHECK_DEADLOCK FALSE
