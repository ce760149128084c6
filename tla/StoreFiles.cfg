\* Two threads of one process, and a roots file that a dead one has left.
CONSTANTS
    t1 = t1
    t2 = t2
    P1 = P1
    P2 = P2
    Thread = {t1, t2}
    Process = {P1}
    ProcOf <- Together
    PidOf <- OnePid
    DeadPid = {9}
    Path = {1, 2}
    Inode = {1, 2, 3, 4, 5, 6, 7, 9, 10}
    Truncated = {3}
    Rotten = {4}
    Settings <- SomeSettings
    Faults = {"nospace", "manylinks", "die", "gcdie"}
    MaxJobs = 1
SPECIFICATION FairSpec
INVARIANTS RootsHeard RootsFileKept TempDirKept
PROPERTIES JobsEnd
\* Threads stop when their jobs are used up.
CHECK_DEADLOCK FALSE
