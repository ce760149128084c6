\* Two requesters that ask twice, two paths, enough files that open(2) never
\* lacks one: a named file per path and a stale one of the other requester.
CONSTANTS
    Proc = {p1, p2}
    Path = {1, 2}
    Inode = {i1, i2, i3}
    None = None
    MaxRequests = 2
SPECIFICATION FairSpec
INVARIANTS MutualExclusion
PROPERTIES ImplementsLockManager EveryRequestEnds
\* All requests made: the requesters stop.
CHECK_DEADLOCK FALSE
