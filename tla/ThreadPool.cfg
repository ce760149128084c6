\* Two threads; every item may throw.
CONSTANTS
    i1 = i1
    i2 = i2
    i3 = i3
    None = None
    Owner = Owner
    Worker = {w1, w2}
    Item = {i1, i2, i3}
    Children <- MCChildren
    MayThrow = {i1, i2, i3}
SPECIFICATION FairSpec
INVARIANTS AllDone NobodyWorks
PROPERTIES PoolEnds
\* The pool has been destroyed.
CHECK_DEADLOCK FALSE
