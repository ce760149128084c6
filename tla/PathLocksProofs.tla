-------------------------- MODULE PathLocksProofs --------------------------
(***************************************************************************)
(* Mutual exclusion of path locks, for every number of requesters, paths   *)
(* and files.  The invariant says why unlinking by name is safe: the file  *)
(* a PathLock has flocked is still the one the directory calls <path>.lock.*)
(***************************************************************************)
EXTENDS PathLocks, TLAPS

(* A file has at most one name, and is only ever opened under that name. *)
NamesDiffer ==
    \A x, y \in Path : name[x] # None /\ name[x] = name[y] => x = y

OpenedByName ==
    \A p \in Proc, x, y \in Path : fd[p][x] # None /\ name[y] = fd[p][x] => x = y

OpenedAlike ==
    \A p, q \in Proc, x, y \in Path : fd[p][x] # None /\ fd[p][x] = fd[q][y] => x = y

OneNamePerFile == NamesDiffer /\ OpenedByName /\ OpenedAlike

(* A held lock: open, flocked, and the file is still <path>.lock. *)
HeldFileIsNamed ==
    \A p \in Proc : \A x \in held[p] :
        /\ fd[p][x] # None
        /\ owner[fd[p][x]] = p
        /\ name[x] = fd[p][x]

(* The lock a requester is acquiring or closing is not one it holds. *)
Working ==
    \A p \in Proc :
        /\ held[p] \cap todo[p] = {}
        /\ pc[p] = "idle" => held[p] = {}
        /\ pc[p] \in Acquiring \cup {"close"} =>
               cur[p] \in Path /\ cur[p] \notin held[p] /\ CurFile(p) # None
        /\ pc[p] \in Acquiring => cur[p] \in todo[p]
        /\ pc[p] \in {"check", "close"} => owner[CurFile(p)] = p
        /\ pc[p] \in {"idle", "held", "unlink", "close"} => todo[p] = {}

IInv == TypeOK /\ OneNamePerFile /\ HeldFileIsNamed /\ Working

USE PathAssumption, InodeAssumption, RequestsAssumption DEF Acquiring, CurFile

(* The invariant holds before anybody has asked for a lock. *)
LEMMA InitIInv == Init => IInv
BY DEF Init, IInv, TypeOK, OneNamePerFile, NamesDiffer, OpenedByName, OpenedAlike,
       HeldFileIsNamed, Working

(* A requester at work on a lock has its file open. *)
LEMMA CurFileIsOpen ==
    ASSUME IInv, NEW p \in Proc, pc[p] \in Acquiring \cup {"close"}
    PROVE  cur[p] \in Path /\ CurFile(p) \in Inode
<1>1. cur[p] \in Path /\ CurFile(p) # None
    BY DEF IInv, Working
<1>2. fd[p] \in [Path -> Inode \cup {None}]
    BY DEF IInv, TypeOK
<1> QED
    BY <1>1, <1>2

(* If the file a requester has open has a name, it is <path>.lock. *)
LEMMA NamedAsOpened ==
    ASSUME IInv, NEW p \in Proc, cur[p] \in Path, CurFile(p) \in Inode,
           NEW y \in Path, name[y] = CurFile(p)
    PROVE  name[cur[p]] = CurFile(p)
<1>1. fd[p][cur[p]] # None
    OBVIOUS
<1> QED
    BY <1>1 DEF IInv, OneNamePerFile, OpenedByName

(* No step of lockPaths, unlock or the kernel breaks the types. *)
LEMMA TypeStep == IInv /\ [Next]_vars => TypeOK'
<1> SUFFICES ASSUME IInv, [Next]_vars PROVE TypeOK'
    OBVIOUS
<1>1. ASSUME NEW p \in Proc, NEW S \in SUBSET Path, NEW w \in BOOLEAN,
             LockPaths(p, S, w)
      PROVE  TypeOK'
    BY <1>1 DEF IInv, TypeOK, LockPaths
<1>2. ASSUME NEW p \in Proc, NEW x \in Path, NEW i \in Inode, OpenLockFile(p, x, i)
      PROVE  TypeOK'
    BY <1>2 DEF IInv, TypeOK, OpenLockFile
<1>3. ASSUME NEW p \in Proc, OpenLockFileFails(p) PROVE TypeOK'
    BY <1>3 DEF IInv, TypeOK, OpenLockFileFails, Unwound
<1>4. ASSUME NEW p \in Proc, TryLockFile(p) PROVE TypeOK'
    <2>1. CASE Flock(p)
        BY <1>4, <2>1 DEF IInv, TypeOK, TryLockFile, Flock, Working
    <2>2. CASE GiveUp(p)
        BY <1>4, <2>2 DEF IInv, TypeOK, TryLockFile, GiveUp, Unwound
    <2>3. CASE UNCHANGED <<name, owner, fd, held, todo, cur, wait, asked>>
               /\ pc' = [pc EXCEPT ![p] = "blocked"]
        BY <2>3 DEF IInv, TypeOK
    <2> QED
        BY <1>4, <2>1, <2>2, <2>3 DEF TryLockFile
<1>5. ASSUME NEW p \in Proc, LockFile(p) PROVE TypeOK'
    BY <1>5 DEF IInv, TypeOK, LockFile, Flock
<1>6. ASSUME NEW p \in Proc, Interrupt(p) PROVE TypeOK'
    BY <1>6 DEF IInv, TypeOK, Interrupt, GiveUp, Unwound
<1>7. ASSUME NEW p \in Proc, CheckPathLock(p) PROVE TypeOK'
    <2>1. pc[p] = "check"
        BY <1>7 DEF CheckPathLock
    <2>2. cur[p] \in Path /\ CurFile(p) \in Inode
        BY <2>1, CurFileIsOpen
    <2>3. CASE TakeLock(p)
        BY <2>2, <2>3 DEF IInv, TypeOK, TakeLock
    <2>4. CASE RetryLock(p)
        BY <2>2, <2>4 DEF IInv, TypeOK, RetryLock
    <2> QED
        BY <1>7, <2>3, <2>4 DEF CheckPathLock
<1>8. ASSUME NEW p \in Proc, Release(p) PROVE TypeOK'
    BY <1>8 DEF IInv, TypeOK, Release, Unwound
<1>9. ASSUME NEW p \in Proc, NEW x \in Path, Unlink(p, x) PROVE TypeOK'
    BY <1>9 DEF IInv, TypeOK, Unlink
<1>10. ASSUME NEW p \in Proc, Close(p) PROVE TypeOK'
    BY <1>10 DEF IInv, TypeOK, Close, Unwound
<1>11. ASSUME NEW p \in Proc, Crash(p) PROVE TypeOK'
    BY <1>11 DEF IInv, TypeOK, Crash
<1>12. CASE UNCHANGED vars
    BY <1>12 DEF IInv, TypeOK, vars
<1> QED
    BY <1>1, <1>2, <1>3, <1>4, <1>5, <1>6, <1>7, <1>8, <1>9, <1>10, <1>11,
       <1>12 DEF Next, Step

-----------------------------------------------------------------------------
(* open(2) creates files that no other path has as its name. *)
LEMMA OneNameStep == IInv /\ [Next]_vars => OneNamePerFile'
<1> SUFFICES ASSUME IInv, [Next]_vars PROVE OneNamePerFile'
    OBVIOUS
<1> NamesDiffer /\ OpenedByName /\ OpenedAlike
    BY DEF IInv, OneNamePerFile
<1>1. ASSUME UNCHANGED <<name, fd>> PROVE OneNamePerFile'
    <2>1. NamesDiffer'
        BY <1>1 DEF NamesDiffer
    <2>2. OpenedByName'
        BY <1>1 DEF OpenedByName
    <2>3. OpenedAlike'
        BY <1>1 DEF OpenedAlike
    <2> QED
        BY <2>1, <2>2, <2>3 DEF OneNamePerFile
<1>2. ASSUME NEW p \in Proc, NEW x \in Path, NEW i \in Inode, OpenLockFile(p, x, i)
      PROVE  OneNamePerFile'
    <2> name \in [Path -> Inode \cup {None}] /\ fd \in [Proc -> [Path -> Inode \cup {None}]]
        BY DEF IInv, TypeOK
    <2>1. NamesDiffer'
        BY <1>2 DEF NamesDiffer, OpenLockFile, Unused
    <2>2. OpenedByName'
        BY <1>2 DEF NamesDiffer, OpenedByName, OpenLockFile, Unused
    <2>3. OpenedAlike'
        BY <1>2 DEF OpenedByName, OpenedAlike, OpenLockFile, Unused
    <2> QED
        BY <2>1, <2>2, <2>3 DEF OneNamePerFile
<1>3. ASSUME NEW p \in Proc, NEW x \in Path, fd' = [fd EXCEPT ![p][x] = None],
             UNCHANGED name
      PROVE  OneNamePerFile'
    <2> fd \in [Proc -> [Path -> Inode \cup {None}]]
        BY DEF IInv, TypeOK
    <2>1. NamesDiffer'
        BY <1>3 DEF NamesDiffer
    <2>2. OpenedByName'
        BY <1>3 DEF OpenedByName
    <2>3. OpenedAlike'
        BY <1>3 DEF OpenedAlike
    <2> QED
        BY <2>1, <2>2, <2>3 DEF OneNamePerFile
<1>4. ASSUME NEW p \in Proc, NEW x \in Path, Unlink(p, x)
      PROVE  OneNamePerFile'
    <2>1. CASE name' = [name EXCEPT ![x] = None] /\ UNCHANGED fd
        <3> name \in [Path -> Inode \cup {None}] /\ fd \in [Proc -> [Path -> Inode \cup {None}]]
            BY DEF IInv, TypeOK
        <3>1. NamesDiffer'
            BY <2>1 DEF NamesDiffer
        <3>2. OpenedByName'
            BY <2>1 DEF OpenedByName
        <3>3. OpenedAlike'
            BY <2>1 DEF OpenedAlike
        <3> QED
            BY <3>1, <3>2, <3>3 DEF OneNamePerFile
    <2> QED
        BY <1>1, <1>4, <2>1 DEF Unlink
<1>5. ASSUME NEW p \in Proc, Crash(p) PROVE OneNamePerFile'
    <2> fd \in [Proc -> [Path -> Inode \cup {None}]]
        BY DEF IInv, TypeOK
    <2>1. NamesDiffer'
        BY <1>5 DEF NamesDiffer, Crash
    <2>2. OpenedByName'
        BY <1>5 DEF OpenedByName, Crash
    <2>3. OpenedAlike'
        BY <1>5 DEF OpenedAlike, Crash
    <2> QED
        BY <2>1, <2>2, <2>3 DEF OneNamePerFile
<1>6. ASSUME NEW p \in Proc, Step(p) PROVE OneNamePerFile'
    <2>1. CASE TryLockFile(p)
        BY <2>1, <1>1, <1>3, CurFileIsOpen DEF TryLockFile, Flock, GiveUp
    <2>2. CASE LockFile(p)
        BY <2>2, <1>1 DEF LockFile, Flock
    <2>3. CASE CheckPathLock(p)
        BY <2>3, <1>1, <1>3, CurFileIsOpen DEF CheckPathLock, TakeLock, RetryLock
    <2>4. CASE Release(p)
        BY <2>4, <1>1 DEF Release
    <2>5. CASE Close(p)
        BY <2>5, <1>3, CurFileIsOpen DEF Close
    <2> QED
        BY <1>2, <1>4, <1>6, <2>1, <2>2, <2>3, <2>4, <2>5 DEF Step
<1>7. ASSUME NEW p \in Proc, Interrupt(p) PROVE OneNamePerFile'
    BY <1>7, <1>3, CurFileIsOpen DEF Interrupt, GiveUp
<1> QED
    BY <1>1, <1>5, <1>6, <1>7 DEF Next, vars, LockPaths, OpenLockFileFails

-----------------------------------------------------------------------------
(* A held lock file keeps its name until its holder unlinks it. *)
LEMMA HeldStep == IInv /\ [Next]_vars => HeldFileIsNamed'
<1> SUFFICES ASSUME IInv, [Next]_vars PROVE HeldFileIsNamed'
    OBVIOUS
<1>1. ASSUME UNCHANGED <<name, owner, fd, held>> PROVE HeldFileIsNamed'
    BY <1>1 DEF IInv, HeldFileIsNamed
<1>2. ASSUME NEW p \in Proc, NEW x \in Path, NEW i \in Inode, OpenLockFile(p, x, i)
      PROVE  HeldFileIsNamed'
    <2>1. x \notin held[p]
        BY <1>2 DEF IInv, Working, OpenLockFile, NextPath
    <2> QED
        BY <1>2, <2>1 DEF IInv, TypeOK, HeldFileIsNamed, OpenLockFile
<1>3. ASSUME NEW p \in Proc, pc[p] \in Acquiring, GiveUp(p) PROVE HeldFileIsNamed'
    BY <1>3, CurFileIsOpen DEF IInv, TypeOK, HeldFileIsNamed, Working, GiveUp
<1>4. ASSUME NEW p \in Proc, pc[p] \in Acquiring, Flock(p) PROVE HeldFileIsNamed'
    BY <1>4, CurFileIsOpen DEF IInv, TypeOK, HeldFileIsNamed, Flock
<1>5. ASSUME NEW p \in Proc, CheckPathLock(p) PROVE HeldFileIsNamed'
    <2>1. pc[p] = "check" /\ cur[p] \in Path /\ CurFile(p) \in Inode
        BY <1>5, CurFileIsOpen DEF CheckPathLock
    <2>2. owner[CurFile(p)] = p /\ cur[p] \notin held[p]
        BY <2>1 DEF IInv, Working
    <2>3. CASE TakeLock(p)
        <3>1. name[cur[p]] = CurFile(p)
            BY <2>1, <2>3, NamedAsOpened DEF TakeLock, PathLockValid
        <3> QED
            BY <2>1, <2>2, <2>3, <3>1 DEF IInv, TypeOK, HeldFileIsNamed, TakeLock
    <2>4. CASE RetryLock(p)
        <3>1. ASSUME NEW q \in Proc, NEW y \in held[q]
              PROVE  fd[q][y] # CurFile(p)
            BY <2>4, <3>1 DEF IInv, TypeOK, HeldFileIsNamed, RetryLock, PathLockValid
        <3>2. ASSUME NEW q \in Proc, NEW y \in held[q]
              PROVE  fd'[q][y] = fd[q][y] /\ owner'[fd[q][y]] = owner[fd[q][y]]
            BY <2>1, <2>2, <2>4, <3>1, <3>2 DEF IInv, TypeOK, RetryLock
        <3> QED
            BY <2>4, <3>2 DEF IInv, HeldFileIsNamed, RetryLock
    <2> QED
        BY <1>5, <2>3, <2>4 DEF CheckPathLock
<1>6. ASSUME NEW p \in Proc, NEW x \in Path, Unlink(p, x) PROVE HeldFileIsNamed'
    <2>1. x \in held[p]
        BY <1>6 DEF Unlink, NextPath
    <2>2. ASSUME NEW q \in Proc, q # p PROVE x \notin held[q]
        BY <2>1, <2>2 DEF IInv, HeldFileIsNamed
    <2> QED
        BY <1>6, <2>2 DEF IInv, TypeOK, HeldFileIsNamed, Unlink
<1>7. ASSUME NEW p \in Proc, Close(p) PROVE HeldFileIsNamed'
    <2>1. pc[p] = "close" /\ cur[p] \in Path /\ CurFile(p) \in Inode
        BY <1>7, CurFileIsOpen DEF Close
    <2>2. owner[CurFile(p)] = p /\ cur[p] \notin held[p]
        BY <2>1 DEF IInv, Working
    <2>3. ASSUME NEW q \in Proc, NEW y \in held[q] PROVE fd[q][y] # CurFile(p)
        <3>1. CASE q = p
            <4>1. y \in Path /\ y # cur[p] /\ CurFile(p) # None
                BY <2>1, <2>2, <2>3, <3>1 DEF IInv, TypeOK
            <4> QED
                BY <2>1, <3>1, <4>1 DEF IInv, OneNamePerFile, OpenedAlike
        <3>2. CASE q # p
            BY <2>2, <2>3, <3>2 DEF IInv, HeldFileIsNamed
        <3> QED
            BY <3>1, <3>2
    <2> QED
        BY <1>7, <2>1, <2>2, <2>3 DEF IInv, TypeOK, HeldFileIsNamed, Close
<1>8. ASSUME NEW p \in Proc, Crash(p) PROVE HeldFileIsNamed'
    BY <1>8 DEF IInv, TypeOK, HeldFileIsNamed, Crash
<1>9. ASSUME NEW p \in Proc, Step(p) PROVE HeldFileIsNamed'
    BY <1>1, <1>2, <1>3, <1>4, <1>5, <1>6, <1>7, <1>9
    DEF Step, TryLockFile, LockFile, Release
<1> QED
    BY <1>1, <1>3, <1>8, <1>9 DEF Next, vars, LockPaths, OpenLockFileFails, Interrupt

-----------------------------------------------------------------------------
(* The program counter of a requester agrees with its locks. *)
LEMMA WorkingStep == IInv /\ [Next]_vars => Working'
<1> SUFFICES ASSUME IInv, [Next]_vars PROVE Working'
    OBVIOUS
<1>1. ASSUME NEW p \in Proc, NEW S \in SUBSET Path, NEW w \in BOOLEAN,
             LockPaths(p, S, w)
      PROVE  Working'
    <2>1. CASE S = {}
        BY <1>1, <2>1 DEF IInv, TypeOK, Working, LockPaths
    <2>2. CASE S # {}
        <3>1. held[p] = {} /\ pc' = [pc EXCEPT ![p] = "open"]
            BY <1>1, <2>2 DEF IInv, Working, LockPaths
        <3> QED
            BY <1>1, <3>1 DEF IInv, TypeOK, Working, LockPaths
    <2> QED
        BY <2>1, <2>2
<1>2. ASSUME NEW p \in Proc, NEW x \in Path, NEW i \in Inode, OpenLockFile(p, x, i)
      PROVE  Working'
    BY <1>2 DEF IInv, TypeOK, Working, OpenLockFile, NextPath
<1>3. ASSUME NEW p \in Proc, OpenLockFileFails(p) PROVE Working'
    BY <1>3 DEF IInv, TypeOK, Working, OpenLockFileFails, Unwound
<1>4. ASSUME NEW p \in Proc, pc[p] \in Acquiring, GiveUp(p) PROVE Working'
    BY <1>4, CurFileIsOpen DEF IInv, TypeOK, Working, GiveUp, Unwound
<1>5. ASSUME NEW p \in Proc, pc[p] \in Acquiring, Flock(p) PROVE Working'
    BY <1>5, CurFileIsOpen DEF IInv, TypeOK, Working, Flock
<1>6. ASSUME NEW p \in Proc, pc[p] = "try", pc' = [pc EXCEPT ![p] = "blocked"],
             UNCHANGED <<name, owner, fd, held, todo, cur, wait, asked>>
      PROVE  Working'
    BY <1>6 DEF IInv, TypeOK, Working
<1>7. ASSUME NEW p \in Proc, CheckPathLock(p) PROVE Working'
    <2>1. pc[p] = "check" /\ cur[p] \in Path /\ CurFile(p) \in Inode
        BY <1>7, CurFileIsOpen DEF CheckPathLock
    <2>2. CASE TakeLock(p)
        BY <2>1, <2>2 DEF IInv, TypeOK, Working, TakeLock
    <2>3. CASE RetryLock(p)
        BY <2>1, <2>3 DEF IInv, TypeOK, Working, RetryLock
    <2> QED
        BY <1>7, <2>2, <2>3 DEF CheckPathLock
<1>8. ASSUME NEW p \in Proc, Release(p) PROVE Working'
    BY <1>8 DEF IInv, TypeOK, Working, Release, Unwound
<1>9. ASSUME NEW p \in Proc, NEW x \in Path, Unlink(p, x) PROVE Working'
    BY <1>9 DEF IInv, TypeOK, Working, HeldFileIsNamed, Unlink, NextPath
<1>10. ASSUME NEW p \in Proc, Close(p) PROVE Working'
    BY <1>10, CurFileIsOpen DEF IInv, TypeOK, Working, Close, Unwound
<1>11. ASSUME NEW p \in Proc, Crash(p) PROVE Working'
    <2>1. ASSUME NEW q \in Proc, q # p, pc[q] \in {"check", "close"}
          PROVE  owner'[CurFile(q)] = q
        <3>1. CurFile(q) \in Inode
            BY <2>1, CurFileIsOpen
        <3>2. owner[CurFile(q)] = q
            BY <2>1 DEF IInv, Working
        <3> QED
            BY <1>11, <2>1, <3>1, <3>2 DEF Crash
    <2> QED
        BY <1>11, <2>1 DEF IInv, TypeOK, Working, Crash
<1>12. CASE UNCHANGED vars
    BY <1>12 DEF IInv, Working, vars
<1>13. ASSUME NEW p \in Proc, Step(p) PROVE Working'
    BY <1>2, <1>4, <1>5, <1>6, <1>7, <1>8, <1>9, <1>10, <1>13
    DEF Step, TryLockFile, LockFile
<1> QED
    BY <1>1, <1>3, <1>4, <1>11, <1>12, <1>13 DEF Next, Interrupt

(* Every step keeps the invariant. *)
LEMMA IInvStep == IInv /\ [Next]_vars => IInv'
BY TypeStep, OneNameStep, HeldStep, WorkingStep DEF IInv

(***************************************************************************)
(* Every variable keeps its type: in particular no flock is recorded for   *)
(* a descriptor that openLockFile never returned.                          *)
(***************************************************************************)
THEOREM TypeCorrect == Spec => []TypeOK
<1>1. IInv => TypeOK
    BY DEF IInv
<1> QED
    BY InitIInv, IInvStep, <1>1, PTL DEF Spec

(***************************************************************************)
(* Two requesters never hold a PathLock on the same path at once.          *)
(***************************************************************************)
THEOREM LocksAreExclusive == Spec => []MutualExclusion
<1>1. IInv => MutualExclusion
    BY DEF IInv, HeldFileIsNamed, MutualExclusion
<1> QED
    BY InitIInv, IInvStep, <1>1, PTL DEF Spec

(***************************************************************************)
(* PathLock::unlock, which unlinks by name, only ever removes the file     *)
(* whose flock its PathLock holds.                                         *)
(***************************************************************************)
THEOREM UnlinkIsOwn == Spec => UnlinksOnlyOwnFile
<1> DEFINE Own == \A x \in Path : name[x] # None /\ name'[x] # name[x] =>
                      \E p \in Proc : pc[p] = "unlink" /\ owner[name[x]] = p
<1>1. IInv /\ [Next]_vars => [Own]_vars
    <2> SUFFICES ASSUME IInv, Next PROVE Own
        BY DEF vars
    <2>1. ASSUME UNCHANGED name PROVE Own
        BY <2>1
    <2>2. ASSUME NEW p \in Proc, NEW x \in Path, NEW i \in Inode, OpenLockFile(p, x, i)
          PROVE  Own
        BY <2>2 DEF IInv, TypeOK, OpenLockFile
    <2>3. ASSUME NEW p \in Proc, NEW x \in Path, Unlink(p, x) PROVE Own
        BY <2>3 DEF IInv, TypeOK, HeldFileIsNamed, Unlink, NextPath
    <2> HIDE DEF Own
    <2> QED
        BY <2>1, <2>2, <2>3 DEF Next, Step, LockPaths, OpenLockFileFails, TryLockFile,
           Flock, GiveUp, LockFile, Interrupt, CheckPathLock, TakeLock, RetryLock,
           Release, Close, Crash
<1> QED
    BY InitIInv, IInvStep, <1>1, PTL DEF Spec, UnlinksOnlyOwnFile

(***************************************************************************)
(* The lock-file protocol implements exclusive locks (LockManager): a      *)
(* requester comes to hold a path when isPathLockValid accepts its file,   *)
(* and at that moment nobody else holds it.                                *)
(***************************************************************************)
THEOREM ImplementsLocks == Spec => ImplementsLockManager
<1>1. Init => Locks!Init
    BY DEF Init, Locks!Init
<1>2. IInv /\ [Next]_vars => [Locks!Next]_held
    <2> SUFFICES ASSUME IInv, Next PROVE [Locks!Next]_held
        BY DEF vars
    <2>1. ASSUME UNCHANGED held PROVE [Locks!Next]_held
        BY <2>1
    <2>2. ASSUME NEW p \in Proc, CheckPathLock(p) PROVE [Locks!Next]_held
        <3>1. pc[p] = "check" /\ cur[p] \in Path /\ CurFile(p) \in Inode
            BY <2>2, CurFileIsOpen DEF CheckPathLock
        <3>2. CASE TakeLock(p)
            <4>1. name[cur[p]] = CurFile(p)
                BY <3>1, <3>2, NamedAsOpened DEF TakeLock, PathLockValid
            <4>2. \A q \in Proc : cur[p] \notin held[q]
                BY <3>1, <4>1 DEF IInv, HeldFileIsNamed, Working
            <4> QED
                BY <3>1, <3>2, <4>2 DEF TakeLock, Locks!Next, Locks!Acquire
        <3>3. CASE RetryLock(p)
            BY <3>3, <2>1 DEF RetryLock
        <3> QED
            BY <2>2, <3>2, <3>3 DEF CheckPathLock
    <2>3. ASSUME NEW p \in Proc, NEW x \in Path, Unlink(p, x) PROVE [Locks!Next]_held
        <3>1. Locks!Release(p, {x})
            BY <2>3 DEF Unlink, NextPath, Locks!Release
        <3> QED
            BY <3>1 DEF Locks!Next
    <2>4. ASSUME NEW p \in Proc, Crash(p) PROVE [Locks!Next]_held
        <3>1. held[p] \in SUBSET Path /\ Locks!Release(p, held[p])
            BY <2>4 DEF IInv, TypeOK, Crash, Locks!Release
        <3> QED
            BY <3>1 DEF Locks!Next
    <2> QED
        BY <2>1, <2>2, <2>3, <2>4 DEF Next, Step, LockPaths, OpenLockFile,
           OpenLockFileFails, TryLockFile, Flock, GiveUp, LockFile, Interrupt,
           Release, Close
<1> QED
    BY InitIInv, IInvStep, <1>1, <1>2, PTL DEF Spec, ImplementsLockManager, Locks!Spec
=============================================================================
