----------------------------- MODULE PathLocks -----------------------------
(***************************************************************************)
(* Path locks (lix/libstore/pathlocks.cc).  The lock on a store path is an *)
(* exclusive flock on the file <path>.lock, which its holder unlinks when  *)
(* it lets go.  A requester can therefore win the flock of a file that no  *)
(* longer has a name; it notices by looking at the link count, and starts  *)
(* again.                                                                  *)
(*                                                                         *)
(* A requester is a thread or goal, with a file description of its own for *)
(* every lock file it has open.  Nobody but the holders of locks unlinks   *)
(* lock files here; GarbageCollector models the collector that does too.   *)
(***************************************************************************)
EXTENDS Naturals

CONSTANTS
    Proc,           \* requesters
    Path,           \* what can be locked, in the order of PathSet
    Inode,          \* files; one without a name or descriptor can be reused
    None,
    MaxRequests     \* bound: lockPaths and tryLockPaths calls per requester

ASSUME PathAssumption == Path \subseteq Nat
ASSUME InodeAssumption == None \notin Inode /\ None \notin Proc
ASSUME RequestsAssumption == MaxRequests \in Nat

VARIABLES
    name,       \* directory: the file <path>.lock of each path, or None
    owner,      \* who has each file's exclusive flock, or None
    fd,         \* the file each requester has open for each path, or None
    held,       \* the PathLock objects of each requester
    todo,       \* what lockPathsImpl still has to lock
    cur,        \* the path whose lock is being acquired or closed
    wait,       \* lockPaths (TRUE) or tryLockPaths (FALSE)
    asked,      \* calls made so far
    pc

vars == <<name, owner, fd, held, todo, cur, wait, asked, pc>>

Acquiring == {"try", "blocked", "check"}

(* Processes, descriptors and lock files have values of their types. *)
TypeOK ==
    /\ name \in [Path -> Inode \cup {None}]
    /\ owner \in [Inode -> Proc \cup {None}]
    /\ fd \in [Proc -> [Path -> Inode \cup {None}]]
    /\ held \in [Proc -> SUBSET Path]
    /\ todo \in [Proc -> SUBSET Path]
    /\ cur \in [Proc -> Path \cup {None}]
    /\ wait \in [Proc -> BOOLEAN]
    /\ asked \in [Proc -> 0..MaxRequests]
    /\ pc \in [Proc -> {"idle", "open", "held", "unlink", "close"} \cup Acquiring]

Init ==
    /\ name = [x \in Path |-> None]
    /\ owner = [i \in Inode |-> None]
    /\ fd = [p \in Proc |-> [x \in Path |-> None]]
    /\ held = [p \in Proc |-> {}]
    /\ todo = [p \in Proc |-> {}]
    /\ cur = [p \in Proc |-> None]
    /\ wait = [p \in Proc |-> FALSE]
    /\ asked = [p \in Proc |-> 0]
    /\ pc = [p \in Proc |-> "idle"]

-----------------------------------------------------------------------------
(* lockPathsImpl takes the paths of a PathSet in sorted order. *)
NextPathUnsorted(x, S) == x \in S
NextPath(x, S) == x \in S /\ \A y \in S : x <= y

(* The file whose lock the requester is acquiring or closing. *)
CurFile(p) == fd[p][cur[p]]

Unused(i) ==
    /\ \A x \in Path : name[x] # i
    /\ \A p \in Proc, x \in Path : fd[p][x] # i

(* lockPaths / tryLockPaths. *)
LockPaths(p, S, w) ==
    /\ pc[p] = "idle"
    /\ asked[p] < MaxRequests
    /\ asked' = [asked EXCEPT ![p] = @ + 1]
    /\ todo' = [todo EXCEPT ![p] = S]
    /\ wait' = [wait EXCEPT ![p] = w]
    /\ pc' = [pc EXCEPT ![p] = IF S = {} THEN "held" ELSE "open"]
    /\ UNCHANGED <<name, owner, fd, held, cur>>

(* openLockFile(path, true). *)
OpenLockFile(p, x, i) ==
    /\ pc[p] = "open"
    /\ NextPath(x, todo[p])
    /\ IF name[x] = None THEN Unused(i) ELSE name[x] = i
    /\ name' = [name EXCEPT ![x] = i]
    /\ fd' = [fd EXCEPT ![p][x] = i]
    /\ cur' = [cur EXCEPT ![p] = x]
    /\ pc' = [pc EXCEPT ![p] = "try"]
    /\ UNCHANGED <<owner, held, todo, wait, asked>>

(* The vector of locks taken so far is destroyed: unlock each, then done. *)
Unwound(p) == IF held[p] = {} THEN "idle" ELSE "unlink"

(* openLockFile throws. *)
OpenLockFileFails(p) ==
    /\ pc[p] = "open"
    /\ todo' = [todo EXCEPT ![p] = {}]
    /\ pc' = [pc EXCEPT ![p] = Unwound(p)]
    /\ UNCHANGED <<name, owner, fd, held, cur, wait, asked>>

(* The descriptor of the lock being acquired closes; the file keeps its name. *)
GiveUp(p) ==
    /\ fd' = [fd EXCEPT ![p][cur[p]] = None]
    /\ cur' = [cur EXCEPT ![p] = None]
    /\ todo' = [todo EXCEPT ![p] = {}]
    /\ pc' = [pc EXCEPT ![p] = Unwound(p)]
    /\ UNCHANGED <<name, owner, held, wait, asked>>

Flock(p) ==
    /\ owner[CurFile(p)] = None
    /\ owner' = [owner EXCEPT ![CurFile(p)] = p]
    /\ pc' = [pc EXCEPT ![p] = "check"]
    /\ UNCHANGED <<name, fd, held, todo, cur, wait, asked>>

TryLockFile(p) ==
    /\ pc[p] = "try"
    /\ \/ Flock(p)
       \/ /\ owner[CurFile(p)] # None
          /\ wait[p]
          /\ pc' = [pc EXCEPT ![p] = "blocked"]
          /\ UNCHANGED <<name, owner, fd, held, todo, cur, wait, asked>>
       \/ owner[CurFile(p)] # None /\ ~wait[p] /\ GiveUp(p)

LockFile(p) == pc[p] = "blocked" /\ Flock(p)

(* checkInterrupt throws while waiting in flock. *)
Interrupt(p) == pc[p] = "blocked" /\ GiveUp(p)

(* isPathLockValid: fstat's st_nlink. *)
NlinkNotChecked(i) == TRUE
PathLockValid(i) == \E x \in Path : name[x] = i

TakeLock(p) ==
    /\ PathLockValid(CurFile(p))
    /\ held' = [held EXCEPT ![p] = @ \cup {cur[p]}]
    /\ todo' = [todo EXCEPT ![p] = @ \ {cur[p]}]
    /\ cur' = [cur EXCEPT ![p] = None]
    /\ pc' = [pc EXCEPT ![p] = IF todo[p] = {cur[p]} THEN "held" ELSE "open"]
    /\ UNCHANGED <<name, owner, fd, wait, asked>>

RetryLock(p) ==
    /\ ~PathLockValid(CurFile(p))
    /\ fd' = [fd EXCEPT ![p][cur[p]] = None]
    /\ owner' = [owner EXCEPT ![CurFile(p)] = None]
    /\ cur' = [cur EXCEPT ![p] = None]
    /\ pc' = [pc EXCEPT ![p] = "open"]
    /\ UNCHANGED <<name, held, todo, wait, asked>>

CheckPathLock(p) == pc[p] = "check" /\ (TakeLock(p) \/ RetryLock(p))

(* The holder drops its PathLocks. *)
Release(p) ==
    /\ pc[p] = "held"
    /\ pc' = [pc EXCEPT ![p] = Unwound(p)]
    /\ UNCHANGED <<name, owner, fd, held, todo, cur, wait, asked>>

(* PathLock::unlock, the unlink: its failure is ignored. *)
Unlink(p, x) ==
    /\ pc[p] = "unlink"
    /\ NextPath(x, held[p])
    /\ \/ name' = [name EXCEPT ![x] = None]
       \/ UNCHANGED name
    /\ held' = [held EXCEPT ![p] = @ \ {x}]
    /\ cur' = [cur EXCEPT ![p] = x]
    /\ pc' = [pc EXCEPT ![p] = "close"]
    /\ UNCHANGED <<owner, fd, todo, wait, asked>>

(* PathLock::unlock, the close that gives up the flock. *)
Close(p) ==
    /\ pc[p] = "close"
    /\ owner' = [owner EXCEPT ![CurFile(p)] = None]
    /\ fd' = [fd EXCEPT ![p][cur[p]] = None]
    /\ cur' = [cur EXCEPT ![p] = None]
    /\ pc' = [pc EXCEPT ![p] = Unwound(p)]
    /\ UNCHANGED <<name, held, todo, wait, asked>>

(* The process dies; the kernel closes its descriptors, its files stay. *)
Crash(p) ==
    /\ pc[p] # "idle"
    /\ owner' = [i \in Inode |-> IF owner[i] = p THEN None ELSE owner[i]]
    /\ fd' = [fd EXCEPT ![p] = [x \in Path |-> None]]
    /\ held' = [held EXCEPT ![p] = {}]
    /\ todo' = [todo EXCEPT ![p] = {}]
    /\ cur' = [cur EXCEPT ![p] = None]
    /\ pc' = [pc EXCEPT ![p] = "idle"]
    /\ UNCHANGED <<name, wait, asked>>

(* What a requester does by itself once it has called lockPaths. *)
Step(p) ==
    \/ \E x \in Path, i \in Inode : OpenLockFile(p, x, i)
    \/ TryLockFile(p)
    \/ LockFile(p)
    \/ CheckPathLock(p)
    \/ Release(p)
    \/ \E x \in Path : Unlink(p, x)
    \/ Close(p)

Next == \E p \in Proc :
    \/ \E S \in SUBSET Path, w \in BOOLEAN : LockPaths(p, S, w)
    \/ Step(p)
    \/ OpenLockFileFails(p)
    \/ Interrupt(p)
    \/ Crash(p)

Spec == Init /\ [][Next]_vars

(* A requester keeps running, and whoever has the locks drops them in the *)
(* end.                                                                   *)
Fairness == \A p \in Proc : WF_vars(Step(p))

FairSpec == Spec /\ Fairness

-----------------------------------------------------------------------------
(***************************************************************************)
(* Two requesters never hold the lock on one path: although lock files are *)
(* unlinked on release (PathLock::unlock), no two PathLock objects for the *)
(* same path exist.                                                        *)
(***************************************************************************)
MutualExclusion ==
    \A p, q \in Proc : p # q => held[p] \cap held[q] = {}

(***************************************************************************)
(* unlock() unlinks by name.  What it removes is always the file whose     *)
(* flock it holds, never the file of a later holder.                       *)
(***************************************************************************)
UnlinksOnlyOwnFile ==
    [][\A x \in Path : name[x] # None /\ name'[x] # name[x] =>
           \E p \in Proc : pc[p] = "unlink" /\ owner[name[x]] = p]_vars

(***************************************************************************)
(* Every lockPaths or tryLockPaths call ends, and its locks are dropped:   *)
(* "locks are always acquired in the same order, thus preventing           *)
(* deadlocks" (lockPathsImpl), and nobody is left waiting on a stale file. *)
(***************************************************************************)
EveryRequestEnds == \A p \in Proc : pc[p] # "idle" ~> pc[p] = "idle"

(***************************************************************************)
(* The protocol on lock files implements plain exclusive locks.            *)
(***************************************************************************)
Locks == INSTANCE LockManager WITH holds <- held
ImplementsLockManager == Locks!Spec
=============================================================================
