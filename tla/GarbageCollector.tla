-------------------------- MODULE GarbageCollector --------------------------
(***************************************************************************)
(* The garbage collector of a local store (lix/libstore/gc.cc) running     *)
(* next to clients that add paths and roots (addTempRoot, addPermRoot,     *)
(* LocalStore::addToStore).  The collector deletes while clients go on: a  *)
(* client that cannot get the shared GC lock sends its root to the         *)
(* collector's socket and waits for the answer.                            *)
(*                                                                         *)
(* A directory entry of the store is a pair <<path, kind>>: the object     *)
(* itself or its lock file, which also parses as a store path.  The first  *)
(* component stands for the hash part, which is all that the collector     *)
(* compares temporary roots by.                                            *)
(***************************************************************************)
EXTENDS Naturals, FiniteSets

CONSTANTS
    Path,               \* store paths
    References,         \* references of each path, without itself
    Deriver,            \* the derivation that each path is an output of, or None
    KeepOutputs, KeepDerivations,
    Client,             \* client threads
    Process, ProcOf,    \* the process, with its LocalStore, of each thread
    GCOptions,          \* ways in which collectGarbage may be called
    Ops,                \* what clients may do: "add", "perm", "unroot"
    Faults,             \* what may happen: "exit", "crash", "gccrash", "interrupt"
    InitValid,          \* valid paths at the start
    MaxOps,             \* bound: operations per client
    MaxGC,              \* bound: runs of the collector
    None

ASSUME GraphAssumption ==
    /\ References \in [Path -> SUBSET Path]
    /\ \A p \in Path : p \notin References[p]
    /\ Deriver \in [Path -> Path \cup {None}]
    /\ None \notin Path
ASSUME ProcessAssumption == ProcOf \in [Client -> Process]
ASSUME InitAssumption ==
    InitValid \subseteq Path /\ \A p \in InitValid : References[p] \subseteq InitValid
ASSUME BoundAssumption == MaxOps \in Nat /\ MaxGC \in Nat
ASSUME FlagAssumption == KeepOutputs \in BOOLEAN /\ KeepDerivations \in BOOLEAN

Obj(p) == <<p, "object">>
Lck(p) == <<p, "lock">>
Name == Path \X {"object", "lock"}
HashPart(n) == n[1]

Actions == {"DeleteDead", "Return", "DeleteSpecific", "TryDeleteSpecific"}

ASSUME OptionsAssumption == GCOptions \subseteq
    [action : Actions, paths : SUBSET Path, ignoreLiveness : BOOLEAN, maxFreed : Nat]

VARIABLES
    \* the store, shared by everybody
    valid,          \* database: the valid paths
    exists,         \* directory: the names present
    lockOwner,      \* who has the flock of the file now called <path>.lock
    permRoots,      \* targets of the links under gcroots
    dangling,       \* what links under gcroots/auto were for that point nowhere
    \* clients
    cpc, op, ops,   \* program counter, current operation, operations so far
    tempFile,       \* the temporary roots file of each process
    shared,         \* whether the process' GC lock descriptor has a shared lock
    conn, line,     \* the process' socket to the collector, and what it sent
    \* the collector
    gpc, opts, runs,
    roots,          \* names that are roots
    stale,          \* dangling links that findRoots is about to remove
    tempRoots,      \* GCOperation::Shared: hash parts
    pending,        \* GCOperation::Shared: the hash part being deleted
    files,          \* temporary roots files not read yet
    entries,        \* names still to be looked at
    alive, dead,
    referrersCache,
    start, visited, todo,   \* deleteReferrersClosure
    cur,            \* the name being visited or deleted
    wasValid,       \* the paths that topoSortPaths saw as valid
    kept, freed

links == <<permRoots, dangling>>
store == <<valid, exists, lockOwner, links>>
client == <<cpc, op, ops, tempFile, shared>>
socket == <<conn, line>>
server == <<tempRoots, pending>>
closure == <<start, visited, todo, cur, wasValid>>
marks == <<alive, dead, referrersCache, kept, freed>>
found == <<roots, stale>>
collector == <<gpc, opts, runs, found, server, files, entries, closure, marks>>
vars == <<store, client, socket, collector>>

NoOp == [kind |-> "none", path |-> None]
NoOpts == [action |-> "none", paths |-> {}, ignoreLiveness |-> FALSE, maxFreed |-> 0]

AddingRoot == {"start", "connect", "send", "ack", "write", "writeLocked"}
HoldingLock == {"recheck", "restore", "register", "unlock"}
\* Where the exclusive GC lock is held, and where the socket is listening.
Marking == {"scan", "pop", "visit", "delete", "unlink"}
Listening == {"roots", "stale", "temp"} \cup Marking
Locked == {"server", "shutdown"} \cup Listening

(* Clients, collector, connections and store have values of their types. *)
TypeOK ==
    /\ valid \subseteq Path
    /\ exists \subseteq Name
    /\ lockOwner \in [Path -> Client \cup {None}]
    /\ permRoots \subseteq Path /\ dangling \subseteq Path
    /\ cpc \in [Client -> {"idle", "check", "lock", "symlink"}
                              \cup AddingRoot \cup HoldingLock]
    /\ op \in [Client -> [kind : {"none", "add", "perm"}, path : Path \cup {None}]]
    /\ ops \in [Client -> 0..MaxOps]
    /\ tempFile \in [Process -> SUBSET Path]
    /\ shared \in [Process -> BOOLEAN]
    /\ conn \in [Process -> {"none", "idle", "sent", "wait", "reply", "acked",
                             "lastAck", "closed"}]
    /\ line \in [Process -> Path \cup {None}]
    /\ gpc \in {"idle", "lock"} \cup Locked
    /\ opts \in GCOptions \cup {NoOpts}
    /\ runs \in 0..MaxGC
    /\ roots \subseteq Name /\ tempRoots \subseteq Path /\ pending \in Path \cup {None}
    /\ stale \subseteq Path /\ files \subseteq Process
    /\ entries \subseteq Name /\ alive \subseteq Name /\ dead \subseteq Name
    /\ referrersCache \in [Path -> SUBSET Path \cup {None}]
    /\ start \in Name \cup {None} /\ cur \in Name \cup {None}
    /\ visited \subseteq Name /\ todo \subseteq Name /\ kept \subseteq Name
    /\ wasValid \subseteq Path
    /\ freed \in Nat

Init ==
    /\ valid = InitValid
    /\ exists = {Obj(p) : p \in InitValid}
    /\ lockOwner = [p \in Path |-> None]
    /\ permRoots \in SUBSET InitValid /\ dangling = {}
    /\ cpc = [c \in Client |-> "idle"]
    /\ op = [c \in Client |-> NoOp]
    /\ ops = [c \in Client |-> 0]
    /\ tempFile = [P \in Process |-> {}]
    /\ shared = [P \in Process |-> FALSE]
    /\ conn = [P \in Process |-> "none"]
    /\ line = [P \in Process |-> None]
    /\ gpc = "idle" /\ opts = NoOpts /\ runs = 0
    /\ roots = {} /\ stale = {} /\ tempRoots = {} /\ pending = None
    /\ files = {} /\ entries = {}
    /\ alive = {} /\ dead = {} /\ kept = {} /\ freed = 0
    /\ referrersCache = [p \in Path |-> None]
    /\ start = None /\ visited = {} /\ todo = {} /\ cur = None /\ wasValid = {}

-----------------------------------------------------------------------------
(* Reading the database. *)

Outputs(d) == {p \in Path : Deriver[p] = d}
Referrers(p) == {q \in valid : p \in References[q]}

Specific == opts.action \in {"DeleteSpecific", "TryDeleteSpecific"}
ShouldDelete == opts.action # "Return"

(* --ignore-liveness turns keep-outputs and keep-derivations off. *)
Keep(setting) == setting /\ ~(Specific /\ opts.ignoreLiveness)

(* What must stay if path p stays: computeFSClosure, one step forward. *)
Requires(p) ==
    References[p] \cup
    (IF Keep(KeepOutputs) THEN Outputs(p) \cap valid ELSE {}) \cup
    (IF Keep(KeepDerivations) THEN {Deriver[p]} \cap valid ELSE {})

Closure(R) ==
    {p \in valid : \A S \in SUBSET valid :
        R \cap valid \subseteq S /\ (\A q \in S : Requires(q) \subseteq S) => p \in S}

-----------------------------------------------------------------------------
(* Clients: addTempRoot. *)

Goto(c, l) == cpc' = [cpc EXCEPT ![c] = l]

Begin(c, k, p) ==
    /\ cpc[c] = "idle" /\ ops[c] < MaxOps
    /\ op' = [op EXCEPT ![c] = [kind |-> k, path |-> p]]
    /\ ops' = [ops EXCEPT ![c] = @ + 1]
    /\ Goto(c, "start")
    /\ UNCHANGED <<store, tempFile, shared, socket, collector>>

AddToStore(c, p) == "add" \in Ops /\ Begin(c, "add", p)
AddPermRoot(c, p) == "perm" \in Ops /\ Begin(c, "perm", p)

(* The attempt at the shared GC lock.  All threads of a process use the same *)
(* open file description, and flock(2) locks belong to the description.      *)
TryGCLock(c) ==
    /\ cpc[c] = "start"
    /\ \/ /\ gpc \notin Locked
          /\ shared' = [shared EXCEPT ![ProcOf[c]] = TRUE]
          /\ Goto(c, "writeLocked")
       \/ gpc \in Locked /\ Goto(c, "connect") /\ UNCHANGED shared
    /\ UNCHANGED <<store, op, ops, tempFile, socket, collector>>

(* _fdRootsSocket is locked from here until the answer is there. *)
Connect(c) ==
    LET P == ProcOf[c] IN
    /\ cpc[c] = "connect"
    /\ \A d \in Client : ProcOf[d] = P => cpc[d] \notin {"send", "ack"}
    /\ \/ conn[P] # "none" /\ Goto(c, "send") /\ UNCHANGED conn
       \/ /\ conn[P] = "none" /\ gpc \in Listening
          /\ conn' = [conn EXCEPT ![P] = "idle"]
          /\ Goto(c, "send")
       \/ conn[P] = "none" /\ gpc \notin Listening /\ Goto(c, "start") /\ UNCHANGED conn
    /\ UNCHANGED <<store, op, ops, tempFile, shared, line, collector>>

Send(c) ==
    /\ cpc[c] = "send" /\ conn[ProcOf[c]] = "idle"
    /\ conn' = [conn EXCEPT ![ProcOf[c]] = "sent"]
    /\ line' = [line EXCEPT ![ProcOf[c]] = op[c].path]
    /\ Goto(c, "ack")
    /\ UNCHANGED <<store, op, ops, tempFile, shared, collector>>

ReceiveAck(c) ==
    LET P == ProcOf[c] IN
    /\ cpc[c] = "ack" /\ conn[P] \in {"acked", "lastAck"}
    /\ conn' = [conn EXCEPT ![P] = IF @ = "acked" THEN "idle" ELSE "closed"]
    /\ line' = [line EXCEPT ![P] = None]
    /\ Goto(c, "write")
    /\ UNCHANGED <<store, op, ops, tempFile, shared, collector>>

(* EPIPE, ECONNRESET or end of file: the collector has gone, start again. *)
Disconnected(c) ==
    LET P == ProcOf[c] IN
    /\ cpc[c] \in {"send", "ack"} /\ conn[P] = "closed"
    /\ conn' = [conn EXCEPT ![P] = "none"]
    /\ line' = [line EXCEPT ![P] = None]
    /\ Goto(c, "start")
    /\ UNCHANGED <<store, op, ops, tempFile, shared, collector>>

(* The root is appended to the file, then the FdLock goes out of scope. *)
WriteAndStayLocked(c) ==
    /\ cpc[c] \in {"write", "writeLocked"}
    /\ tempFile' = [tempFile EXCEPT ![ProcOf[c]] = @ \cup {op[c].path}]
    /\ Goto(c, IF op[c].kind = "add" THEN "check" ELSE "symlink")
    /\ UNCHANGED <<store, op, ops, shared, socket, collector>>
WriteTempRoot(c) ==
    LET P == ProcOf[c] IN
    /\ cpc[c] \in {"write", "writeLocked"}
    /\ tempFile' = [tempFile EXCEPT ![P] = @ \cup {op[c].path}]
    /\ shared' = [shared EXCEPT ![P] = @ /\ cpc[c] = "write"]
    /\ Goto(c, IF op[c].kind = "add" THEN "check" ELSE "symlink")
    /\ UNCHANGED <<store, op, ops, socket, collector>>

-----------------------------------------------------------------------------
(* Clients: the rest of addPermRoot and of addToStore. *)

Done(c) == Goto(c, "idle") /\ op' = [op EXCEPT ![c] = NoOp]

(* makeSymlink and addIndirectRoot: a root once both links are there. *)
MakeSymlink(c) ==
    /\ cpc[c] = "symlink"
    /\ permRoots' = permRoots \cup {op[c].path} /\ dangling' = dangling \ {op[c].path}
    /\ Done(c)
    /\ UNCHANGED <<valid, exists, lockOwner, ops, tempFile, shared, socket, collector>>

(* Somebody removes the link that the one under gcroots/auto points to. *)
RemoveRoot(p) ==
    /\ "unroot" \in Ops /\ p \in permRoots
    /\ permRoots' = permRoots \ {p} /\ dangling' = dangling \cup {p}
    /\ UNCHANGED <<valid, exists, lockOwner, client, socket, collector>>

IsValid(c) ==
    /\ cpc[c] = "check"
    /\ \/ op[c].path \in valid /\ Done(c)
       \/ op[c].path \notin valid /\ Goto(c, "lock") /\ UNCHANGED op
    /\ UNCHANGED <<store, ops, tempFile, shared, socket, collector>>

(* lockPathAsync, by the result of PathLocks: whoever has the flock of the *)
(* file that is now called <path>.lock excludes everybody else.            *)
LockPath(c) ==
    LET p == op[c].path IN
    /\ cpc[c] = "lock" /\ lockOwner[p] = None
    /\ lockOwner' = [lockOwner EXCEPT ![p] = c]
    /\ exists' = exists \cup {Lck(p)}
    /\ Goto(c, "recheck")
    /\ UNCHANGED <<valid, links, op, ops, tempFile, shared, socket, collector>>

Recheck(c) ==
    /\ cpc[c] = "recheck"
    /\ Goto(c, IF op[c].path \in valid THEN "unlock" ELSE "restore")
    /\ UNCHANGED <<store, op, ops, tempFile, shared, socket, collector>>

(* deletePath, then restorePath and the hash checks, which may throw. *)
Restore(c) ==
    /\ cpc[c] = "restore"
    /\ exists' = exists \cup {Obj(op[c].path)}
    /\ \E l \in {"register", "unlock"} : Goto(c, l)
    /\ UNCHANGED <<valid, lockOwner, links, op, ops, tempFile, shared, socket, collector>>

(* registerValidPath: one transaction, undone if a reference is not valid. *)
RegisterUnchecked(c) ==
    /\ cpc[c] = "register"
    /\ valid' = valid \cup {op[c].path}
    /\ Goto(c, "unlock")
    /\ UNCHANGED <<exists, lockOwner, links, op, ops, tempFile, shared, socket, collector>>
RegisterValidPath(c) ==
    /\ cpc[c] = "register"
    /\ valid' = IF References[op[c].path] \subseteq valid
                THEN valid \cup {op[c].path} ELSE valid
    /\ Goto(c, "unlock")
    /\ UNCHANGED <<exists, lockOwner, links, op, ops, tempFile, shared, socket, collector>>

(* ~PathLock: unlinks whatever has the name. *)
UnlockPath(c) ==
    LET p == op[c].path IN
    /\ cpc[c] = "unlock"
    /\ exists' = exists \ {Lck(p)}
    /\ lockOwner' = [lockOwner EXCEPT ![p] = None]
    /\ Done(c)
    /\ UNCHANGED <<valid, links, ops, tempFile, shared, socket, collector>>

(* A process ends: its descriptors close, its roots file is stale or gone. *)
(* A clean exit (~LocalStore) comes when its threads have finished.        *)
EndProcess(P) ==
    LET cs == {c \in Client : ProcOf[c] = P} IN
    /\ \/ "crash" \in Faults /\ \E c \in cs : cpc[c] # "idle"
       \/ "exit" \in Faults /\ \A c \in cs : cpc[c] = "idle"
    /\ tempFile[P] # {} \/ \E c \in cs : cpc[c] # "idle"
    /\ tempFile' = [tempFile EXCEPT ![P] = {}]
    /\ shared' = [shared EXCEPT ![P] = FALSE]
    /\ conn' = [conn EXCEPT ![P] = "none"]
    /\ line' = [line EXCEPT ![P] = None]
    /\ cpc' = [c \in Client |-> IF c \in cs THEN "idle" ELSE cpc[c]]
    /\ op' = [c \in Client |-> IF c \in cs THEN NoOp ELSE op[c]]
    /\ lockOwner' = [p \in Path |-> IF lockOwner[p] \in cs THEN None ELSE lockOwner[p]]
    /\ UNCHANGED <<valid, exists, links, ops, collector>>

-----------------------------------------------------------------------------
(* The collector's server: a thread per connection (runServerThread). *)

ReadRootNoWait(P) ==
    /\ conn[P] = "sent" /\ gpc \in Listening \cup {"shutdown"}
    /\ tempRoots' = tempRoots \cup {line[P]}
    /\ conn' = [conn EXCEPT ![P] = "reply"]
    /\ UNCHANGED <<store, client, line, gpc, opts, runs, found, pending, files, entries,
                   closure, marks>>
ReadRoot(P) ==
    /\ conn[P] = "sent" /\ gpc \in Listening \cup {"shutdown"}
    /\ tempRoots' = tempRoots \cup {line[P]}
    /\ conn' = [conn EXCEPT ![P] = IF pending = line[P] THEN "wait" ELSE "reply"]
    /\ UNCHANGED <<store, client, line, gpc, opts, runs, found, pending, files, entries,
                   closure, marks>>

(* The wait on wakeup ends; its loop tests pending again. *)
Wakeup(P) ==
    /\ conn[P] = "wait" /\ pending # line[P]
    /\ conn' = [conn EXCEPT ![P] = "reply"]
    /\ UNCHANGED <<store, client, line, collector>>

WriteAck(P) ==
    /\ conn[P] = "reply"
    /\ conn' = [conn EXCEPT ![P] = "acked"]
    /\ UNCHANGED <<store, client, line, collector>>

(* Shutdown and join of a connection's thread; an answer that was written  *)
(* can still be read.                                                      *)
CloseConnection(P) ==
    /\ gpc = "shutdown" /\ conn[P] \in {"idle", "sent", "reply", "acked"}
    /\ conn' = [conn EXCEPT ![P] = IF @ = "acked" THEN "lastAck" ELSE "closed"]
    /\ UNCHANGED <<store, client, line, collector>>

-----------------------------------------------------------------------------
(* The collector: collectGarbage. *)

CollectGarbage(o) ==
    /\ gpc = "idle" /\ runs < MaxGC
    /\ opts' = o /\ runs' = runs + 1 /\ gpc' = "lock"
    /\ UNCHANGED <<store, client, socket, found, server, files, entries, closure, marks>>

(* The exclusive lock, on a descriptor of its own. *)
LockGC ==
    /\ gpc = "lock" /\ \A P \in Process : ~shared[P]
    /\ gpc' = "server"
    /\ UNCHANGED <<store, client, socket, opts, runs, found, server, files, entries,
                   closure, marks>>

(* GCOperation's constructor. *)
StartServer ==
    /\ gpc = "server" /\ gpc' = "roots"
    /\ UNCHANGED <<store, client, socket, opts, runs, found, server, files, entries,
                   closure, marks>>

FindNoRoots ==
    /\ gpc = "roots" /\ gpc' = "temp"
    /\ files' = Process
    /\ UNCHANGED <<store, client, socket, opts, runs, found, server, entries, closure, marks>>
(* findRoots skips a link to a path that is not valid ... *)
FindRootsNoTemp ==
    /\ gpc = "roots"
    /\ roots' = IF opts.ignoreLiveness THEN {} ELSE {Obj(p) : p \in permRoots \cap valid}
    /\ stale' = IF opts.ignoreLiveness THEN {} ELSE dangling
    /\ gpc' = IF stale' = {} THEN "temp" ELSE "stale"
    /\ files' = Process
    /\ UNCHANGED <<store, client, socket, opts, runs, server, entries, closure, marks>>

(* ... and removes one that pointed nowhere, wherever it points by now. *)
UnlinkStale ==
    /\ gpc = "stale" /\ gpc' = "temp"
    /\ permRoots' = permRoots \ stale /\ dangling' = dangling \ stale
    /\ stale' = {}
    /\ UNCHANGED <<valid, exists, lockOwner, client, socket, opts, runs, roots, server, files,
                   entries, closure, marks>>

FindTempRoots(P) ==
    /\ gpc = "temp" /\ P \in files
    /\ roots' = roots \cup {Obj(p) : p \in tempFile[P]}
    /\ tempRoots' = tempRoots \cup tempFile[P]
    /\ files' = files \ {P}
    /\ UNCHANGED <<store, client, socket, gpc, opts, runs, stale, pending, entries,
                   closure, marks>>

(* pathsToDelete, or what opendir and readdir will return. *)
ListEntries ==
    /\ gpc = "temp" /\ files = {} /\ gpc' = "scan"
    /\ entries' = IF Specific THEN {Obj(p) : p \in opts.paths}
                  ELSE IF opts.maxFreed > 0 THEN exists ELSE {}
    /\ UNCHANGED <<store, client, socket, opts, runs, found, server, files, closure, marks>>

(* deleteReferrersClosure(n) begins. *)
NextEntry(n) ==
    /\ gpc = "scan" /\ n \in entries
    /\ gpc' = "pop"
    /\ entries' = entries \ {n}
    /\ start' = n /\ visited' = {n} /\ todo' = {n}
    /\ UNCHANGED <<store, client, socket, opts, runs, found, server, files, cur, wasValid,
                   marks>>

(* ... and ends, with releasePending. *)
PendingNotReleased ==
    /\ gpc' = "scan"
    /\ start' = None /\ visited' = {} /\ todo' = {} /\ cur' = None /\ wasValid' = {}
    /\ kept' = IF Specific /\ start \notin dead THEN kept \cup {start} ELSE kept
    /\ UNCHANGED pending
EndClosure ==
    /\ gpc' = "scan"
    /\ start' = None /\ visited' = {} /\ todo' = {} /\ cur' = None /\ wasValid' = {}
    /\ kept' = IF Specific /\ start \notin dead THEN kept \cup {start} ELSE kept
    /\ pending' = None

(* The path, the start and, if the path is valid, all that it needs. *)
MarkAliveFlipped(n) ==
    alive' = alive \cup {n, start} \cup {Obj(p) : p \in Referrers(HashPart(n))}
MarkAlive(n) ==
    alive' = alive \cup {n, start} \cup
        (IF n \in {Obj(p) : p \in valid} THEN {Obj(p) : p \in Closure({HashPart(n)})} ELSE {})

(* Comparing hash parts ignores suffixes like .lock. *)
IsTempRootByName(n) == n \in {Obj(p) : p \in tempRoots}
IsTempRoot(n) == HashPart(n) \in tempRoots

PopAlive(n) ==
    /\ n \in alive
    /\ alive' = alive \cup {start}
    /\ EndClosure
    /\ UNCHANGED tempRoots

PopDead(n) ==
    /\ n \notin alive /\ n \in dead
    /\ todo' = todo \ {n}
    /\ UNCHANGED <<gpc, server, alive, kept, start, visited, cur, wasValid>>

PopRoot(n) ==
    /\ n \notin alive \cup dead
    /\ n \in roots \/ IsTempRoot(n)
    /\ MarkAlive(n)
    /\ EndClosure
    /\ UNCHANGED tempRoots

(* markPendingIfPresent *)
PopPendingUnchecked(n) ==
    /\ n \notin alive \cup dead \cup roots
    /\ pending' = HashPart(n)
    /\ todo' = todo \ {n} /\ cur' = n /\ gpc' = "visit"
    /\ UNCHANGED <<tempRoots, alive, kept, start, visited, wasValid>>
PopPending(n) ==
    /\ n \notin alive \cup dead \cup roots
    /\ ~IsTempRoot(n)
    /\ pending' = HashPart(n)
    /\ todo' = todo \ {n} /\ cur' = n /\ gpc' = "visit"
    /\ UNCHANGED <<tempRoots, alive, kept, start, visited, wasValid>>

Pop(n) ==
    /\ gpc = "pop" /\ n \in todo
    /\ PopAlive(n) \/ PopDead(n) \/ PopRoot(n) \/ PopPending(n)
    /\ UNCHANGED <<store, client, socket, opts, runs, found, files, entries, dead,
                   referrersCache, freed>>

(* What must go if path p goes. *)
ReferrersOnly(p, cached) == IF cached = None THEN Referrers(p) ELSE cached
KeepsAlive(p, cached) ==
    (IF cached = None THEN Referrers(p) ELSE cached) \cup
    (IF Keep(KeepDerivations) THEN Outputs(p) \cap valid ELSE {}) \cup
    (IF Keep(KeepOutputs) THEN {Deriver[p]} \cap valid ELSE {})

Visit ==
    LET p == HashPart(cur)
        new == IF cur = Obj(p) /\ p \in valid
               THEN {Obj(q) : q \in KeepsAlive(p, referrersCache[p])} \ visited
               ELSE {}
    IN  /\ gpc = "visit" /\ gpc' = "pop"
        /\ visited' = visited \cup new
        /\ todo' = todo \cup new
        /\ cur' = None
        /\ referrersCache' =
               IF cur = Obj(p) /\ p \in valid /\ referrersCache[p] = None
               THEN [referrersCache EXCEPT ![p] = Referrers(p)] ELSE referrersCache
        /\ UNCHANGED <<store, client, socket, opts, runs, found, server, files, entries,
                       start, wasValid, alive, dead, kept, freed>>

(* topoSortPaths: referrers before what they refer to. *)
TopoSort ==
    /\ gpc = "pop" /\ todo = {} /\ gpc' = "delete"
    /\ wasValid' = {p \in valid : Obj(p) \in visited}
    /\ UNCHANGED <<store, client, socket, opts, runs, found, server, files, entries,
                   start, visited, todo, cur, marks>>

FirstInOrder(n) ==
    \A q \in wasValid : n \in {Obj(r) : r \in References[q]} => Obj(q) \notin visited

(* invalidatePathChecked *)
NoInUseCheck(n) == FALSE
InUse(n) == n \in {Obj(p) : p \in valid} /\ Referrers(HashPart(n)) # {}

Delete(n) ==
    /\ gpc = "delete" /\ n \in visited /\ FirstInOrder(n)
    /\ visited' = visited \ {n}
    /\ dead' = dead \cup {n}
    /\ IF n \in dead \/ ~ShouldDelete \/ InUse(n)
       THEN UNCHANGED <<valid, cur, gpc>>
       ELSE /\ valid' = valid \ {p \in Path : n = Obj(p)}
            /\ cur' = n /\ gpc' = "unlink"
    /\ UNCHANGED <<exists, lockOwner, links, client, socket, opts, runs, found, server,
                   files, entries, start, todo, wasValid, alive, referrersCache, kept, freed>>

(* deleteFromStore; GCLimitReached ends the closure and the scan. *)
DeleteFromStore ==
    /\ gpc = "unlink"
    /\ exists' = exists \ {cur}
    /\ lockOwner' = [p \in Path |-> IF cur = Lck(p) THEN None ELSE lockOwner[p]]
    /\ freed' = freed + 1
    /\ IF ~Specific /\ freed' > opts.maxFreed
       THEN EndClosure /\ entries' = {} /\ UNCHANGED referrersCache
       ELSE /\ gpc' = "delete" /\ cur' = None
            /\ referrersCache' = [p \in Path |-> IF cur = Obj(p) THEN None
                                                 ELSE referrersCache[p]]
            /\ UNCHANGED <<entries, start, visited, todo, wasValid, kept, pending>>
    /\ UNCHANGED <<valid, links, client, socket, opts, runs, found, tempRoots, files,
                   alive, dead>>

AllDeleted ==
    /\ gpc = "delete" /\ visited = {}
    /\ EndClosure
    /\ UNCHANGED <<store, client, socket, opts, runs, found, tempRoots, files, entries,
                   alive, dead, referrersCache, freed>>

(* Every way out of collectGarbage destroys gcServer first ... *)
Finish ==
    /\ gpc = "scan" /\ entries = {} /\ gpc' = "shutdown"
    /\ UNCHANGED <<store, client, socket, opts, runs, found, server, files, entries, closure,
                   marks>>

Forget ==
    /\ gpc' = "idle" /\ opts' = NoOpts
    /\ roots' = {} /\ stale' = {} /\ tempRoots' = {} /\ pending' = None
    /\ files' = {} /\ entries' = {}
    /\ start' = None /\ visited' = {} /\ todo' = {} /\ cur' = None /\ wasValid' = {}
    /\ alive' = {} /\ dead' = {} /\ kept' = {} /\ freed' = 0
    /\ referrersCache' = [p \in Path |-> None]

(* ... and then gives up the lock. *)
UnlockGC ==
    /\ gpc = "shutdown" /\ \A P \in Process : conn[P] \in {"none", "lastAck", "closed"}
    /\ Forget
    /\ UNCHANGED <<store, client, socket, runs>>

CrashGC ==
    /\ "gccrash" \in Faults /\ gpc \in Locked
    /\ Forget
    /\ conn' = [P \in Process |-> CASE conn[P] = "none" -> "none"
                                     [] conn[P] \in {"acked", "lastAck"} -> "lastAck"
                                     [] OTHER -> "closed"]
    /\ UNCHANGED <<store, client, line, runs>>

(* checkInterrupt throws; the same destructors run. *)
InterruptGC ==
    /\ "interrupt" \in Faults /\ gpc \in {"scan", "pop"}
    /\ gpc' = "shutdown" /\ pending' = None
    /\ start' = None /\ visited' = {} /\ todo' = {} /\ cur' = None /\ wasValid' = {}
    /\ UNCHANGED <<store, client, socket, opts, runs, found, tempRoots, files, entries, marks>>

-----------------------------------------------------------------------------
ClientStep(c) ==
    \/ TryGCLock(c) \/ Connect(c) \/ Send(c) \/ ReceiveAck(c) \/ Disconnected(c)
    \/ WriteTempRoot(c) \/ MakeSymlink(c)
    \/ IsValid(c) \/ LockPath(c) \/ Recheck(c) \/ Restore(c) \/ RegisterValidPath(c)
    \/ UnlockPath(c)

ServerStep(P) == ReadRoot(P) \/ Wakeup(P) \/ WriteAck(P) \/ CloseConnection(P)

CollectorStep ==
    \/ LockGC \/ StartServer \/ FindRootsNoTemp \/ UnlinkStale
    \/ \E P \in Process : FindTempRoots(P)
    \/ ListEntries
    \/ \E n \in Name : NextEntry(n) \/ Pop(n) \/ Delete(n)
    \/ Visit \/ TopoSort \/ DeleteFromStore \/ AllDeleted \/ Finish \/ UnlockGC

Next ==
    \/ \E c \in Client, p \in Path : AddToStore(c, p) \/ AddPermRoot(c, p)
    \/ \E p \in Path : RemoveRoot(p)
    \/ \E c \in Client : ClientStep(c)
    \/ \E P \in Process : ServerStep(P) \/ EndProcess(P)
    \/ \E o \in GCOptions : CollectGarbage(o)
    \/ CollectorStep \/ CrashGC \/ InterruptGC

Spec == Init /\ [][Next]_vars

(* Threads that are not waiting for something keep running. *)
Fairness ==
    /\ \A c \in Client : WF_vars(ClientStep(c))
    /\ \A P \in Process : WF_vars(ServerStep(P))
    /\ WF_vars(CollectorStep)

FairSpec == Spec /\ Fairness

-----------------------------------------------------------------------------
(* The paths that the current deleteReferrersClosure has yet to delete. *)
BeingDeleted ==
    {p \in Path :
        /\ ShouldDelete /\ gpc \in {"delete", "unlink"}
        /\ \E n \in visited \cup {cur} : n \in {Obj(p), Lck(p)} /\ (n \notin dead \/ n = cur)}

(* What the paths in R need: the closure under references alone. *)
Needed(R) ==
    {p \in valid : \A S \in SUBSET valid :
        R \cap valid \subseteq S /\ (\A q \in S : References[q] \subseteq S) => p \in S}

(***************************************************************************)
(* The store's main invariant: whatever is valid has its references valid, *)
(* although the collector invalidates paths (invalidatePathChecked) from   *)
(* an earlier view of the graph while clients register new ones.           *)
(***************************************************************************)
ClosureInvariant == \A p \in valid : References[p] \subseteq valid

(***************************************************************************)
(* A valid path is there: no client registers an object that the collector *)
(* is about to unlink (deleteFromStore comes after invalidatePathChecked). *)
(***************************************************************************)
ValidPathsExist == \A p \in valid : Obj(p) \in exists

(***************************************************************************)
(* "Read the temporary roots created before we acquired the global GC      *)
(* root. Any new roots will be sent to our socket." (gc.cc:654): once the  *)
(* collector has read the files it knows every root that addTempRoot       *)
(* recorded for a process that is still running.                           *)
(***************************************************************************)
RootsKnown ==
    gpc \in Marking => \A P \in Process \ files : tempFile[P] \subseteq tempRoots

(***************************************************************************)
(* "If this path is currently being deleted, then we have to wait until    *)
(* deletion is finished" (gc.cc:571): a client that has its answer does    *)
(* not see the path go away afterwards.                                    *)
(***************************************************************************)
AckedRootNotBeingDeleted ==
    \A P \in Process : conn[P] = "acked" => line[P] \notin BeingDeleted

(***************************************************************************)
(* "This only succeeds if the garbage collector is not currently running"  *)
(* (gc.cc:149): from the moment a thread gets the shared GC lock until its *)
(* root is in the file, no collector runs.                                 *)
(***************************************************************************)
SharedLockExcludesGC ==
    \A c \in Client : cpc[c] = "writeLocked" => gpc \notin Locked

(***************************************************************************)
(* What a running process has recorded as a temporary root is not          *)
(* collected, nor anything that it needs.                                  *)
(***************************************************************************)
TempRootsKept ==
    [][\A P \in Process : (valid \ valid') \cap Needed(tempFile[P]) = {}]_vars

(***************************************************************************)
(* A permanent root is not collected, nor anything that it needs: "Since   *)
(* we've grabbed the GC lock, the set of permanent roots cannot increase   *)
(* now" (gc.cc:645).                                                       *)
(***************************************************************************)
PermRootsKept ==
    [][opts.ignoreLiveness \/ (valid \ valid') \cap Needed(permRoots) = {}]_vars

(***************************************************************************)
(* addTempRoot, addPermRoot: so whatever was made a root before a deletion *)
(* survives it, whether the collector read it from a file, found its link  *)
(* or was told of it, as long as the process that made it does not exit.   *)
(***************************************************************************)
RootsKept == TempRootsKept /\ PermRootsKept

(***************************************************************************)
(* deleteReferrersClosure walks backwards from a path to its referrers, so *)
(* it only bails out if the walk meets a root.  Whatever a root that the   *)
(* collector has found needs, by the graph of the moment, survives.        *)
(***************************************************************************)
FoundRootsKept ==
    [][(valid \ valid') \cap Needed({HashPart(n) : n \in roots}) = {}]_vars

(***************************************************************************)
(* keep-outputs and keep-derivations: what a root that the collector has   *)
(* found needs under these settings survives too.  Unlike references they  *)
(* are not protected by a check in the database, so this is for a store to *)
(* which nothing new is being added: the walk does not come back for what  *)
(* is registered behind it.                                                *)
(***************************************************************************)
KeepSettingsHonoured ==
    [][(valid \ valid') \cap Closure({HashPart(n) : n \in roots}) = {}]_vars

(***************************************************************************)
(* What the collector marks as alive (and, with --delete, refuses to       *)
(* delete) is really needed by a root: no garbage is kept by mistake.      *)
(***************************************************************************)
AliveIsNeeded ==
    \A p \in valid : Obj(p) \in alive =>
        p \in Closure({HashPart(n) : n \in roots} \cup tempRoots)

(***************************************************************************)
(* Whoever is writing a store path has the lock file, which is a directory *)
(* entry that the collector looks at too: it is not deleted under the      *)
(* holder, so that nobody else can make and lock a new one.                *)
(***************************************************************************)
WriterHasLockFile ==
    \A c \in Client : cpc[c] \in HoldingLock =>
        lockOwner[op[c].path] = c /\ Lck(op[c].path) \in exists

(***************************************************************************)
(* "delete the paths listed in `pathsToDelete`, failing if any are still   *)
(* reachable" (gc-store.hh:34): a run of gcDeleteSpecific that reports no  *)
(* path as kept has deleted all of them.                                   *)
(***************************************************************************)
DeleteSpecificDeletes ==
    [][Finish /\ opts.action = "DeleteSpecific" /\ kept = {} => opts.paths \cap valid = {}]_vars

(***************************************************************************)
(* Clients in addTempRoot, the threads of the roots server and             *)
(* collectGarbage never all wait for each other.  addTempRoot returns,     *)
(* whatever the collector is doing: no answer is lost, no wait on a        *)
(* deletion lasts, and the retries end.  A run of the collector ends: it   *)
(* does not wait for ever for its lock, or for the threads of its          *)
(* connections (~GCOperation).  Operations and runs are bounded, so all    *)
(* end if and only if there is always a later state in which none is       *)
(* under way.                                                              *)
(***************************************************************************)
NobodyWaitsForEver ==
    []<>(gpc = "idle" /\ \A c \in Client : cpc[c] \notin AddingRoot)
=============================================================================
