----------------------------- MODULE StoreFiles -----------------------------
(***************************************************************************)
(* Files that clients of a local store make and the collector meets: the   *)
(* roots file of a process (createTempRootsFile, findTempRoots, gc.cc),    *)
(* temporary directories in the store (createTempDirInStore,               *)
(* local-store.cc, and deleteFromStore, gc.cc), and the hard links of      *)
(* identical files in .links (optimise-store.cc, and the end of            *)
(* collectGarbage).  Every system call is a step.                          *)
(*                                                                         *)
(* Temporary names are random, so a file that has one is known by its      *)
(* inode: it has the name while it is in tmps, or in dirs.  All files that *)
(* are linked have the same contents, so there is one name in .links.      *)
(***************************************************************************)
EXTENDS Integers, FiniteSets

CONSTANTS
    Thread, Process,
    ProcOf,         \* the process, that is the LocalStore object, of a thread
    PidOf,          \* its pid
    DeadPid,        \* pids of dead processes, which have left their roots files
    Path,           \* store paths, one regular file each, with the file's inode
    Inode,
    Truncated, Rotten,  \* files that are not what their name in .links says
    Settings,       \* jobs: of "roots", "dir", "path", "store", "close"; link: what
                    \* .links has at first, an inode or None; maxGC: collections
    Faults,         \* "open", "nospace", "manylinks", "die", "gcdie"
    MaxJobs

None == 0
Pid == {PidOf[P] : P \in Process} \cup DeadPid
Name == ({"pid"} \X Pid) \cup ({"tmp", "dir"} \X Inode) \cup ({"link"} \X Thread)

VARIABLES
    op, jobs,       \* what a thread does, and how many jobs it has begun
    setting,        \* one of Settings, from the beginning
    fdTempRoots,    \* by process
    closing,        \* processes in ~LocalStore
    written,        \* threads that have written their root to the roots file
    rootsFile,      \* by pid: the file that has this name
    tmps,           \* roots files that have their temporary name
    dirs,           \* temporary directories in the store
    lock,           \* flocks: the thread, process or collector that has it
    file,           \* the file of each path
    link, tempLink, \* the name in .links, and temporary links by thread
    gc, gcTodo, gcName, gcFd, gcs,  \* the collector, the names it has to look at
    unheard         \* threads whose roots were in files when the collection
                    \* began, and which it has not read

roots == <<fdTempRoots, closing, written, rootsFile, tmps>>
links == <<file, link, tempLink>>
collector == <<gc, gcTodo, gcName, gcFd, gcs, unheard>>
vars == <<op, jobs, setting, roots, dirs, lock, links, collector>>

Idle == [pc |-> "idle", fd |-> None, dir |-> None, lockedByUs |-> FALSE, todo |-> {},
         path |-> None, repair |-> FALSE, inodeHash |-> {}, st |-> None]
Gone == [Idle EXCEPT !.pc = "gone"]
States == {"idle", "gone", "create", "lockTemp", "rename", "write", "mkdir", "openDir", "lockDir",
           "pathExists", "useDir", "lstat", "lstatLink", "unlinkLink", "link", "lstatAgain",
           "linkTemp", "renameTemp"}

(* Types; in particular every path always has a file. *)
TypeOK ==
    /\ \A t \in Thread : LET o == op[t] IN
        /\ o.pc \in States /\ o.lockedByUs \in BOOLEAN /\ o.repair \in BOOLEAN
        /\ {o.fd, o.dir, o.st} \subseteq Inode \cup {None}
        /\ o.todo \subseteq Path /\ o.path \in Path \cup {None} /\ o.inodeHash \subseteq Inode
    /\ jobs \in [Thread -> 0..MaxJobs] /\ setting \in Settings
    /\ fdTempRoots \in [Process -> Inode \cup {None}] /\ closing \subseteq Process
    /\ written \subseteq Thread /\ unheard \subseteq Thread
    /\ rootsFile \in [Pid -> Inode \cup {None}] /\ tmps \subseteq Inode /\ dirs \subseteq Inode
    /\ lock \in [Inode -> Thread \cup Process \cup {"gc", "none"}]
    /\ file \in [Path -> Inode] /\ link \in Inode \cup {None}
    /\ tempLink \in [Thread -> Inode \cup {None}]
    /\ gc \in {"idle", "roots", "lockRoots", "unlinkRoots", "store", "lockDir", "deleteDir",
               "unlinkLink"}
    /\ gcTodo \subseteq Name /\ gcFd \in Inode \cup {None} /\ gcs \in 0..setting.maxGC
    /\ gc \in {"lockRoots", "unlinkRoots", "lockDir", "deleteDir"} => gcName \in Name

Init ==
    /\ op = [t \in Thread |-> Idle] /\ jobs = [t \in Thread |-> 0] /\ setting \in Settings
    /\ fdTempRoots = [P \in Process |-> None] /\ closing = {} /\ written = {}
    /\ rootsFile = [n \in Pid |-> IF n \in DeadPid THEN n ELSE None]
    /\ tmps = {} /\ dirs = {} /\ lock = [i \in Inode |-> "none"]
    /\ file = [p \in Path |-> p] /\ link = setting.link
    /\ tempLink = [t \in Thread |-> None]
    /\ gc = "idle" /\ gcTodo = {} /\ gcName = <<"none">> /\ gcFd = None /\ gcs = 0 /\ unheard = {}

-----------------------------------------------------------------------------
(* Files.  A new one gets an inode that has neither a name nor a            *)
(* descriptor, and a name that nobody else has.                             *)
InUse(i) ==
    \/ i \in tmps \cup dirs \cup {link, gcFd} \cup Truncated \cup Rotten
    \/ \E n \in Pid : rootsFile[n] = i
    \/ \E p \in Path : file[p] = i
    \/ \E P \in Process : fdTempRoots[P] = i
    \/ \E t \in Thread : i \in {op[t].fd, op[t].dir, tempLink[t]}
NewInode == CHOOSE i \in Inode : ~ InUse(i) /\ \A j \in Inode : j < i => InUse(j)

NumLinks(i) ==
    Cardinality({p \in Path : file[p] = i}) + Cardinality({t \in Thread : tempLink[t] = i})
    + IF link = i THEN 1 ELSE 0

(* tryLockFile, and what a close does. *)
TryLockFile(i, o) == IF lock[i] = "none" THEN [lock EXCEPT ![i] = o] ELSE lock
Unlock(O) == [i \in Inode |-> IF lock[i] \in O THEN "none" ELSE lock[i]]

At(t, l) == op[t].pc = l
Goes(t, o) == op' = [op EXCEPT ![t] = o]
Step(t, l) == Goes(t, [op[t] EXCEPT !.pc = l])

Begin(t, j) ==
    /\ At(t, "idle") /\ j \in setting.jobs
    /\ jobs[t] < MaxJobs /\ jobs' = [jobs EXCEPT ![t] = @ + 1]

-----------------------------------------------------------------------------
(* addTempRoot, createTempRootsFile *)
AddTempRoot(t) ==
    /\ Begin(t, "roots")
    /\ Step(t, IF fdTempRoots[ProcOf[t]] = None THEN "create" ELSE "write")
    /\ UNCHANGED <<setting, roots, dirs, lock, links, collector>>

CreateTemp(t) ==
    /\ At(t, "create")
    /\ Goes(t, [op[t] EXCEPT !.pc = "lockTemp", !.fd = NewInode])
    /\ tmps' = tmps \cup {NewInode}
    /\ UNCHANGED <<jobs, setting, fdTempRoots, closing, written, rootsFile,
                   dirs, lock, links, collector>>

(* Mutant: a file that the collector has locked is used all the same. *)
LockTempTrusts(t) ==
    /\ At(t, "lockTemp") /\ Step(t, "rename")
    /\ lock' = TryLockFile(op[t].fd, t)
    /\ UNCHANGED <<jobs, setting, roots, dirs, links, collector>>

LockTemp(t) ==
    /\ At(t, "lockTemp")
    /\ lock' = TryLockFile(op[t].fd, t)
    /\ IF lock[op[t].fd] = "none"
       THEN Step(t, "rename") /\ UNCHANGED tmps
       ELSE Goes(t, [Idle EXCEPT !.pc = "create"]) /\ tmps' = tmps \ {op[t].fd}
    /\ UNCHANGED <<jobs, setting, fdTempRoots, closing, written, rootsFile, dirs, links, collector>>

(* Mutant: a file that is gone is locked again instead of made again. *)
RenameTempRelocks(t) ==
    LET i == op[t].fd  P == ProcOf[t] IN
    /\ At(t, "rename")
    /\ \/ /\ fdTempRoots[P] = None /\ i \notin tmps /\ Step(t, "lockTemp")
          /\ lock' = Unlock({t}) /\ UNCHANGED <<tmps, fdTempRoots, rootsFile>>
       \/ /\ fdTempRoots[P] = None /\ i \in tmps
          /\ tmps' = tmps \ {i} /\ rootsFile' = [rootsFile EXCEPT ![PidOf[P]] = i]
          /\ fdTempRoots' = [fdTempRoots EXCEPT ![P] = i]
          /\ lock' = [lock EXCEPT ![i] = IF @ = t THEN P ELSE @]
          /\ Goes(t, [Idle EXCEPT !.pc = "write"])
    /\ UNCHANGED <<jobs, setting, closing, written, dirs, links, collector>>

(* Another thread was first; the collector has removed it; or it is ours. *)
RenameTemp(t) ==
    LET i == op[t].fd  P == ProcOf[t] IN
    /\ At(t, "rename")
    /\ \/ /\ fdTempRoots[P] # None
          /\ tmps' = tmps \ {i}
          /\ Goes(t, IF i \in tmps THEN [Idle EXCEPT !.pc = "write"] ELSE Idle)
          /\ lock' = Unlock({t}) /\ UNCHANGED <<fdTempRoots, rootsFile>>
       \/ /\ fdTempRoots[P] = None /\ i \notin tmps
          /\ Goes(t, [Idle EXCEPT !.pc = "create"])
          /\ lock' = Unlock({t}) /\ UNCHANGED <<tmps, fdTempRoots, rootsFile>>
       \/ /\ fdTempRoots[P] = None /\ i \in tmps
          /\ tmps' = tmps \ {i} /\ rootsFile' = [rootsFile EXCEPT ![PidOf[P]] = i]
          /\ fdTempRoots' = [fdTempRoots EXCEPT ![P] = i]
          /\ lock' = [lock EXCEPT ![i] = IF @ = t THEN P ELSE @]
          /\ Goes(t, [Idle EXCEPT !.pc = "write"])
    /\ UNCHANGED <<jobs, setting, closing, written, dirs, links, collector>>

(* addTempRoot writes the root to the file of the process. *)
WriteRoot(t) ==
    /\ At(t, "write") /\ Goes(t, Idle)
    /\ written' = written \cup {t}
    /\ UNCHANGED <<jobs, setting, fdTempRoots, closing, rootsFile, tmps, dirs, lock, links,
                   collector>>

(* ~LocalStore: closes the file, then removes the name. *)
Threads(P) == {t \in Thread : ProcOf[t] = P}
Stops(P) ==
    /\ op' = [t \in Thread |-> IF t \in Threads(P) THEN Gone ELSE op[t]]
    /\ fdTempRoots' = [fdTempRoots EXCEPT ![P] = None]
    /\ lock' = Unlock({P} \cup Threads(P)) /\ written' = written \ Threads(P)

CloseStore(P) ==
    /\ "close" \in setting.jobs /\ fdTempRoots[P] # None /\ \A t \in Threads(P) : At(t, "idle")
    /\ Stops(P) /\ closing' = closing \cup {P}
    /\ UNCHANGED <<jobs, setting, rootsFile, tmps, dirs, links, collector>>

UnlinkRootsFile(P) ==
    /\ P \in closing /\ closing' = closing \ {P}
    /\ rootsFile' = [rootsFile EXCEPT ![PidOf[P]] = None]
    /\ UNCHANGED <<op, jobs, setting, fdTempRoots, written, tmps, dirs, lock, links, collector>>

Die(P) ==
    /\ "die" \in Faults /\ \E t \in Threads(P) : ~ At(t, "gone")
    /\ Stops(P)
    /\ UNCHANGED <<jobs, setting, closing, rootsFile, tmps, dirs, links, collector>>

-----------------------------------------------------------------------------
(* createTempDirInStore *)
CreateTempDirInStore(t) ==
    /\ Begin(t, "dir") /\ Step(t, "mkdir")
    /\ UNCHANGED <<setting, roots, dirs, lock, links, collector>>

MakeDir(t) ==
    /\ At(t, "mkdir") /\ \E i \in Inode : ~ InUse(i)
    /\ Goes(t, [op[t] EXCEPT !.pc = "openDir", !.dir = NewInode])
    /\ dirs' = dirs \cup {NewInode}
    /\ UNCHANGED <<jobs, setting, roots, lock, links, collector>>

(* The descriptor of the round before is closed.  After a failure lockedByUs *)
(* is what it was.                                                           *)
OpenDir(t) ==
    /\ At(t, "openDir") /\ lock' = Unlock({t})
    /\ \/ /\ op[t].dir \in dirs
          /\ Goes(t, [op[t] EXCEPT !.pc = "lockDir", !.fd = op[t].dir])
       \/ /\ op[t].dir \notin dirs \/ "open" \in Faults
          /\ Goes(t, [op[t] EXCEPT !.pc = "pathExists", !.fd = None])
    /\ UNCHANGED <<jobs, setting, roots, dirs, links, collector>>

LockDir(t) ==
    /\ At(t, "lockDir")
    /\ lock' = TryLockFile(op[t].fd, t)
    /\ Goes(t, [op[t] EXCEPT !.pc = "pathExists", !.lockedByUs = lock[op[t].fd] = "none"])
    /\ UNCHANGED <<jobs, setting, roots, dirs, links, collector>>

(* Mutant: a lock on the directory is taken for a directory. *)
PathExistsIfLocked(t) ==
    /\ At(t, "pathExists") /\ Step(t, IF op[t].lockedByUs THEN "useDir" ELSE "mkdir")
    /\ UNCHANGED <<jobs, setting, roots, dirs, lock, links, collector>>

PathExists(t) ==
    /\ At(t, "pathExists")
    /\ Step(t, IF op[t].dir \in dirs /\ op[t].lockedByUs THEN "useDir" ELSE "mkdir")
    /\ UNCHANGED <<jobs, setting, roots, dirs, lock, links, collector>>

(* addToStoreFromDump is done with it. *)
DeleteDir(t) ==
    /\ At(t, "useDir") /\ Goes(t, Idle)
    /\ dirs' = dirs \ {op[t].dir} /\ lock' = Unlock({t})
    /\ UNCHANGED <<jobs, setting, roots, links, collector>>

-----------------------------------------------------------------------------
(* optimisePath and optimiseStore.  The paths are locked, or rooted, by who *)
(* calls them; optimiseStore knows the inodes in .links at the beginning.   *)
Optimise(t) ==
    /\ \/ /\ Begin(t, "path")
          /\ \E p \in Path, r \in BOOLEAN :
                Goes(t, [Idle EXCEPT !.pc = "lstat", !.todo = {p}, !.repair = r])
       \/ /\ Begin(t, "store")
          /\ Goes(t, [Idle EXCEPT !.pc = "lstat", !.todo = Path, !.inodeHash = {link} \ {None}])
    /\ UNCHANGED <<setting, roots, dirs, lock, links, collector>>

(* What is left of the job, which goes on as o, when a path is done. *)
Rest(o) ==
    IF o.todo = {} THEN Idle
    ELSE [o EXCEPT !.pc = "lstat", !.path = None, !.st = None]

(* optimisePath_: the file is looked at, and hashed. *)
Lstat(t) ==
    /\ At(t, "lstat")
    /\ \E p \in op[t].todo :
        LET o == [op[t] EXCEPT !.todo = @ \ {p}] IN
        Goes(t, IF NumLinks(file[p]) > 1 /\ file[p] \in o.inodeHash THEN Rest(o)
                ELSE [o EXCEPT !.pc = "lstatLink", !.path = p, !.st = file[p]])
    /\ UNCHANGED <<jobs, setting, roots, dirs, lock, links, collector>>

(* Is the name in .links there, and the file what it says? *)
Corrupt(t, i) == i \in Truncated \/ (op[t].repair /\ i \in Rotten)

LstatLink(t) ==
    /\ At(t, "lstatLink")
    /\ Goes(t, IF link = None THEN [op[t] EXCEPT !.pc = "link"]
               ELSE IF Corrupt(t, link) THEN [op[t] EXCEPT !.pc = "unlinkLink"]
               ELSE IF link = op[t].st THEN Rest(op[t])
               ELSE [op[t] EXCEPT !.pc = "linkTemp"])
    /\ UNCHANGED <<jobs, setting, roots, dirs, lock, links, collector>>

UnlinkLink(t) ==
    /\ At(t, "unlinkLink") /\ link' = None /\ Step(t, "link")
    /\ UNCHANGED <<jobs, setting, roots, dirs, lock, file, tempLink, collector>>

(* The file of the path is what others will be linked to, unless another    *)
(* process was first.                                                       *)
LinkPath(t) ==
    /\ At(t, "link")
    /\ \/ /\ link = None /\ link' = file[op[t].path]
          /\ Goes(t, Rest([op[t] EXCEPT !.inodeHash = @ \cup {op[t].st}]))
       \/ link # None /\ Step(t, "lstatAgain") /\ UNCHANGED link
       \/ "nospace" \in Faults /\ Goes(t, Rest(op[t])) /\ UNCHANGED link
    /\ UNCHANGED <<jobs, setting, roots, dirs, lock, file, tempLink, collector>>

(* lstat, and later link, throw if the collector has removed the name. *)
LstatAgain(t) ==
    /\ At(t, "lstatAgain")
    /\ Goes(t, IF link = None THEN Idle ELSE IF link = op[t].st THEN Rest(op[t])
               ELSE [op[t] EXCEPT !.pc = "linkTemp"])
    /\ UNCHANGED <<jobs, setting, roots, dirs, lock, links, collector>>

LinkTemp(t) ==
    /\ At(t, "linkTemp")
    /\ \/ link = None /\ Goes(t, Idle) /\ UNCHANGED tempLink
       \/ link # None /\ tempLink' = [tempLink EXCEPT ![t] = link] /\ Step(t, "renameTemp")
       \/ "manylinks" \in Faults /\ Goes(t, Rest(op[t])) /\ UNCHANGED tempLink
    /\ UNCHANGED <<jobs, setting, roots, dirs, lock, file, link, collector>>

(* The temporary link replaces the file, if the collector has not deleted it. *)
RenameTempLink(t) ==
    /\ At(t, "renameTemp") /\ tempLink' = [tempLink EXCEPT ![t] = None]
    /\ \/ tempLink[t] = None /\ Goes(t, Idle) /\ UNCHANGED file
       \/ /\ tempLink[t] # None /\ file' = [file EXCEPT ![op[t].path] = tempLink[t]]
          /\ Goes(t, Rest(op[t]))
       \/ "manylinks" \in Faults /\ Goes(t, Rest(op[t])) /\ UNCHANGED file
    /\ UNCHANGED <<jobs, setting, roots, dirs, lock, link, collector>>

-----------------------------------------------------------------------------
(* collectGarbage takes the GC lock and lists the roots files. *)
StartGC ==
    /\ gc = "idle" /\ gcs < setting.maxGC /\ gcs' = gcs + 1 /\ gc' = "roots" /\ unheard' = written
    /\ gcTodo' = {<<"pid", n>> : n \in {m \in Pid : rootsFile[m] # None}}
                 \cup {<<"tmp", i>> : i \in tmps}
    /\ UNCHANGED <<op, jobs, setting, roots, dirs, lock, links, gcName, gcFd>>

(* findTempRoots, for one name: open, lock, and remove what can be locked. *)
Lookup(n) ==
    CASE n[1] = "pid" -> rootsFile[n[2]]
      [] n[1] = "tmp" -> IF n[2] \in tmps THEN n[2] ELSE None
      [] n[1] = "dir" -> IF n[2] \in dirs THEN n[2] ELSE None
      [] n[1] = "link" -> tempLink[n[2]]

GCCloses == gcFd' = None /\ gcName' = <<"none">>

GCOpens(l, m) ==
    /\ gc = l
    /\ \E n \in gcTodo :
        /\ n[1] # "link" /\ gcTodo' = gcTodo \ {n} /\ gcFd' = Lookup(n)
        /\ IF Lookup(n) = None THEN UNCHANGED <<gc, gcName>> ELSE gc' = m /\ gcName' = n
    /\ UNCHANGED <<op, jobs, setting, roots, dirs, lock, links, gcs, unheard>>

OpenRoots == GCOpens("roots", "lockRoots")

(* Mutant: a file that is in use is not read. *)
LockRootsOnly ==
    /\ gc = "lockRoots" /\ lock' = TryLockFile(gcFd, "gc") /\ UNCHANGED unheard
    /\ IF lock[gcFd] = "none" THEN gc' = "unlinkRoots" /\ UNCHANGED <<gcName, gcFd>>
       ELSE gc' = "roots" /\ GCCloses
    /\ UNCHANGED <<op, jobs, setting, roots, dirs, links, gcTodo, gcs>>

LockRoots ==
    /\ gc = "lockRoots" /\ lock' = TryLockFile(gcFd, "gc")
    /\ IF lock[gcFd] = "none" THEN gc' = "unlinkRoots" /\ UNCHANGED <<gcName, gcFd, unheard>>
       ELSE /\ gc' = "roots" /\ GCCloses
            /\ unheard' = {t \in unheard : fdTempRoots[ProcOf[t]] # gcFd}
    /\ UNCHANGED <<op, jobs, setting, roots, dirs, links, gcTodo, gcs>>

UnlinkRoots ==
    /\ gc = "unlinkRoots" /\ gc' = "roots" /\ GCCloses /\ lock' = Unlock({"gc"})
    /\ rootsFile' = [n \in Pid |-> IF gcName = <<"pid", n>> THEN None ELSE rootsFile[n]]
    /\ tmps' = {i \in tmps : gcName # <<"tmp", i>>}
    /\ UNCHANGED <<op, jobs, setting, fdTempRoots, closing, written, dirs, links,
                   gcTodo, gcs, unheard>>

(* The temporary files in the store: deleteFromStore, which takes a lock if *)
(* it is a directory.                                                       *)
ListStore ==
    /\ gc = "roots" /\ gcTodo = {} /\ gc' = "store"
    /\ gcTodo' = {<<"dir", i>> : i \in dirs}
                 \cup {<<"link", t>> : t \in {u \in Thread : tempLink[u] # None}}
    /\ UNCHANGED <<op, jobs, setting, roots, dirs, lock, links, gcName, gcFd, gcs, unheard>>

DeleteTempLink ==
    /\ gc = "store"
    /\ \E t \in Thread : /\ <<"link", t>> \in gcTodo /\ gcTodo' = gcTodo \ {<<"link", t>>}
                         /\ tempLink' = [tempLink EXCEPT ![t] = None]
    /\ UNCHANGED <<op, jobs, setting, roots, dirs, lock, file, link, gc, gcName, gcFd, gcs, unheard>>

OpenTempDir == GCOpens("store", "lockDir")

LockTempDir ==
    /\ gc = "lockDir" /\ lock' = TryLockFile(gcFd, "gc")
    /\ IF lock[gcFd] = "none" THEN gc' = "deleteDir" /\ UNCHANGED <<gcName, gcFd>>
       ELSE gc' = "store" /\ GCCloses
    /\ UNCHANGED <<op, jobs, setting, roots, dirs, links, gcTodo, gcs, unheard>>

DeleteTempDir ==
    /\ gc = "deleteDir" /\ gc' = "store" /\ GCCloses /\ lock' = Unlock({"gc"})
    /\ dirs' = dirs \ {gcName[2]}
    /\ UNCHANGED <<op, jobs, setting, roots, links, gcTodo, gcs, unheard>>

(* Unused links, when the store is done or the limit is reached. *)
StatLink ==
    /\ gc = "store" /\ gcTodo' = {} /\ unheard' = {}
    /\ gc' = IF link # None /\ NumLinks(link) = 1 THEN "unlinkLink" ELSE "idle"
    /\ UNCHANGED <<op, jobs, setting, roots, dirs, lock, links, gcName, gcFd, gcs>>

UnlinkUnused ==
    /\ gc = "unlinkLink" /\ gc' = "idle" /\ link' = None
    /\ UNCHANGED <<op, jobs, setting, roots, dirs, lock, file, tempLink,
                   gcTodo, gcName, gcFd, gcs, unheard>>

GCDies ==
    /\ "gcdie" \in Faults /\ gc # "idle" /\ gc' = "idle"
    /\ gcTodo' = {} /\ unheard' = {} /\ GCCloses /\ lock' = Unlock({"gc"})
    /\ UNCHANGED <<op, jobs, setting, roots, dirs, links, gcs>>

-----------------------------------------------------------------------------
Work(t) ==
    \/ CreateTemp(t) \/ LockTemp(t) \/ RenameTemp(t) \/ WriteRoot(t)
    \/ MakeDir(t) \/ OpenDir(t) \/ LockDir(t) \/ PathExists(t)
    \/ Lstat(t) \/ LstatLink(t) \/ UnlinkLink(t) \/ LinkPath(t) \/ LstatAgain(t)
    \/ LinkTemp(t) \/ RenameTempLink(t)

Collect ==
    \/ OpenRoots \/ LockRoots \/ UnlinkRoots
    \/ ListStore \/ DeleteTempLink \/ OpenTempDir \/ LockTempDir \/ DeleteTempDir
    \/ StatLink \/ UnlinkUnused

Next ==
    \/ \E t \in Thread :
        AddTempRoot(t) \/ CreateTempDirInStore(t) \/ Optimise(t) \/ Work(t) \/ DeleteDir(t)
    \/ \E P \in Process : CloseStore(P) \/ UnlinkRootsFile(P) \/ Die(P)
    \/ StartGC \/ Collect \/ GCDies

Spec == Init /\ [][Next]_vars

(* What has begun goes on; nobody has to begin anything, or to die. *)
Progress == Collect \/ \E t \in Thread : Work(t)
FairSpec == Spec /\ WF_vars(Progress)

-----------------------------------------------------------------------------
(* createTempRootsFile: the roots file of a process has its name for as     *)
(* long as the process uses it, although collections remove the roots files *)
(* that they can lock, by name, also before the process has locked its own; *)
(* unless the process shares its pid with one that is gone or with another  *)
(* store object.                                                            *)
RootsFileKept ==
    \A P \in Process : fdTempRoots[P] # None => rootsFile[PidOf[P]] = fdTempRoots[P]

(* addTempRoot: the root is in the file "so it will be seen by a future run *)
(* of the garbage collector".  A collection that deletes has read every     *)
(* root that a process had written before it began, and has not lost, by    *)
(* its end, since.  (Roots that are added while it runs are sent to it, see *)
(* GarbageCollector.)                                                       *)
RootsHeard ==
    gc \in {"store", "lockDir", "deleteDir"} => unheard \cap written = {}

(* createTempDirInStore: "a temporary directory in the store that won't be  *)
(* garbage-collected until the returned FD is closed".                      *)
TempDirKept == \A t \in Thread : At(t, "useDir") => op[t].dir \in dirs /\ lock[op[t].dir] = t

(* The loops of createTempRootsFile and createTempDirInStore end: the       *)
(* collector does not take away every file that is made.                    *)
Busy(t) == ~ (At(t, "idle") \/ At(t, "gone") \/ At(t, "useDir"))
JobsEnd == \A t \in Thread : Busy(t) ~> ~ Busy(t)
=============================================================================
