# Formal models of Lix

TLA+ modules for the parts of Lix (a C++ implementation of the Nix package
manager) where processes and threads meet: the lock files of store paths, the
garbage collector and its roots, the files that it meets, automatic collection,
the thread pool, the worker with its goals, the opening of the store, the daemon
with its clients, and file transfers. TLC checks small instances, TLAPS proves the
central safety properties of six components for all values of the constants.

Every definition is translated from the source; `PROJECT.json` maps each to its
lines. Names are those of the code where TLA+ allows it.

## 1. The system and its parts

| Part | State | Operations | What makes it hard |
|---|---|---|---|
| Path locks (`libstore/pathlocks.cc`) | lock files, flocks, descriptors | `lockPaths`, `tryLockPaths`, `unlock`, `FdLock` | a lock file is unlinked on release while others wait on it |
| Garbage collector (`libstore/gc.cc`) | roots, GC lock, roots socket, marks | `addTempRoot`, `addPermRoot`, `collectGarbage`, `GCOperation` | clients add roots and paths while it deletes |
| Automatic collection (`gc.cc`, `local-store.cc`) | `GCState`, a thread, a future | `autoGC`, `~LocalStore` | callers join a collection that is ending; the store goes away |
| Local store (`local-store.cc`, `sqlite.cc`) | valid paths, references, big lock, schema file | open, upgrade, register, invalidate | several processes; a crash between two steps of an upgrade |
| Roots files, temporary directories (`gc.cc`, `local-store.cc`) | names, inodes, flocks | `createTempRootsFile`, `findTempRoots`, `createTempDirInStore` | a file is unlinked between its creation and its lock |
| Worker and goals (`libstore/build/`) | goal maps, build slots, exit codes | `makeGoal…`, `waitForGoals`, substitution, derivation goals | shared goals, failures, keep-going, limited slots |
| Build users (`lock.cc`) | one lock file per user | acquire, release | several daemons, crashed builds |
| Store optimiser (`optimise-store.cc`) | hard links in `.links` | `optimisePath_` | the collector deletes unused links |
| Store API, caches (`store-api.cc`, `nar-info-disk-cache.cc`) | path info caches | query, copy | stale answers |
| File transfer (`curlfiletransfer.cc`, `curlmulti.cc`, `transferitem.cc`) | streams, items, the curl thread and its queues | `read`, retries, cancel, `quit` | the thread ends while streams wait for it; resumption |
| Binary caches | files of a cache | upload, download | order of uploads |
| Daemon and remote stores (`daemon.cc`, `remote-store.cc`) | one connection, tasks, a tunnel logger | worker protocol, framed uploads, NAR streams | logs interleaved with answers; commands that stop half-way |
| Utilities (`libutil`) | thread pool, `Pool`, semaphore | `process`, `get`, `acquire` | lost wakeups, errors in one item |
| Profiles (`profiles.cc`) | generation links | create, delete, switch | concurrent processes |
| Evaluator, fetchers, CLI | values, caches | evaluation | mostly sequential; data out of TLC's reach |

They interact through the store directory and its database: the collector
deletes what clients and goals create, lock files are themselves entries of the
store directory, goals rely on temporary roots to keep what they have checked,
and a daemon opens the store that another process may be upgrading.

`PROJECT.json` lists all parts, including those not modelled, with the reason.

## 2. Modules

| Module | Models | Kind |
|---|---|---|
| `LockManager` | exclusive locks, and who may take or drop them | abstract specification |
| `PathLocks` | `pathlocks.cc` on top of open, flock, fstat, unlink | component; refines `LockManager` |
| `PathLocksProofs` | | proofs |
| `GarbageCollector` | `gc.cc`, with `addToStore` and the two database transactions of `local-store.cc` as clients | composition of collector, roots server, clients and store |
| `GarbageCollectorProofs` | | proofs |
| `AutoGC` | `autoGC`, its thread, `~LocalStore` | component |
| `ThreadPool` | `thread-pool.cc` | component |
| `ThreadPoolProofs` | | proofs |
| `SubstitutionGoals` | `substitution-goal.cc`, `goal.cc`, the goal map and `runImpl` of `worker.cc` | composition of worker, goals and a store that others use |
| `SubstitutionGoalsProofs` | | proofs |
| `DerivationGoals` | `derivation-goal.cc`, `local-derivation-goal.cc`, the goal map of `worker.cc`, `async-semaphore.hh` | composition of worker, goals, other builders and a collector |
| `StoreFiles` | roots files, temporary directories, `.links`: `gc.cc`, `local-store.cc`, `optimise-store.cc` at the level of system calls | composition of threads and collector |
| `OpenStore` | the constructor of `LocalStore`, `initDB`, `openDB` | component |
| `OpenStoreProofs` | | proofs |
| `RemoteStore` | `remote-store.cc`, `remote-store-connection.hh`, `daemon.cc` | composition of client, sockets and daemon |
| `Daemon` | `daemonInstance` of `nix/daemon.cc` | composition of `OpenStore` and `RemoteStore` |
| `DaemonProofs` | | proofs |
| `FileTransfer` | `curlfiletransfer.cc`, `curlmulti.cc`, `transferitem.cc` | composition of streams, curl thread and server |
| `MC…` | constants for TLC | instances |

**PathLocks.** `name` is the directory (path to file), `owner` the flocks, `fd`
the open descriptors, `held` the `PathLock` objects. A request opens the file,
tries or waits for the flock, and looks at the link count (`PathLockValid`): a
file without a name is dropped and opened again. Release is two steps, unlink
and close, in the order of the code. Requesters can be interrupted, fail to open
a file, or die at any point. A file is reused when it has neither a name nor a
descriptor.

**GarbageCollector.** Clients go through `addTempRoot` step by step (shared GC
lock, connect, send, answer, write to the roots file), then through `addToStore`
(validity check, path lock, second check, files, registration) or `addPermRoot`.
The collector takes the GC lock, starts the roots server, reads permanent and
temporary roots, lists the store and calls `deleteReferrersClosure` for each
entry: the walk to the referrers, the sort, and for each path the invalidation
and the deletion as two steps. Each process has one connection, whose thread is
`ServerStep`. Entries are pairs of a path, which stands for the hash part, and a
kind (object or lock file). `permRoots` are the indirect roots whose two links are
there, `dangling` those of which only the link under `gcroots/auto` is left;
`findRoots` counts the first if the path is valid, and unlinks the second, in a step
of its own.

**AutoGC.** `thread` is what the auto-GC thread is doing, `promise` whether the
promise has its value, or was destroyed without one. `_gcState`'s mutex is held from `SetValue` to `Notify`,
which are two steps because the destructor does not take it again.

**ThreadPool.** The mutex is explicit, since `quit` is an atomic set outside it:
a worker can be between its test of `quit` and its wait. The count `active` is
the set of workers it counts, and the queue is a set, since no property depends
on the order. `workers` keeps the threads that `shutdown` has moved to a local
variable until they are joined.

**SubstitutionGoals.** Goals are coroutines of one event loop, so the code
between two awaits is one step. `pc[p]` is where the goal of path `p` is, `waits`
the goals `waitForGoals` has no result of, `seen` the exit codes that its counters
were incremented for, `slots` the tokens of `Worker::substitutions`. An entry goes
away when its goal ends, so a goal may be made again; whoever asks while it exists
shares it. Substituters are tried in order and may fail in every way the code
tells apart. `cache` is the store's path info cache, with any entries at the start
(`InitCache`), which `isValidPath` believes until they expire; when the assertion of
`referencesValid` fails the run is aborted. Other processes register paths, and collect what is neither rooted
nor referred to: that collectors respect temporary roots is what
`GarbageCollector` is about.

**DerivationGoals.** Each derivation has two entries of `goal`, because a goal that
ends may have been replaced in the worker's map (`cached` says by which). A goal goes through the
functions of the code, one step from each await to the next: look for the
derivation, check outputs, substitute, inputs, locks, second check, hook, slot,
user, builder, registration. `wantedOutputs` may grow at any await, which is what
`needRestart` is about. Other processes lock and build the same outputs, use build
users and collect what is not rooted; `pathInfoCache` is this process's. A
substitution goal is seen from outside, as `SubstitutionGoals` shows it. The
settings (build mode, keep-going, fallback, what is valid or corrupt at first)
are chosen in `Init`.

**StoreFiles.** Names are bound to inodes, as in the kernel, and locks belong to
inodes: each system call of the code is a step. A job of a thread makes a roots
file (temporary name, lock, rename), makes and drops a temporary directory, or
replaces a file by a link to `.links`; the collector reads or unlinks roots files,
deletes temporary entries it can lock, and removes links with a count of 1.
`unheard` are the roots that were in a file when the collection began and that it has
not read.

**OpenStore.** A process has the big lock shared or exclusively (`sharers`,
`writer`), reads the schema file, makes or alters the tables, truncates and writes
the file (two steps), and goes back to the shared lock, which `flock` does by
giving up the first. `db` is the set of versions whose changes are in the
database. `Crash` ends a process between any two steps; committed transactions and
written bytes stay.

**RemoteStore.** The sockets are bounded queues of messages. `task` is what the
client's coroutines do, one of which holds the connection; `daemon` is the loop of
`processLegacyRequests`, `to` its unflushed output. Operations of `performOp` are
in five classes, by what is sent after them: an answer, frames and an answer,
frames and no answer, a NAR, or an error before `startWork`. Messages carry the
number of their command, which the protocol has not: the properties use it to see
what the client cannot. An operation may fail before or after its `FramedSource`
exists. **Daemon** joins the two: the daemon's process greets the
client when its constructor has returned, and leaves the store when it exits.

**FileTransfer.** `pc` is what the reader of a stream does, `item` the transfer that
the thread has of it, `wpc` the loop of the thread. The mutex of the queues is
explicit only in `quit`, which finishes items while it has it; the mutex of an
item only where `waitForData` asks for the other. A file has versions; what is
read is kept with its version and position.

## 3. Runs

| Run | Instance | Shows |
|---|---|---|
| `locks` | 2 requesters, 2 requests each, 2 paths, 3 files | exclusion, refinement, every request ends |
| `gc_flat` | 2 client processes, 2 paths without references, 1 collection, fairness | roots are kept while their process lives; valid paths exist; nobody waits for ever |
| `gc_options` | 1 client with 2 operations, b needs a, all collector options, all failures | references stay valid; what was found as a root is kept; writers keep their lock files |
| `gc_keep` | 3 paths, keep-outputs and keep-derivations | the settings are honoured, and nothing else is kept |
| `autogc` | 2 callers, 2 calls each, failing collections and threads | no collection on a destroyed store; waiters are woken, unless a thread could not be created |
| `pool` | 2 threads, 3 items of which one is added by another, all may throw | all work done; nobody works after an exception; it ends |
| `substitution` | 3 paths, of which the cache has one as valid and one as invalid, 2 top-level goals, 2 substituters, 1 slot, all failures, with and without keep-going and fallback, fairness | success means valid; references first; keep-going leaves nothing behind; the worker ends |
| `derivation` | 2 derivations, one needed by the other, with 2 outputs asked for separately; 6 settings; 1 slot, 1 user, hook, other builders, collector, all failures, fairness | builders are alone and keep their inputs; success means outputs; valid paths are not deleted; the worker ends |
| `derivation_retry` | the same, with outputs added after a retry | a violation, see section 6 |
| `store_files` | 2 threads, 2 paths, 9 inodes, up to 2 collections, deaths, fairness | roots are heard of; roots files and temporary directories are kept; jobs end |
| `daemon` | daemon, another process and a read-only one, stores of 7 kinds (absent, versions 6 to 11), 2 tasks, 2 commands, sockets of 1 message, all faults, fairness | upgrades alone, schema file not ahead, old stores open; client and daemon in step; connections and commands end |
| `file_transfer` | a download with 2 tries, or 2 uploads at a time; 2 units, 2 versions, a buffer of 1 unit, one stop, fairness | no gaps and one version; items finished once; streams end |

*Bounds.* Three files are enough in `locks`: whoever opens a file has no stale
one, so there are at most one other named file and one stale file of the other
requester. With two requests each, a requester can come back while the other
waits on the file it has unlinked. Two paths give a closure of more than one
path; two clients give one that hands over a root while the other registers.
One collection is enough for the passing runs, and `GC_two_runs` has two. Three
items in `pool` let an item be added by one that is running while the queue is
empty. In `substitution` one path refers to the two others, so that a goal can stop
waiting for one because the other failed; the substituters disagree on its
references, so that a second attempt waits for other goals than the first. The two
options are off or on together, to keep the run short. In
`derivation` the two outputs of one goal are wanted by two others, so that one is
added at every await; one slot and one user make both run out, and one postponement
lets a goal come back. In `store_files` a collector meets a file before, between
and after each of its maker's calls; inodes are as many as names and descriptors
can be in use. In `daemon` a socket of one message lets each side block on the
other after one step; two commands give a task that comes after one that stopped
half-way, and a client of a store that has to be made or upgraded only connects. In `file_transfer` a file of two units can break between them, and
two uploads suffice for one to be in `incoming` while another is running.
Deadlock is not checked, because all these systems stop when the bounded
operations are used up; the liveness properties take its place.

*Fairness.* `PathLocks`: a requester that can take a step does, and whoever has
locks drops them in the end. `GarbageCollector`: each thread that is not waiting
runs. `AutoGC`: the thread runs and a ready future is got. These are weak
fairness of running threads, which the scheduler gives. `ThreadPool` needs strong
fairness per thread, that is a mutex that starves nobody: the steps of others
disable a worker again and again while it waits for the mutex, and spurious
wakeups may be as many as they like. `SubstitutionGoals`: the event loop runs what
is ready, queries and transfers end, and a semaphore that queues its waiters gives
each its slot (strong fairness of `AcquireSlot`). The other modules have one weak
fairness condition for all that goes by itself: some process takes a step as long
as one can. It leaves the choice open, and holds whenever threads and processes
run, builders, sockets and servers answer or time out (`CURLOPT_LOW_SPEED_TIME`
and the connect timeout for transfers), and processes that are done close the store.
Deaths, cancellations, dropped streams, interrupts and new requests are not fair.

*Mutants.* For every property `PROJECT.json` names a changed definition (the
link count not checked, a waiter not woken, a root not waited for, …) under
which TLC finds that property violated; where a property has two parts, there is
one for each.

*Types.* Each module has a type invariant. They hold on the instances of the runs
but are not among their properties, and are proved for `PathLocks`, `ThreadPool`,
`SubstitutionGoals` and, within `OpenInvariant`, `OpenStore`.

## 4. Proofs

All theorems hold for every value of the constants that satisfies the named
assumptions of the component's module.

* `PathLocksProofs`: `TypeCorrect`, `LocksAreExclusive`, `UnlinkIsOwn`,
  `ImplementsLocks`. The invariant adds to the types that a file has one name,
  that the file of a held lock still has its name (`HeldFileIsNamed`, the fact
  that the link count check establishes) and that the program counter agrees
  with the locks. Exclusion follows: two holders would have the flock of the one
  file that has the name.
* `GarbageCollectorProofs`: `StoreIsClosed` needs only that a thread in an
  operation has a path, and that the two transactions check what the other could
  break. `FoundRootsAreKept` adds `NoRootPopped`: what the walk has taken from
  its queue, and what is dead, is not a root. What a root needs has a valid
  referrer until the root itself is invalid.
* `ThreadPoolProofs`: `TypeCorrect`, `ReturnMeansDone`, `NobodyIsLeft`. The
  invariant says where each item is (`Accounted`) and that the pool quits only
  after an exception, when drained, or on shutdown (`QuitsForAReason`).
* `SubstitutionGoalsProofs`: `TypeCorrect`, `SuccessIsKept`, `ReferencesComeFirst`,
  for any contents of the path info cache at the start. Neither property is inductive,
  since what is valid may be collected: the invariant says that a success is valid
  *and* rooted, or was in the cache as valid from before (`Safe`, `Kept`); that what
  the cache says otherwise is so (`Known`); and that each reference of a waiting goal
  is awaited, or safe, unless a failure was seen (`Awaited`).
* `OpenStoreProofs`, from `OpenAssumption` (a store has the tables of its schema file,
  and none without one): `UpgradesAreAlone`, `SchemaAlwaysDone` and `OldStoresOpen`,
  for any number of processes and openings, the first two with crashes at every step.
  `UpgradesAlone` is not inductive: it needs that everyone who is past the
  constructor's lock has it, and that a writer is at one of the steps of an upgrade
  (`HoldersHaveLock`). `SchemaIsDone` needs what each process has learnt before it
  truncates the file, that all tables are there (`SchemaKnown`, `PassedOn`).
  `OldStoreOpens` needs `OldStoreInv`: while nobody has died, the file is empty only
  under the exclusive lock, and the tables are exactly those of the file unless a
  writer is at work. So nobody with the shared lock reads an empty file, and the
  upgrade that follows the second `getSchema` adds only what is missing.
* `DaemonProofs`, from `InstanceAssumption` (the daemon does not open its store
  read-only) and `BoundAssumption`: the composition implements both components. Every
  behaviour of `Daemon` is one of `OpenStore` (`DaemonOpensStore`), which carries the
  theorems over, and one of `RemoteStore` (`DaemonServesClient`), where the many steps
  of an opening are the one step `OpenUncachedStore`. `DaemonServesCurrentStore` joins
  the two. The invariant `ServeInv` says that the daemon is past its greeting only while
  its store is open, and before it until then.

Only model-checked: all liveness properties (the prover does not handle fairness
and ENABLED), `RootsKept` and `ValidPathsExist`, which hold under restrictions
(section 6), `WriterHasLockFile`, the keep settings, `AutoGC`,
`KeepGoingFinishesAll`, which needs induction along the chain of waiting goals, and
all properties of `DerivationGoals`, `StoreFiles`, `RemoteStore` and `FileTransfer`.

## 5. Abstractions

* Contents, hashes, signatures, sizes and log output are left out; `freed`
  counts paths.
* A database transaction is one step. SQLite is taken to be serialisable.
* In `GarbageCollector` the temporary roots file exists from the first root on; its
  creation is in `StoreFiles`. Runtime roots of other processes are not modelled:
  they are read like the links. `isValidPath` in `findRoots` asks the database: the
  collector's process has no entries of its own for these paths.
* Path locks inside `GarbageCollector` are one step (`LockPath`), as `PathLocks`
  shows they may be, except that the collector may also delete lock files.
* Substitution: references are acyclic, and a substituter that is asked again says
  the same. `copyStorePath` with `addToStore` is one step; its own lock and second
  check give nothing that the early return does not. Repair, and content-addressed
  paths of another store directory, are left out. A goal that is cancelled with
  the worker stops at once. No `substitute = false`: it is the case without
  substituters.
* Derivations: waiters of a semaphore are served in any order (the code has a queue)
  and outputs are checked in any order. The evaluation store is the store;
  derivation files and sources are rooted at the start. A goal that replaces another
  starts after that has ended. The pool of hook instances, logs, the sandbox, hashes
  of fixed outputs and floating outputs are left out. Build users are a count. In the
  run the client's own queries are of a derivation file, so that the cache is not
  stale where section 6 says that this goes wrong.
* Store files: temporary names are random in the code, and are inodes here.
  `addTempRoot` writes its root once the file exists (`WriteRoot`); the lock and the
  socket, which come in between, are in `GarbageCollector`. A temporary directory that is no longer wanted is unlocked
  and deleted in one step. One name under `.links`; an inode is not used again for a
  corrupt file.
* Opening: the transaction of each version is one step, and SQLite makes it atomic.
  Options of the database (journal mode, read-only mounts) are left out.
* Daemon: the content of messages, trust, settings, and the details of operations are
  left out; so are the RPC protocol and legacy ssh. A write is of a whole message.
* File transfer: the timeout of 10 s in `curl_multi_poll` is left out, since progress
  must not depend on it; a wakeup is the flag `workAvailable`. The bodies of errors,
  `file://` and `s3://` URLs are left out. A change of redirect counts as a change of
  the file. Units are what the reader gets, and also what the offset of a resumed
  transfer counts, as in the code; that a server counts encoded bytes is left out.

## 6. Where code and comments disagree

In each of these the code does something else than a comment, an assertion or a
name of it says. `Derivation_retry` is the run `derivation_retry`; the others are
configurations beside the runs (`tlc -config X.cfg M`: TLC reports the property as
violated).

Garbage collector (`MCGarbageCollector`, `AutoGC`):

| Configuration | Property | What happens |
|---|---|---|
| `GC_pending` | `AckedRootNotBeingDeleted` | there is one pending hash part, which `markPendingIfPresent` (gc.cc:492) overwrites for each path of a closure, so a client may get its answer before its path is deleted; gc.cc:571: "we have to wait until deletion is finished" |
| `GC_two_runs` | `RootsKnown` | a root acknowledged by one collection is written to the file (gc.cc:201) only after the next has read it; gc.cc:654: "Any new roots will be sent to our socket." |
| `GC_threads` | `SharedLockExcludesGC` | threads of a process share the descriptor of the GC lock (gc.cc:151); the first to leave `addTempRoot` unlocks it for all; gc.cc:148: "This only succeeds if the garbage collector is not currently running." |
| `GC_exit` | `PermRootsKept` | a permanent root made after the links were scanned, by a process that exits before its roots file is read, is not seen |
| `GC_specific` | `DeleteSpecificDeletes` | a path found in use by `invalidatePathChecked` is skipped but not reported |
| `AutoGC_exit` | `StoreOutlivesThread` | the destructor returns at `set_value`, when the thread still uses the state |
| `AutoGC_nothread` | `EverybodyGoesOn` | if the thread cannot be created (gc.cc:1006) `gcRunning` stays set: later callers that wait are never woken, and the destructor gets a broken promise; gc.cc:1011: "Wake up any threads waiting for the auto-GC to finish." |

The passing runs therefore have single-threaded clients, one collection, and
closures of one path where `RootsKept` and `ValidPathsExist` are checked.

Substitution goals (`MCSubstitutionGoals`):

| Configuration | Property | What happens |
|---|---|---|
| `Substitution_cache` | `AssertionHolds` | a reference that the path info cache has as valid, but that was collected before it was rooted, counts as realised; when the entry has expired `assert(isValidPath(i))` (substitution-goal.cc:188) fails and ends the process |

Derivation goals (`MCDerivationGoals`):

| Configuration | Property | What happens |
|---|---|---|
| `Derivation_retry` | `RetryOnlyOnce` | `assert(false)`, "Should not be able to reach this state from here." (derivation-goal.cc:332), is reached with an incomplete closure, when outputs were added meanwhile |
| `Derivation_added` | `AddedOutputsProduced` | after that retry `needRestart` still says that a build is in progress (derivation-goal.cc:398, 545), so that an output added then is neither looked at nor made; derivation-goal.hh:137 says when a restart is needed |
| `Derivation_cache` | `ValidPathsKept` | an output that another process has made is deleted, because the path info cache still says that it is invalid; the comment at derivation-goal.cc:685 relies on the second check |

Files (`MCStoreFiles`):

| Configuration | Property | What happens |
|---|---|---|
| `StoreFiles_pid` | `RootsFileKept` | a new process has the pid of one that is about to unlink its roots file, by name |
| `StoreFiles_objects` | `RootsFileKept` | two `LocalStore` objects of one process use one name for their roots files |
| `StoreFiles_open` | `TempDirKept` | after a round whose directory was locked but already deleted, the next directory cannot be opened (too many open files): `continue` evaluates the loop's condition with the old `lockedByUs`, and the directory is returned without a lock; local-store.cc:1403 says that it is locked against deletion |

Daemon (`MCDaemon`):

| Configuration | Property | What happens |
|---|---|---|
| `Daemon_refused` | `OwnAnswers` | an error before `startWork` is sent twice, by `processLegacyRequests` and by its caller; daemon.cc:922: "just send the error message and exit" |
| `Daemon_drop` | `InSync` | a NAR stream that is dropped early leaves its connection in use; remote-store-connection.hh:117 says that it is closed |
| `Daemon_frames` | `ReadsOperations` | an operation that fails before its `FramedSource` exists (daemon.cc:418, 863) leaves its frames in the socket, where they are read as operations; serialise.hh:439: "in order to guarantee a known state to the original stream, even in the event of errors" |
| `Daemon_null` | `ConnectionExists` | after a command was cancelled the connection is a null pointer (remote-store-connection.hh:158), which the next command uses |

The run keeps the first three apart with `astray`, and a task that meets a null
pointer stops there.

File transfer (`FileTransfer`):

| Configuration | Property | What happens |
|---|---|---|
| `FileTransfer_locks` | `NeverLockedOut` | `quit` has the mutex of the queues and wants an item's (curlmulti.cc:31); `waitForData` has the item's and wants the other (curlfiletransfer.cc:390) |
| `FileTransfer_promise` | `NeverTerminates` | `quit` does not empty `cancel`, and sets its promises again when it is called again, which throws |
| `FileTransfer_orphan` | `DestructionAborts` | a stream that is destroyed while its item is still in `incoming` is acknowledged (curlmulti.cc:173), and the item is started afterwards (curlmulti.cc:199); also, a stream that is destroyed when the thread is quitting does not wait, while its item still runs (curlmulti.cc:100); curlfiletransfer.cc:247: "have it abort" |
| `FileTransfer_version` | `OneVersion` | a first attempt that cannot connect fulfils the metadata with an empty result (status 0 counts as successful), so that the ETag of the first real reply is not kept, and a resumed download may mix two versions of the file; curlfiletransfer.cc:353: "this avoids some silent corruption" |
| `FileTransfer_log` | `StreamsEnd` | an interrupt thrown by the log call at curlmulti.cc:200 loses the items already taken from `incoming`; curlmulti.cc:135 speaks of this case |

`StreamsEnd` in the run excepts the first two.

Seen while modelling, without a configuration:

* The names of temporary roots files begin with the pid and go on with random
  characters; `findTempRoots` reads them with `std::stoi`, which throws if the number
  is too large, so that one file left by a crash makes each collection fail.
* A process that waits for the big lock to upgrade waits until all others have closed
  the store, also when one of them has done the upgrade meanwhile.
* A crash between the last transaction of an upgrade and the write of the schema file
  makes each later opening fail (`ALTER TABLE` adds a column a second time), and a
  crash between truncation and write leaves an empty schema file. `OldStoreOpens` is
  therefore about executions without a crash.
* A new store is made under the shared lock only.
* `ignoreLiveness` deletes the referrers of a path with it; gc-store.hh:54: "the paths
  must still be unreferenced *within* the store".
* `findRoots` tests whether the target of a link under `gcroots/auto` exists, and then
  unlinks the link (gc.cc:297). An `addPermRoot` of the same root that comes between the
  two loses its link, and its path the root (`UnlinkStale`).
* `addToStore` deletes what is at the path before it restores it (local-store.cc:1119),
  and looks only at the path info cache, if that has an entry. If the entry is stale the
  path is valid, and without files until they are restored, or for good if that fails.
* A corrupt file under `.links` that has the right size is linked to without its hash
  being looked at, unless the optimiser repairs; optimise-store.cc:210: "We've seen a file
  with the same contents".
* A repair deletes a corrupt output, which is registered as valid, before it has a new
  one.
* A retry of a transfer that cannot connect, when an ETag is known, is reported as a
  change of the ETag and not tried again.

## 7. Not modelled, and what comes next

`PROJECT.json` gives a reason for each part. The largest are the evaluator, parser and
flakes: a language implementation, sequential, with data out of TLC's reach. The
command line, configuration, logging and most of `libutil` have no state to speak of
between two calls. The sandbox set-up is a long sequence of system calls without
alternatives.

1. *Binary caches*: order of uploads, disabling of a cache that fails, the disk cache of
   NAR infos.
2. *Store database*: `retrySQLite`, and `verifyStore`, which lists the store directory
   before it asks for the valid paths and does not exclude registrations.
3. *Profiles*: generations, switched and deleted by several processes; the machine slots
   of the build hook.
4. *Pure algorithms*: topological sort, version comparison, path normalisation
   against reference definitions.
5. *Proofs*: type correctness of `GarbageCollector`, `ValidPathsExist` for
   closures of one path, safety of `AutoGC`, `BuilderAlone`,
   `FinishedOnce`, `DaemonInSync`, `FreeMeansIdle`.
