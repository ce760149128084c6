----------------------------- MODULE ThreadPool -----------------------------
(***************************************************************************)
(* ThreadPool (lix/libutil/thread-pool.cc): one owner enqueues work items, *)
(* calls process or processAsync and destroys the pool; items may enqueue  *)
(* further items and may throw.  `quit` is an atomic that is not protected *)
(* by the mutex of state_, so the mutex is explicit: a worker may set quit *)
(* while another is between its test of quit and its wait.                 *)
(*                                                                         *)
(* The count `active` is kept as the set of the workers that it counts.    *)
(***************************************************************************)
EXTENDS FiniteSets

CONSTANTS
    Worker,     \* threads: as many as maxThreads
    Item,       \* work items
    Children,   \* what each item enqueues when it runs
    MayThrow,   \* items that may throw
    None, Owner

ASSUME ItemAssumption == Children \in [Item -> SUBSET Item] /\ MayThrow \subseteq Item
ASSUME NoneAssumption == None \notin Worker \cup Item \cup {Owner} /\ Owner \notin Worker

VARIABLES
    mutex,      \* who has state_ locked, or None
    pending, active, exception, workers, draining,
    signal,     \* the promise of anyWorkerExited: "none", "set" or "fulfilled"
    quit,
    added,      \* items that have been enqueued
    done,       \* items that have been run to their end
    wpc, item, left,    \* workers: program counter, item, children yet to enqueue
    mpc         \* the owner

state == <<pending, active, exception, workers, draining, signal>>
vars == <<mutex, state, quit, added, done, wpc, item, left, mpc>>

InPool == {"loop", "quit?", "work?", "wait", "run", "ran", "threw"}
Leaving == {"setQuit", "fulfill", "notify"}

(* The pool, its threads and its items have values of their types. *)
TypeOK ==
    /\ mutex \in Worker \cup {None}
    /\ pending \subseteq Item
    /\ active \subseteq Worker
    /\ exception \in BOOLEAN
    /\ workers \subseteq Worker
    /\ draining \in BOOLEAN
    /\ signal \in {"none", "set", "fulfilled"}
    /\ quit \in BOOLEAN
    /\ added \subseteq Item /\ done \subseteq Item
    /\ wpc \in [Worker -> {"none", "gone"} \cup InPool \cup Leaving]
    /\ item \in [Worker -> Item \cup {None}]
    /\ left \in [Worker -> SUBSET Item]
    /\ mpc \in {"enqueue", "quit", "quit?", "signal", "result", "shutdown", "notify", "join",
                "returned", "threw", "destroyed"}

Init ==
    /\ mutex = None
    /\ pending = {} /\ active = {} /\ exception = FALSE /\ workers = {}
    /\ draining = FALSE /\ signal = "none"
    /\ quit = FALSE
    /\ added = {} /\ done = {}
    /\ wpc = [w \in Worker |-> "none"]
    /\ item = [w \in Worker |-> None]
    /\ left = [w \in Worker |-> {}]
    /\ mpc = "enqueue"

-----------------------------------------------------------------------------
Goto(w, l) == wpc' = [wpc EXCEPT ![w] = l]

(* enqueueWithAio, without quit: push, start a thread if all are busy, and *)
(* notify_one.                                                             *)
StartWorker(w) ==
    /\ active = workers /\ w \notin workers
    /\ workers' = workers \cup {w}
    /\ Goto(w, "loop")

NotifyOne ==
    /\ active # workers \/ workers = Worker
    /\ \/ \E w \in Worker : wpc[w] = "wait" /\ Goto(w, "loop")
       \/ (\A w \in Worker : wpc[w] # "wait") /\ UNCHANGED wpc
    /\ UNCHANGED workers

Enqueue(i) ==
    /\ mutex = None /\ ~quit
    /\ i \notin added /\ added' = added \cup {i}
    /\ pending' = pending \cup {i}
    /\ (\E w \in Worker : StartWorker(w)) \/ NotifyOne
    /\ UNCHANGED <<mutex, active, exception, draining, signal, quit, done>>

OwnerEnqueues(i) ==
    /\ mpc = "enqueue" /\ \A j \in Item : i \notin Children[j]
    /\ Enqueue(i)
    /\ UNCHANGED <<item, left, mpc>>

(* ThreadPoolShutDown is thrown: the owner unwinds and destroys the pool. *)
OwnerCannotEnqueue ==
    /\ mpc = "enqueue" /\ mutex = None /\ quit
    /\ mpc' = "shutdown"
    /\ UNCHANGED <<mutex, state, quit, added, done, wpc, item, left>>

Busy == active # {} \/ pending # {}

Process ==
    /\ mpc = "enqueue" /\ mutex = None
    /\ draining' = TRUE
    /\ mpc' = IF Busy THEN "quit" ELSE "result"
    /\ UNCHANGED <<mutex, pending, active, exception, workers, signal, quit, added, done, wpc,
                   item, left>>

(* quit.wait(false) *)
WaitForQuit ==
    /\ mpc = "quit" /\ quit
    /\ mpc' = "result"
    /\ UNCHANGED <<mutex, state, quit, added, done, wpc, item, left>>

ProcessAsync ==
    /\ mpc = "enqueue" /\ mutex = None
    /\ draining' = TRUE /\ signal' = "set"
    /\ mpc' = IF Busy THEN "quit?" ELSE "result"
    /\ UNCHANGED <<mutex, pending, active, exception, workers, quit, added, done, wpc, item, left>>

TestQuitAsync ==
    /\ mpc = "quit?"
    /\ mpc' = IF quit THEN "result" ELSE "signal"
    /\ UNCHANGED <<mutex, state, quit, added, done, wpc, item, left>>

WaitForSignal ==
    /\ mpc = "signal" /\ signal = "fulfilled"
    /\ mpc' = "result"
    /\ UNCHANGED <<mutex, state, quit, added, done, wpc, item, left>>

(* Return, or shutdown() and rethrow. *)
Result ==
    /\ mpc = "result" /\ mutex = None
    /\ mpc' = IF exception THEN "shutdown" ELSE "returned"
    /\ UNCHANGED <<mutex, state, quit, added, done, wpc, item, left>>

(* ~ThreadPool *)
Destroy ==
    /\ mpc \in {"returned", "threw"}
    /\ mpc' = IF mpc = "returned" THEN "shutdown" ELSE "destroyed"
    /\ UNCHANGED <<mutex, state, quit, added, done, wpc, item, left>>

(* shutdown(): under the mutex, the notification, and the joins. *)
Shutdown ==
    /\ mpc = "shutdown" /\ mutex = None
    /\ quit' = TRUE
    /\ mpc' = IF workers = {} THEN "join" ELSE "notify"
    /\ UNCHANGED <<mutex, state, added, done, wpc, item, left>>

NotifyAll == wpc' = [w \in Worker |-> IF wpc[w] = "wait" THEN "loop" ELSE wpc[w]]

NotifyNobody ==
    /\ mpc = "notify" /\ mpc' = "join"
    /\ UNCHANGED <<mutex, state, quit, added, done, wpc, item, left>>
NotifyWorkers ==
    /\ mpc = "notify" /\ mpc' = "join"
    /\ NotifyAll
    /\ UNCHANGED <<mutex, state, quit, added, done, item, left>>

ThrowAtOnce ==
    /\ mpc = "join"
    /\ workers' = {}
    /\ mpc' = IF exception THEN "threw" ELSE "destroyed"
    /\ UNCHANGED <<mutex, pending, active, exception, draining, signal, quit, added, done, wpc,
                   item, left>>
Join ==
    /\ mpc = "join" /\ \A w \in workers : wpc[w] = "gone"
    /\ workers' = {}
    /\ mpc' = IF exception THEN "threw" ELSE "destroyed"
    /\ UNCHANGED <<mutex, pending, active, exception, draining, signal, quit, added, done, wpc,
                   item, left>>

-----------------------------------------------------------------------------
(* doWork: the section under the mutex begins. *)
LockState(w) ==
    /\ wpc[w] \in {"loop", "ran"} /\ mutex = None
    /\ mutex' = w
    /\ active' = active \ {w}
    /\ Goto(w, "quit?")
    /\ UNCHANGED <<pending, exception, workers, draining, signal, quit, added, done, item,
                   left, mpc>>

(* The first exception is kept, and the worker leaves; later ones are only *)
(* printed.                                                                *)
LockStateThrown(w) ==
    /\ wpc[w] = "threw" /\ mutex = None
    /\ active' = active \ {w}
    /\ exception' = TRUE
    /\ mutex' = IF exception THEN w ELSE None
    /\ Goto(w, IF exception THEN "quit?" ELSE "setQuit")
    /\ UNCHANGED <<pending, workers, draining, signal, quit, added, done, item, left, mpc>>

TestQuit(w) ==
    /\ wpc[w] = "quit?"
    /\ IF quit THEN Goto(w, "setQuit") /\ mutex' = None
               ELSE Goto(w, "work?") /\ UNCHANGED mutex
    /\ UNCHANGED <<state, quit, added, done, item, left, mpc>>

TakeItem(w) ==
    /\ wpc[w] = "work?"
    /\ \E i \in pending :
          /\ pending' = pending \ {i}
          /\ item' = [item EXCEPT ![w] = i]
          /\ left' = [left EXCEPT ![w] = Children[i]]
    /\ active' = active \cup {w}
    /\ mutex' = None
    /\ Goto(w, "run")
    /\ UNCHANGED <<exception, workers, draining, signal, quit, added, done, mpc>>

LeaveIfIdle(w) ==
    /\ wpc[w] = "work?" /\ pending = {}
    /\ mutex' = None
    /\ Goto(w, IF draining THEN "setQuit" ELSE "wait")
    /\ UNCHANGED <<state, quit, added, done, item, left, mpc>>
NothingPending(w) ==
    /\ wpc[w] = "work?" /\ pending = {}
    /\ mutex' = None
    /\ Goto(w, IF active = {} /\ draining THEN "setQuit" ELSE "wait")
    /\ UNCHANGED <<state, quit, added, done, item, left, mpc>>

SpuriousWakeup(w) ==
    /\ wpc[w] = "wait"
    /\ Goto(w, "loop")
    /\ UNCHANGED <<mutex, state, quit, added, done, item, left, mpc>>

(* The item, without the mutex. *)
ItemEnqueues(w, i) ==
    /\ wpc[w] = "run" /\ i \in left[w]
    /\ Enqueue(i)
    /\ left' = [left EXCEPT ![w] = @ \ {i}]
    /\ UNCHANGED <<item, mpc>>

ItemEnds(w) ==
    /\ wpc[w] = "run" /\ left[w] = {}
    /\ done' = done \cup {item[w]}
    /\ Goto(w, "ran")
    /\ UNCHANGED <<mutex, state, quit, added, item, left, mpc>>

(* By itself, from checkInterrupt, or because it cannot enqueue. *)
ItemThrows(w) ==
    /\ wpc[w] = "run" /\ (item[w] \in MayThrow \/ quit)
    /\ Goto(w, "threw")
    /\ UNCHANGED <<mutex, state, quit, added, done, item, left, mpc>>

(* KJ_DEFER at the end of doWork. *)
SetQuit(w) ==
    /\ wpc[w] = "setQuit"
    /\ quit' = TRUE
    /\ Goto(w, "fulfill")
    /\ UNCHANGED <<mutex, state, added, done, item, left, mpc>>

Fulfill(w) ==
    /\ wpc[w] = "fulfill" /\ mutex = None
    /\ signal' = IF signal = "set" THEN "fulfilled" ELSE signal
    /\ Goto(w, "notify")
    /\ UNCHANGED <<mutex, pending, active, exception, workers, draining, quit, added, done, item,
                   left, mpc>>

NotifyOthers(w) ==
    /\ wpc[w] = "notify"
    /\ wpc' = [v \in Worker |-> IF v = w THEN "gone"
                                ELSE IF wpc[v] = "wait" THEN "loop" ELSE wpc[v]]
    /\ UNCHANGED <<mutex, state, quit, added, done, item, left, mpc>>

DoWork(w) ==
    \/ LockState(w) \/ LockStateThrown(w) \/ TestQuit(w) \/ TakeItem(w) \/ NothingPending(w)
    \/ (\E i \in Item : ItemEnqueues(w, i)) \/ ItemEnds(w)
    \/ SetQuit(w) \/ Fulfill(w) \/ NotifyOthers(w)
    \/ (quit /\ ItemThrows(w))

OwnerStep ==
    \/ OwnerCannotEnqueue \/ Process \/ WaitForQuit \/ TestQuitAsync \/ WaitForSignal
    \/ Result \/ Destroy \/ Shutdown \/ NotifyWorkers \/ Join

Next ==
    \/ \E i \in Item : OwnerEnqueues(i)
    \/ ProcessAsync
    \/ OwnerStep
    \/ \E w \in Worker : DoWork(w) \/ ItemThrows(w) \/ SpuriousWakeup(w)

Spec == Init /\ [][Next]_vars

(* Threads run, items come to an end, and the mutex starves nobody, however *)
(* many spurious wakeups there are.                                         *)
Fairness == SF_vars(OwnerStep) /\ \A w \in Worker : SF_vars(DoWork(w))

FairSpec == Spec /\ Fairness

-----------------------------------------------------------------------------
(***************************************************************************)
(* "Execute work items until the queue is empty. [...] work items are      *)
(* allowed to add new items to the queue; this is handled correctly"       *)
(* (thread-pool.hh): when process returns without throwing, every item     *)
(* that was enqueued has been run to its end.                              *)
(***************************************************************************)
AllDone == mpc = "returned" => added \subseteq done

(***************************************************************************)
(* "So wait for them to finish": when process throws, or the pool is       *)
(* destroyed, no worker can run an item any more, which might refer to the *)
(* caller's stack frame.                                                   *)
(***************************************************************************)
NobodyWorks ==
    mpc \in {"threw", "destroyed"} => \A w \in Worker : wpc[w] \in {"none", "gone"}

(***************************************************************************)
(* process returns, and the pool can be destroyed: no worker sleeps        *)
(* through the end of the work, an exception or the shutdown.              *)
(***************************************************************************)
PoolEnds == <>(mpc = "destroyed")
=============================================================================
