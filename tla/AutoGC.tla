------------------------------- MODULE AutoGC -------------------------------
(***************************************************************************)
(* LocalStore::autoGC (lix/libstore/gc.cc): threads that add paths start a *)
(* collection in a thread of its own when the disk is nearly full, and may *)
(* wait for it; ~LocalStore waits for it too.  The collection itself is    *)
(* GarbageCollector; here it only frees space.                             *)
(*                                                                         *)
(* _gcState is a mutex.  A step that holds it from beginning to end is one *)
(* action; only the collection's last section is cut in two, because its   *)
(* promise is seen by the destructor, which does not hold the mutex.       *)
(***************************************************************************)
EXTENDS Naturals

CONSTANTS
    Caller,         \* threads that call autoGC
    MinFree, MaxFree,
    Disk,           \* space of an empty disk
    MaxCalls,       \* bound: calls of each thread
    Faults          \* what may happen: "nothread", "gcfails"

ASSUME SpaceAssumption == MinFree \in Nat /\ MaxFree \in Nat /\ Disk \in Nat
ASSUME CallAssumption == MaxCalls \in Nat

VARIABLES
    avail,          \* what statvfs reports
    due,            \* whether min-free-check-interval is over
    availAfterGC,   \* 2 * Disk stands for the largest number
    gcRunning,
    gcWaiters,      \* callers with a fulfiller in the list
    promise,        \* the one behind gcFuture: "unset", "set", or "broken"
    thread,         \* the "auto gc" threads that exist, by what they do
    pc, calls,      \* of the callers
    store           \* ~LocalStore: not begun, waiting for the future, over

vars == <<avail, due, availAfterGC, gcRunning, gcWaiters, promise, thread, pc, calls, store>>

(* Every variable of autoGC and its callers has a value of its type. *)
TypeOK ==
    /\ avail \in 0..Disk
    /\ due \in BOOLEAN
    /\ availAfterGC \in 0..(2 * Disk)
    /\ gcRunning \in BOOLEAN
    /\ gcWaiters \subseteq Caller
    /\ promise \in {"unset", "set", "broken"}
    /\ thread \in {"none", "collect", "measure", "wakeup", "notify"}
    /\ pc \in [Caller -> {"idle", "waiting"}]
    /\ calls \in [Caller -> 0..MaxCalls]
    /\ store \in {"open", "closing", "closed", "terminated"}

Init ==
    /\ avail = Disk
    /\ due = TRUE
    /\ availAfterGC = 2 * Disk
    /\ gcRunning = FALSE
    /\ gcWaiters = {}
    /\ promise = "unset"
    /\ thread = "none"
    /\ pc = [c \in Caller |-> "idle"]
    /\ calls = [c \in Caller |-> 0]
    /\ store = "open"

-----------------------------------------------------------------------------
(* Others fill the disk, and time passes. *)
UseSpace == avail > 0 /\ avail' = avail - 1 /\ UNCHANGED <<due, availAfterGC, gcRunning,
                gcWaiters, promise, thread, pc, calls, store>>

IntervalPasses == ~due /\ due' = TRUE /\ UNCHANGED <<avail, availAfterGC, gcRunning,
                gcWaiters, promise, thread, pc, calls, store>>

(* No collection is needed, or the last one did not help. *)
EnoughSpace ==
    \/ avail >= MinFree
    \/ avail >= MaxFree
    \/ 100 * avail > 97 * availAfterGC

MutexFree == thread # "notify"

(* A call, up to the wait; its fulfiller is in the list in every case. *)
Call(c) ==
    /\ store = "open" /\ MutexFree
    /\ pc[c] = "idle" /\ calls[c] < MaxCalls
    /\ calls' = [calls EXCEPT ![c] = @ + 1]
    /\ gcWaiters' = gcWaiters \cup {c}

Wait(c, sync) == pc' = IF sync THEN [pc EXCEPT ![c] = "waiting"] ELSE pc

JoinGC(c, sync) ==
    /\ Call(c) /\ gcRunning
    /\ Wait(c, sync)
    /\ UNCHANGED <<avail, due, availAfterGC, gcRunning, promise, thread, store>>

NoGCNeeded(c) ==
    /\ Call(c) /\ ~gcRunning
    /\ ~due \/ EnoughSpace
    /\ due' = FALSE
    /\ UNCHANGED <<avail, availAfterGC, gcRunning, promise, thread, pc, store>>

StartGC(c, sync) ==
    /\ Call(c) /\ ~gcRunning
    /\ due /\ ~EnoughSpace
    /\ due' = FALSE /\ gcRunning' = TRUE /\ promise' = "unset"
    /\ thread' = "collect"
    /\ Wait(c, sync)
    /\ UNCHANGED <<avail, availAfterGC, store>>

(* std::thread's constructor throws, the call with it, and the promise is   *)
(* destroyed without a value; gcRunning stays set.                          *)
StartGCFails(c) ==
    /\ "nothread" \in Faults
    /\ Call(c) /\ ~gcRunning
    /\ due /\ ~EnoughSpace
    /\ due' = FALSE /\ gcRunning' = TRUE /\ promise' = "broken"
    /\ UNCHANGED <<avail, availAfterGC, thread, pc, store>>

-----------------------------------------------------------------------------
(* The thread; the collection frees something or nothing, or throws. *)
Collect ==
    /\ thread = "collect"
    /\ \/ thread' = "measure" /\ avail' \in avail..Disk
       \/ "gcfails" \in Faults /\ thread' = "wakeup" /\ UNCHANGED avail
    /\ UNCHANGED <<due, availAfterGC, gcRunning, gcWaiters, promise, pc, calls, store>>

Measure ==
    /\ thread = "measure" /\ thread' = "wakeup"
    /\ availAfterGC' = avail
    /\ UNCHANGED <<avail, due, gcRunning, gcWaiters, promise, pc, calls, store>>

(* `wakeup`, up to promise.set_value(), with the mutex held ... *)
ValueNotSet ==
    /\ thread = "wakeup" /\ thread' = "notify"
    /\ gcRunning' = FALSE /\ due' = FALSE
    /\ UNCHANGED <<avail, availAfterGC, gcWaiters, promise, pc, calls, store>>
SetValue ==
    /\ thread = "wakeup" /\ thread' = "notify"
    /\ gcRunning' = FALSE /\ due' = FALSE /\ promise' = "set"
    /\ UNCHANGED <<avail, availAfterGC, gcWaiters, pc, calls, store>>

(* ... and the rest, up to its release. *)
NotifyFirst ==
    /\ thread = "notify" /\ thread' = "none"
    /\ \/ \E c \in gcWaiters : pc' = [pc EXCEPT ![c] = "idle"]
       \/ gcWaiters = {} /\ UNCHANGED pc
    /\ gcWaiters' = {}
    /\ UNCHANGED <<avail, due, availAfterGC, gcRunning, promise, calls, store>>
Notify ==
    /\ thread = "notify" /\ thread' = "none"
    /\ pc' = [c \in Caller |-> IF c \in gcWaiters THEN "idle" ELSE pc[c]]
    /\ gcWaiters' = {}
    /\ UNCHANGED <<avail, due, availAfterGC, gcRunning, promise, calls, store>>

-----------------------------------------------------------------------------
(* ~LocalStore: nobody is in a call any more. *)
CloseAtOnce ==
    /\ store = "open" /\ MutexFree /\ \A c \in Caller : pc[c] = "idle"
    /\ store' = "closed"
    /\ UNCHANGED <<avail, due, availAfterGC, gcRunning, gcWaiters, promise, thread, pc, calls>>
Close ==
    /\ store = "open" /\ MutexFree /\ \A c \in Caller : pc[c] = "idle"
    /\ store' = IF gcRunning THEN "closing" ELSE "closed"
    /\ UNCHANGED <<avail, due, availAfterGC, gcRunning, gcWaiters, promise, thread, pc, calls>>

(* get() throws if the promise is broken, and a destructor may not. *)
FutureGet ==
    /\ store = "closing" /\ promise # "unset"
    /\ store' = IF promise = "set" THEN "closed" ELSE "terminated"
    /\ UNCHANGED <<avail, due, availAfterGC, gcRunning, gcWaiters, promise, thread, pc, calls>>

AutoGCThread == Collect \/ Measure \/ SetValue \/ Notify

Next ==
    \/ UseSpace \/ IntervalPasses
    \/ \E c \in Caller, sync \in BOOLEAN : JoinGC(c, sync) \/ StartGC(c, sync)
    \/ \E c \in Caller : NoGCNeeded(c) \/ StartGCFails(c)
    \/ AutoGCThread
    \/ Close \/ FutureGet

Spec == Init /\ [][Next]_vars

(* The "auto gc" thread runs, collectGarbage ends, and a future that is *)
(* ready is got.                                                        *)
Fairness == WF_vars(AutoGCThread) /\ WF_vars(FutureGet)

FairSpec == Spec /\ Fairness

-----------------------------------------------------------------------------
(***************************************************************************)
(* ~LocalStore waits until the auto-GC thread has finished its collection, *)
(* which works on the store.                                               *)
(***************************************************************************)
StoreOutlivesCollection == store = "closed" => thread \notin {"collect", "measure", "wakeup"}

(***************************************************************************)
(* "waiting for auto-GC to finish on exit..." (local-store.cc): once the   *)
(* destructor has waited, no auto-GC thread uses the store.                *)
(***************************************************************************)
StoreOutlivesThread == store = "closed" => thread = "none"

(***************************************************************************)
(* "Wake up any threads waiting for the auto-GC to finish" (gc.cc): every  *)
(* caller that waits goes on, and the destructor comes to its end.  It is  *)
(* not so once a thread could not be created.                              *)
(***************************************************************************)
EverybodyGoesOn ==
    /\ \A c \in Caller : pc[c] = "waiting" ~> pc[c] = "idle"
    /\ store = "closing" ~> store = "closed"

(***************************************************************************)
(* A caller that waits for a collection is woken, also when somebody else  *)
(* had started it, or when it fails, and the destructor does not wait for  *)
(* ever; except from the time on when a thread could not be created, which *)
(* never happens while somebody waits.                                     *)
(***************************************************************************)
NobodyWaitsForEver ==
    /\ \A c \in Caller : pc[c] = "waiting" /\ promise # "broken" ~> pc[c] = "idle"
    /\ store = "closing" /\ promise # "broken" ~> store = "closed"
=============================================================================
