-------------------------- MODULE ThreadPoolProofs --------------------------
(***************************************************************************)
(* What ThreadPool promises, for any number of threads and items.          *)
(*                                                                         *)
(* The inductive invariant says where each item is that has been enqueued  *)
(* (Accounted), and that the pool only quits for one of three reasons      *)
(* (QuitsForAReason): an item has thrown, all work is done, or the owner   *)
(* is shutting it down.                                                    *)
(***************************************************************************)
EXTENDS ThreadPool, TLAPS

USE ItemAssumption, NoneAssumption

Running == {"run", "ran", "threw"}
Closing == {"shutdown", "notify", "join", "threw", "destroyed"}
Drained == draining /\ pending = {} /\ active = {}

(* The mutex is held exactly in the section of doWork that is cut in two. *)
LockHolders ==
    \A w \in Worker : mutex = w <=> wpc[w] \in {"quit?", "work?"}

ActiveRun == active = {w \in Worker : wpc[w] \in Running}

(* No item gets lost, as long as none has thrown. *)
Accounted ==
    exception \/ \A i \in added : \/ i \in pending \/ i \in done
                                 \/ \E w \in active : item[w] = i

(* A running worker has an item, and one that has finished is recorded. *)
RanIsDone ==
    \A w \in Worker : /\ wpc[w] \in Running => item[w] \in Item
                      /\ wpc[w] = "ran" => item[w] \in done

QuitsForAReason ==
    quit \/ (\E w \in Worker : wpc[w] \in Leaving \cup {"gone"}) =>
        exception \/ Drained \/ mpc \in Closing

(* KJ_DEFER sets quit first. *)
LeftAfterQuit == \A w \in Worker : wpc[w] \in {"fulfill", "notify", "gone"} => quit

OwnerKnows ==
    /\ mpc = "enqueue" => ~draining
    /\ mpc \in {"result", "returned"} => exception \/ Drained
    /\ signal = "fulfilled" => quit
    /\ mpc \in {"quit", "quit?", "signal", "result", "returned"} => draining
    /\ mpc \in {"notify", "join", "threw", "destroyed"} => quit
    /\ mpc = "returned" => ~exception

(* Every thread that exists is in `workers`, until they are joined. *)
ThreadsKnown ==
    IF mpc \in {"threw", "destroyed"}
    THEN \A w \in Worker : wpc[w] \in {"none", "gone"}
    ELSE \A w \in Worker : w \in workers <=> wpc[w] # "none"

IInv ==
    /\ TypeOK /\ LockHolders /\ ActiveRun /\ Accounted /\ RanIsDone
    /\ QuitsForAReason /\ LeftAfterQuit /\ OwnerKnows /\ ThreadsKnown

-----------------------------------------------------------------------------
(* enqueueWithAio keeps the invariant, whoever calls it, while somebody is *)
(* still able to enqueue: the owner before draining, or a running item.    *)
LEMMA EnqueueStep ==
    ASSUME IInv, NEW i \in Item, Enqueue(i), mpc' = mpc, item' = item,
           left' \in [Worker -> SUBSET Item],
           ~draining \/ active # {}
    PROVE  IInv'
<1>1. TypeOK'
  BY DEF IInv, TypeOK, Enqueue, StartWorker, NotifyOne, Goto, InPool, Leaving
<1>2. \A w \in Worker : wpc'[w] = wpc[w]
                        \/ (wpc[w] \in {"none", "wait"} /\ wpc'[w] = "loop")
  BY DEF IInv, TypeOK, ThreadsKnown, Enqueue, StartWorker, NotifyOne, Goto, OwnerKnows
<1>3. LockHolders' /\ ActiveRun' /\ RanIsDone'
  BY <1>1, <1>2 DEF IInv, TypeOK, LockHolders, ActiveRun, RanIsDone, Running, Enqueue
<1>4. Accounted'
  BY DEF IInv, Accounted, Enqueue
<1>5. QuitsForAReason' /\ LeftAfterQuit' /\ OwnerKnows'
  BY <1>2 DEF IInv, TypeOK, QuitsForAReason, LeftAfterQuit, OwnerKnows, Drained, Closing, Leaving, Enqueue
<1>6. ThreadsKnown'
  BY DEF IInv, TypeOK, ThreadsKnown, OwnerKnows, Enqueue, StartWorker, NotifyOne, Goto
<1> QED BY <1>1, <1>3, <1>4, <1>5, <1>6 DEF IInv

(* A step of the owner, other than enqueueing, keeps the invariant. *)
LEMMA OwnerKeeps ==
    ASSUME IInv, ProcessAsync \/ OwnerStep
    PROVE  IInv'
<1> USE DEF IInv, TypeOK, LockHolders, ActiveRun, Accounted, RanIsDone, QuitsForAReason, LeftAfterQuit,
            OwnerKnows, ThreadsKnown, Running, Closing, Drained, InPool, Leaving, state
<1>1. CASE OwnerCannotEnqueue
  BY <1>1 DEF OwnerCannotEnqueue
<1>2. CASE Process
  BY <1>2 DEF Process, Busy
<1>3. CASE ProcessAsync
  BY <1>3 DEF ProcessAsync, Busy
<1>4. CASE WaitForQuit
  BY <1>4 DEF WaitForQuit
<1>5. CASE TestQuitAsync
  BY <1>5 DEF TestQuitAsync
<1>6. CASE WaitForSignal
  BY <1>6 DEF WaitForSignal
<1>7. CASE Result
  BY <1>7 DEF Result
<1>8. CASE Destroy
  BY <1>8 DEF Destroy
<1>9. CASE Shutdown
  BY <1>9 DEF Shutdown
<1>10. CASE NotifyWorkers
  BY <1>10 DEF NotifyWorkers, NotifyAll
<1>11. CASE Join
  BY <1>11 DEF Join
<1> QED
  BY <1>1, <1>2, <1>3, <1>4, <1>5, <1>6, <1>7, <1>8, <1>9, <1>10, <1>11 DEF OwnerStep

(* A step of a worker, other than enqueueing, keeps the invariant. *)
LEMMA WorkerKeeps ==
    ASSUME IInv, NEW w \in Worker,
           \/ LockState(w) \/ LockStateThrown(w) \/ TestQuit(w) \/ TakeItem(w)
           \/ NothingPending(w) \/ SpuriousWakeup(w) \/ ItemEnds(w) \/ ItemThrows(w)
           \/ SetQuit(w) \/ Fulfill(w) \/ NotifyOthers(w)
    PROVE  IInv'
<1> USE DEF IInv, TypeOK, LockHolders, ActiveRun, Accounted, RanIsDone, QuitsForAReason, LeftAfterQuit,
            OwnerKnows, ThreadsKnown, Running, Closing, Drained, InPool, Leaving, state
<1>1. CASE LockState(w)
  BY <1>1 DEF LockState, Goto
<1>2. CASE LockStateThrown(w)
  BY <1>2 DEF LockStateThrown, Goto
<1>3. CASE TestQuit(w)
  BY <1>3 DEF TestQuit, Goto
<1>4. CASE TakeItem(w)
  BY <1>4 DEF TakeItem, Goto
<1>5. CASE NothingPending(w)
  BY <1>5 DEF NothingPending, Goto
<1>6. CASE SpuriousWakeup(w)
  BY <1>6 DEF SpuriousWakeup, Goto
<1>7. CASE ItemEnds(w)
  BY <1>7 DEF ItemEnds, Goto
<1>8. CASE ItemThrows(w)
  BY <1>8 DEF ItemThrows, Goto
<1>9. CASE SetQuit(w)
  BY <1>9 DEF SetQuit, Goto
<1>10. CASE Fulfill(w)
  BY <1>10 DEF Fulfill, Goto
<1>11. CASE NotifyOthers(w)
  BY <1>11 DEF NotifyOthers
<1> QED BY <1>1, <1>2, <1>3, <1>4, <1>5, <1>6, <1>7, <1>8, <1>9, <1>10, <1>11

(* Every step keeps the invariant. *)
LEMMA StepKeeps == IInv /\ [Next]_vars => IInv'
<1> SUFFICES ASSUME IInv, [Next]_vars PROVE IInv'
  OBVIOUS
<1>1. CASE \E i \in Item : OwnerEnqueues(i)
  <2>1. PICK i \in Item : OwnerEnqueues(i)
    BY <1>1
  <2> QED
    BY <2>1, EnqueueStep DEF OwnerEnqueues, IInv, TypeOK, OwnerKnows
<1>2. CASE \E w \in Worker, i \in Item : ItemEnqueues(w, i)
  <2>1. PICK w \in Worker, i \in Item : ItemEnqueues(w, i)
    BY <1>2
  <2>2. w \in active
    BY <2>1 DEF ItemEnqueues, IInv, ActiveRun, Running
  <2>3. left' \in [Worker -> SUBSET Item]
    BY <2>1 DEF ItemEnqueues, IInv, TypeOK
  <2> QED
    BY <2>1, <2>2, <2>3, EnqueueStep DEF ItemEnqueues
<1>3. CASE ProcessAsync \/ OwnerStep
  BY <1>3, OwnerKeeps
<1>4. CASE \E w \in Worker : \/ DoWork(w) /\ ~ \E i \in Item : ItemEnqueues(w, i)
                             \/ ItemThrows(w) \/ SpuriousWakeup(w)
  BY <1>4, WorkerKeeps DEF DoWork
<1>5. CASE UNCHANGED vars
  BY <1>5 DEF vars, state, IInv, TypeOK, LockHolders, ActiveRun, Accounted, RanIsDone,
              QuitsForAReason, LeftAfterQuit, OwnerKnows, ThreadsKnown, Drained
<1> QED BY <1>1, <1>2, <1>3, <1>4, <1>5 DEF Next

(* The invariant holds at first. *)
LEMMA InitKeeps == Init => IInv
  BY DEF Init, IInv, TypeOK, LockHolders, ActiveRun, Accounted, RanIsDone, QuitsForAReason,
         LeftAfterQuit, OwnerKnows, ThreadsKnown, Running, Leaving, InPool

-----------------------------------------------------------------------------
(***************************************************************************)
(* For any number of threads and items: when process or processAsync       *)
(* returns without throwing, every item that was enqueued, by the owner or *)
(* by another item, has been run to its end.                               *)
(***************************************************************************)
THEOREM ReturnMeansDone == Spec => []AllDone
<1>1. IInv => AllDone
  BY DEF IInv, Accounted, OwnerKnows, Drained, AllDone
<1> QED BY <1>1, InitKeeps, StepKeeps, PTL DEF Spec

(***************************************************************************)
(* For any number of threads and items: once process has thrown or the     *)
(* pool is destroyed, no worker thread is left that could run an item.     *)
(***************************************************************************)
THEOREM NobodyIsLeft == Spec => []NobodyWorks
<1>1. IInv => NobodyWorks
  BY DEF IInv, ThreadsKnown, NobodyWorks
<1> QED BY <1>1, InitKeeps, StepKeeps, PTL DEF Spec

(* The variables of the pool keep their types. *)
THEOREM TypeCorrect == Spec => []TypeOK
<1>1. IInv => TypeOK
  BY DEF IInv
<1> QED BY <1>1, InitKeeps, StepKeeps, PTL DEF Spec
=============================================================================
