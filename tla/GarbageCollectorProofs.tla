----------------------- MODULE GarbageCollectorProofs -----------------------
(***************************************************************************)
(* Two facts about the collector that hold for every store graph, number   *)
(* of clients and number of collections, whatever crashes: the closure     *)
(* invariant of the database, and that nothing needed by a root which the  *)
(* collector has found is invalidated.                                     *)
(***************************************************************************)
EXTENDS GarbageCollector, TLAPS

USE GraphAssumption, ProcessAssumption

(* Names are pairs. *)
LEMMA NameFacts ==
    /\ \A p \in Path : Obj(p) \in Name /\ Lck(p) \in Name
    /\ \A p \in Path : HashPart(Obj(p)) = p
    /\ \A n \in Name : HashPart(n) \in Path
    /\ \A p, q : Obj(p) = Obj(q) => p = q
BY DEF Obj, Lck, Name, HashPart

-----------------------------------------------------------------------------
(* A thread in an operation knows the path it is working on. *)
InOperation ==
    /\ \A c \in Client : cpc[c] # "idle" => op[c].path \in Path
    /\ op \in [Client -> [kind : {"none", "add", "perm"}, path : Path \cup {None}]]
    /\ cpc \in [Client -> {"idle", "check", "lock", "symlink"}
                              \cup AddingRoot \cup HoldingLock]

SoundStore == valid \subseteq Path /\ ClosureInvariant

(* Every step of a client or of the collector keeps this so. *)
LEMMA ClientInOperation == InOperation /\ [Next]_vars => InOperation'
<1> SUFFICES ASSUME InOperation, [Next]_vars PROVE InOperation'
    OBVIOUS
<1> USE DEF AddingRoot, HoldingLock
<1>1. ASSUME NEW c \in Client, NEW p \in Path, AddToStore(c, p) \/ AddPermRoot(c, p)
      PROVE  InOperation'
    <2>1. PICK k \in {"add", "perm"} :
              /\ op' = [op EXCEPT ![c] = [kind |-> k, path |-> p]]
              /\ cpc' = [cpc EXCEPT ![c] = "start"]
        BY <1>1 DEF AddToStore, AddPermRoot, Begin, Goto
    <2> QED
        BY <2>1 DEF InOperation
<1>2. ASSUME NEW c \in Client, NEW l \in AddingRoot \cup HoldingLock \cup {"check", "lock", "symlink"},
             cpc[c] # "idle", Goto(c, l), UNCHANGED op
      PROVE  InOperation'
    BY <1>2 DEF Goto, InOperation
<1>3. ASSUME NEW c \in Client, Done(c) PROVE InOperation'
    BY <1>3 DEF Done, Goto, NoOp, InOperation
<1>4. ASSUME NEW c \in Client, ClientStep(c) PROVE InOperation'
    <2>1. CASE TryGCLock(c) \/ Connect(c) \/ Send(c) \/ ReceiveAck(c) \/ Disconnected(c)
        BY <1>2, <2>1 DEF TryGCLock, Connect, Send, ReceiveAck, Disconnected
    <2>2. CASE WriteTempRoot(c) \/ LockPath(c) \/ Recheck(c) \/ Restore(c) \/ RegisterValidPath(c)
        BY <1>2, <2>2 DEF WriteTempRoot, LockPath, Recheck, Restore, RegisterValidPath
    <2>3. CASE MakeSymlink(c) \/ UnlockPath(c)
        BY <1>3, <2>3 DEF MakeSymlink, UnlockPath
    <2>4. CASE IsValid(c)
        BY <1>2, <1>3, <2>4 DEF IsValid
    <2> QED
        BY <1>4, <2>1, <2>2, <2>3, <2>4 DEF ClientStep
<1>5. ASSUME NEW P \in Process, EndProcess(P) PROVE InOperation'
    BY <1>5 DEF EndProcess, NoOp, InOperation
<1>6. ASSUME UNCHANGED <<cpc, op>> PROVE InOperation'
    BY <1>6 DEF InOperation
<1>7. ASSUME CollectorStep \/ CrashGC \/ InterruptGC PROVE UNCHANGED <<cpc, op>>
    BY <1>7 DEF CollectorStep, CrashGC, InterruptGC, LockGC, StartServer, FindRootsNoTemp,
       UnlinkStale, FindTempRoots, ListEntries, NextEntry, Pop, Delete, Visit, TopoSort,
       DeleteFromStore, AllDeleted, Finish, UnlockGC, client
<1>8. ASSUME NEW P \in Process, ServerStep(P) PROVE UNCHANGED <<cpc, op>>
    BY <1>8 DEF ServerStep, ReadRoot, Wakeup, WriteAck, CloseConnection, client
<1> QED
    BY <1>1, <1>4, <1>5, <1>6, <1>7, <1>8
    DEF Next, vars, client, RemoveRoot, CollectGarbage

-----------------------------------------------------------------------------
(* Only two steps change the set of valid paths. *)
LEMMA ValidChanges ==
    ASSUME [Next]_vars, valid' # valid
    PROVE  \/ \E c \in Client : RegisterValidPath(c)
           \/ \E n \in Name : Delete(n)
<1> USE DEF store, links
<1>1. ASSUME NEW c \in Client, ClientStep(c) PROVE RegisterValidPath(c)
    BY <1>1 DEF ClientStep, TryGCLock, Connect, Send, ReceiveAck, Disconnected,
       WriteTempRoot, MakeSymlink, IsValid, LockPath, Recheck, Restore, UnlockPath
<1>2. ASSUME CollectorStep PROVE \E n \in Name : Delete(n)
    BY <1>2 DEF CollectorStep, LockGC, StartServer, FindRootsNoTemp, UnlinkStale, FindTempRoots,
       ListEntries, NextEntry, Pop, Visit, TopoSort, DeleteFromStore, AllDeleted,
       Finish, UnlockGC
<1>3. \A P \in Process : ~ServerStep(P) /\ ~EndProcess(P)
    BY DEF ServerStep, ReadRoot, Wakeup, WriteAck, CloseConnection, EndProcess
<1>4. \A c \in Client, p \in Path : ~AddToStore(c, p) /\ ~AddPermRoot(c, p)
    BY DEF AddToStore, AddPermRoot, Begin
<1>5. ~CrashGC /\ ~InterruptGC /\ \A p \in Path : ~RemoveRoot(p)
    BY DEF CrashGC, InterruptGC, RemoveRoot
<1>6. \A o \in GCOptions : ~CollectGarbage(o)
    BY DEF CollectGarbage
<1> QED
    BY <1>1, <1>2, <1>3, <1>4, <1>5, <1>6 DEF Next, vars

(* invalidatePathChecked: what becomes invalid has no valid referrer. *)
LEMMA DeleteUnreferenced ==
    ASSUME NEW n \in Name, Delete(n), NEW p \in valid \ valid'
    PROVE  n = Obj(p) /\ Referrers(p) = {} /\ n \notin dead
<1>1. ~InUse(n) /\ n = Obj(p) /\ n \notin dead
    BY DEF Delete
<1>2. HashPart(n) = p
    BY <1>1 DEF Obj, HashPart
<1> QED
    BY <1>1, <1>2 DEF InUse

(* Both transactions keep the references of valid paths valid. *)
LEMMA StoreStep == InOperation /\ SoundStore /\ [Next]_vars => SoundStore'
<1> SUFFICES ASSUME InOperation, SoundStore, [Next]_vars, valid' # valid PROVE SoundStore'
    BY DEF SoundStore, ClosureInvariant
<1>1. CASE \E c \in Client : RegisterValidPath(c)
    BY <1>1 DEF RegisterValidPath, InOperation, SoundStore, ClosureInvariant
<1>2. CASE \E n \in Name : Delete(n)
    <2>1. PICK n \in Name : Delete(n)
        BY <1>2
    <2>2. valid' \subseteq valid
        BY <2>1 DEF Delete
    <2>3. ASSUME NEW q \in valid', NEW p \in References[q], p \notin valid' PROVE FALSE
        <3>1. q \in valid /\ p \in valid
            BY <2>2, <2>3 DEF SoundStore, ClosureInvariant
        <3> QED
            BY <2>1, <2>3, <3>1, DeleteUnreferenced DEF Referrers
    <2> QED
        BY <2>2, <2>3 DEF SoundStore, ClosureInvariant
<1> QED
    BY <1>1, <1>2, ValidChanges

(* The store starts out closed, with its clients idle. *)
LEMMA InitStore == Init => InOperation /\ SoundStore
BY InitAssumption DEF Init, InOperation, SoundStore, ClosureInvariant, NoOp

(***************************************************************************)
(* Every valid path has its references valid, for every store graph and    *)
(* any number of clients and collections: registerValidPaths and           *)
(* invalidatePathChecked each check, in one transaction, what the other    *)
(* could break.                                                            *)
(***************************************************************************)
THEOREM StoreIsClosed == Spec => []ClosureInvariant
<1>1. SoundStore => ClosureInvariant
    BY DEF SoundStore
<1> QED
    BY InitStore, ClientInOperation, StoreStep, <1>1, PTL DEF Spec

-----------------------------------------------------------------------------
(***************************************************************************)
(* Why a root is not deleted: every name that deleteReferrersClosure has   *)
(* taken from its queue, and every name it has declared dead, is not among *)
(* the roots.                                                              *)
(***************************************************************************)
NoRootPopped ==
    /\ \A n \in roots : n = Obj(HashPart(n))
    /\ dead \cap roots = {}
    /\ (visited \ todo) \cap roots = {}
    /\ gpc \in {"delete", "unlink"} => todo = {}
    /\ gpc \notin {"pop", "visit", "delete", "unlink"} => visited = {}
    /\ gpc \notin Marking \cup {"shutdown"} => dead = {}

(* The walk to the referrers ends at a root instead of popping it. *)
LEMMA RootsStep == NoRootPopped /\ [Next]_vars => NoRootPopped'
<1> SUFFICES ASSUME NoRootPopped, [Next]_vars PROVE NoRootPopped'
    OBVIOUS
<1> USE DEF Marking
<1>1. ASSUME UNCHANGED <<gpc, roots, dead, visited, todo>> PROVE NoRootPopped'
    BY <1>1 DEF NoRootPopped
<1>2. CASE CrashGC \/ UnlockGC
    BY <1>2 DEF CrashGC, UnlockGC, Forget, NoRootPopped
<1>3. CASE InterruptGC
    BY <1>3 DEF InterruptGC, NoRootPopped, found, marks
<1>4. ASSUME NEW o \in GCOptions, CollectGarbage(o) PROVE NoRootPopped'
    BY <1>4 DEF CollectGarbage, NoRootPopped, found, closure, marks
<1>5. CASE LockGC \/ StartServer \/ UnlinkStale \/ Finish
    BY <1>5 DEF LockGC, StartServer, UnlinkStale, Finish, NoRootPopped, found, closure, marks
<1>6. CASE FindRootsNoTemp \/ ListEntries \/ \E P \in Process : FindTempRoots(P)
    <2>1. CASE FindRootsNoTemp
        <3>1. \A n \in roots' : n = Obj(HashPart(n))
            BY <2>1 DEF FindRootsNoTemp, Obj, HashPart
        <3> QED
            BY <2>1, <3>1 DEF FindRootsNoTemp, NoRootPopped, closure, marks
    <2>2. CASE ListEntries
        BY <2>2 DEF ListEntries, NoRootPopped, found, closure, marks
    <2>3. ASSUME NEW P \in Process, FindTempRoots(P) PROVE NoRootPopped'
        <3>1. \A n \in roots' : n = Obj(HashPart(n))
            BY <2>3 DEF FindTempRoots, NoRootPopped, Obj, HashPart
        <3> QED
            BY <2>3, <3>1 DEF FindTempRoots, NoRootPopped, closure, marks
    <2> QED
        BY <1>6, <2>1, <2>2, <2>3
<1>7. ASSUME NEW n \in Name, NextEntry(n) PROVE NoRootPopped'
    BY <1>7 DEF NextEntry, NoRootPopped, found, marks
<1>8. ASSUME NEW n \in Name, Pop(n) PROVE NoRootPopped'
    BY <1>8 DEF Pop, PopAlive, PopDead, PopRoot, PopPending, EndClosure, NoRootPopped, found
<1>9. ASSUME NEW n \in Name, Delete(n) PROVE NoRootPopped'
    BY <1>9 DEF Delete, NoRootPopped, found
<1>10. CASE Visit
    BY <1>10 DEF Visit, NoRootPopped, found
<1>11. CASE TopoSort
    BY <1>11 DEF TopoSort, NoRootPopped, found, marks
<1>12. CASE DeleteFromStore \/ AllDeleted
    BY <1>12 DEF DeleteFromStore, AllDeleted, EndClosure, NoRootPopped, found
<1>13. ASSUME NEW c \in Client, ClientStep(c) PROVE NoRootPopped'
    BY <1>1, <1>13 DEF ClientStep, TryGCLock, Connect, Send, ReceiveAck, Disconnected,
       WriteTempRoot, MakeSymlink, IsValid, LockPath, Recheck, Restore,
       RegisterValidPath, UnlockPath, collector, found, closure, marks
<1>14. ASSUME NEW P \in Process, ServerStep(P) \/ EndProcess(P) PROVE NoRootPopped'
    BY <1>1, <1>14 DEF ServerStep, ReadRoot, Wakeup, WriteAck, CloseConnection, EndProcess,
       collector, found, closure, marks
<1>15. ASSUME NEW c \in Client, NEW p \in Path,
              AddToStore(c, p) \/ AddPermRoot(c, p) \/ RemoveRoot(p)
       PROVE  NoRootPopped'
    BY <1>1, <1>15 DEF AddToStore, AddPermRoot, Begin, RemoveRoot, collector, found, closure, marks
<1>16. ASSUME NEW p \in Path, RemoveRoot(p) PROVE NoRootPopped'
    BY <1>1, <1>16 DEF RemoveRoot, collector, found, closure, marks
<1>17. CASE CollectorStep
    BY <1>2, <1>5, <1>6, <1>7, <1>8, <1>9, <1>10, <1>11, <1>12, <1>17 DEF CollectorStep
<1>18. CASE UNCHANGED vars
    BY <1>1, <1>18 DEF vars, collector, found, closure, marks
<1> QED
    BY <1>2, <1>3, <1>4, <1>13, <1>14, <1>15, <1>16, <1>17, <1>18 DEF Next

(* No collection is running at first. *)
LEMMA InitRoots == Init => NoRootPopped
BY DEF Init, NoRootPopped

(* What a root needs is not what invalidatePathChecked lets through. *)
LEMMA InvalidatedNotNeeded ==
    ASSUME InOperation, SoundStore, NoRootPopped, [Next]_vars, NEW p \in valid \ valid'
    PROVE  p \notin Needed({HashPart(n) : n \in roots})
<1>1. PICK n \in Name : Delete(n)
    BY ValidChanges DEF RegisterValidPath
<1>2. n = Obj(p) /\ Referrers(p) = {}
    BY <1>1, DeleteUnreferenced
<1>3. n \notin roots
    BY <1>1 DEF Delete, NoRootPopped
<1>4. p \notin {HashPart(m) : m \in roots}
    BY <1>2, <1>3 DEF NoRootPopped
<1>5. \A q \in valid \ {p} : References[q] \subseteq valid \ {p}
    BY <1>2 DEF Referrers, SoundStore, ClosureInvariant
<1> QED
    BY <1>4, <1>5 DEF Needed

(***************************************************************************)
(* The collector never invalidates what a root that it has found needs,    *)
(* for every store graph, any number of clients, collections and failures, *)
(* and with all of collectGarbage's options.                               *)
(***************************************************************************)
THEOREM FoundRootsAreKept == Spec => FoundRootsKept
<1>1. InOperation /\ SoundStore /\ NoRootPopped /\ [Next]_vars
          => [(valid \ valid') \cap Needed({HashPart(n) : n \in roots}) = {}]_vars
    BY InvalidatedNotNeeded
<1> QED
    BY InitStore, InitRoots, ClientInOperation, StoreStep, RootsStep, <1>1, PTL
    DEF Spec, FoundRootsKept
=============================================================================
