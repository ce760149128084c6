---------------------------- MODULE DaemonProofs ----------------------------
(***************************************************************************)
(* Proofs about Daemon: it opens its store as OpenStore says, and what it  *)
(* does for its client is done on a store that it has opened.              *)
(***************************************************************************)
EXTENDS Daemon, OpenStoreProofs

(* The daemon serves only while its store is open, waits for its client's   *)
(* greeting until it is, and does nothing when it has gone.                 *)
ServeInv ==
    /\ opened \in BOOLEAN /\ "pc" \in DOMAIN daemon
    /\ opened <=> pc[Instance] = "open"
    /\ daemon.pc \notin {"magic", "exit"} => opened
    /\ gone => daemon.pc = "exit"
    /\ ~ opened /\ ~ gone => daemon.pc = "magic"

-----------------------------------------------------------------------------
(* A step of the daemon or of its client is a step of OpenStore or none. *)
LEMMA StepIsOpenNext == [Next]_vars => [OpenNext]_openVars
<1> SUFFICES ASSUME [Next]_vars PROVE [OpenNext]_openVars
    OBVIOUS
<1> USE InstanceAssumption
<1>1. CASE UNCHANGED vars \/ (UNCHANGED openVars /\ RemoteSteps)
    BY <1>1 DEF vars
<1>2. CASE Others
    BY <1>2 DEF Others, OpenNext
<1>3. CASE OpenStep
    BY <1>3 DEF OpenStep, OpenNext
<1>4. CASE Leaves
    BY <1>4 DEF Leaves, OpenNext, Step
<1> QED
    BY <1>1, <1>2, <1>3, <1>4 DEF Next

(* openUncachedStore: with the daemon and its client, the processes still   *)
(* open the store as OpenStore says.                                        *)
THEOREM DaemonOpensStore == Spec => OpenSpec
<1>1. Init => OpenInit
    BY DEF Init
<1> QED
    BY <1>1, StepIsOpenNext, PTL DEF Spec, OpenSpec

(* A step of a process leaves the others where they are. *)
LEMMA OnlyItself ==
    ASSUME OpenTypeOK, NEW p \in Process, NEW q \in Process \ {p}, LocalStore(p) \/ Step(p) \/ Crash(p)
    PROVE  pc'[q] = pc[q]
<1>1. UNCHANGED pc \/ \E l \in Holding \cup Waiting \cup {"closed", "failed"} : Goes(p, l)
  <2> USE DEF Holding, Waiting, Ends
  <2>1. CASE LocalStore(p)
    BY <2>1 DEF LocalStore
  <2>2. CASE LockShared(p)
    BY <2>2 DEF LockShared
  <2>3. CASE GetSchema(p)
    <3>1. (CASE Reads = 0 -> "createDB" [] Reads \in 7..9 -> "upgrade" [] OTHER -> "openDB")
            \in {"createDB", "upgrade", "openDB"}
        OBVIOUS
    <3> QED
        BY <2>3, <3>1 DEF GetSchema
  <2>4. CASE CreateDB(p) \/ TruncateSchema(p) \/ WriteSchema(p)
    BY <2>4 DEF CreateDB, TruncateSchema, WriteSchema
  <2>5. CASE UpgradeLock(p) \/ LockExclusive(p) \/ Recheck(p) \/ Alter(p)
    BY <2>5 DEF UpgradeLock, LockExclusive, Recheck, Alter
  <2>6. CASE ToShared(p) \/ LockAgain(p) \/ OpenDB(p) \/ PrepareStatements(p)
    BY <2>6 DEF ToShared, LockAgain, OpenDB, PrepareStatements
  <2>7. CASE Close(p) \/ Crash(p)
    BY <2>7 DEF Close, Crash
  <2> QED
    BY <2>1, <2>2, <2>3, <2>4, <2>5, <2>6, <2>7 DEF Step
<1> QED
    BY <1>1 DEF Goes, OpenTypeOK

(* The daemon has not opened its store at first. *)
LEMMA InitServeInv == Init => ServeInv
<1> SUFFICES ASSUME Init PROVE ServeInv
    OBVIOUS
<1>1. pc[Instance] = "closed"
    BY InstanceAssumption DEF Init, OpenInit
<1>2. daemon = [pc |-> "magic", id |-> 0, kind |-> "none", left |-> 0, source |-> FALSE] /\ ~ gone
    BY DEF Init, RemoteInit
<1>3. opened = FALSE
    BY DEF Init
<1> QED
    BY <1>1, <1>2, <1>3 DEF ServeInv

(* It goes on from the greeting only when it has, and leaves the store and *)
(* its client together.                                                    *)
LEMMA NextServeInv == OpenInv /\ ServeInv /\ [Next]_vars => ServeInv'
<1> SUFFICES ASSUME OpenInv, ServeInv, [Next]_vars PROVE ServeInv'
    OBVIOUS
<1> USE InstanceAssumption
<1>0. OpenTypeOK
    BY DEF OpenInv
<1>1. CASE UNCHANGED vars
    BY <1>1 DEF vars, openVars, remoteVars, ServeInv
<1>2. CASE UNCHANGED openVars /\ RemoteSteps
  <2>1. UNCHANGED <<opened, gone>>
    BY <1>2 DEF RemoteSteps, Connects, Serves, Works, Fails, ParseFails, DumpFails, Log, SendVersion,
        SetOptions, InitDone, InitFails, Disconnect, Flush, Greet, Hello, ReadOp, ReadFrame, StopWork, Dump, Drain,
        BeginCommand, GetConnection, SendCommand, SendFrame, ProcessStderr, Joined, ReadValue, ReadNar,
        SourceFails, DropNar, Cancel
  <2>2. \/ UNCHANGED daemon
        \/ ~ gone /\ opened /\ "pc" \in DOMAIN daemon'
    <3> USE DEF ServeInv, Quiet, Does
    <3>0. CASE ReadFrame
        BY <3>0 DEF ReadFrame
    <3>1. CASE Greet \/ Hello
        BY <3>1 DEF Greet, Hello
    <3>2. CASE ReadOp
      <4> DEFINE m == Head(toDaemon)
      <4>1. daemon.pc = "loop" /\ ~ gone
        BY <3>2 DEF ReadOp
      <4>2. \/ daemon' = [daemon EXCEPT !.pc = "exit", !.id = m.id, !.kind = m.kind]
            \/ daemon' = [pc |-> "work", id |-> m.id, kind |-> m.kind, left |-> Chunks,
                           source |-> FALSE]
        BY <3>2 DEF ReadOp
      <4> HIDE DEF m
      <4>3. CASE daemon' = [daemon EXCEPT !.pc = "exit", !.id = m.id, !.kind = m.kind]
        <5>1. DOMAIN daemon' = DOMAIN daemon
            BY <4>3
        <5> QED
            BY <4>1, <5>1
      <4>4. CASE daemon' = [pc |-> "work", id |-> m.id, kind |-> m.kind, left |-> Chunks,
                             source |-> FALSE]
        <5>1. "pc" \in DOMAIN daemon'
            BY <4>4
        <5> QED
            BY <4>1, <5>1
      <4> QED
        BY <4>2, <4>3, <4>4
    <3>3. CASE StopWork \/ Dump \/ Drain \/ Fails \/ ParseFails \/ DumpFails
        BY <3>3 DEF StopWork, Dump, Drain, Fails, ParseFails, DumpFails
    <3>4. CASE Connects \/ Log \/ Flush
        BY <3>4 DEF Connects, Log, Flush, SendVersion, SetOptions, InitDone, InitFails, Disconnect
    <3>5. ASSUME NEW t \in Task,
                 (\E k \in Kinds : BeginCommand(t, k)) \/ Works(t) \/ SourceFails(t) \/ DropNar(t) \/ Cancel(t)
          PROVE  UNCHANGED daemon
        BY <3>5 DEF BeginCommand, Works, GetConnection, SendCommand, SendFrame, ProcessStderr, Joined,
            ReadValue, ReadNar, SourceFails, DropNar, Cancel
    <3> QED
        BY <1>2, <3>0, <3>1, <3>2, <3>3, <3>4, <3>5 DEF RemoteSteps, Serves
  <2> QED
    BY <1>2, <2>1, <2>2 DEF ServeInv, openVars
<1>3. CASE Others
  <2>1. PICK p \in Process \ {Instance} : LocalStore(p) \/ Step(p) \/ Crash(p)
    BY <1>3 DEF Others
  <2>2. pc'[Instance] = pc[Instance]
    BY <1>0, <2>1, OnlyItself
  <2> QED
    BY <1>3, <2>2 DEF Others, ServeInv, remoteVars
<1>4. CASE OpenStep
    BY <1>4 DEF OpenStep, ServeInv
<1>5. CASE Leaves
  <2>1. pc'[Instance] # "open"
    BY <1>0, <1>5 DEF Leaves, Close, Crash, Ends, Goes, OpenTypeOK, openVars
  <2> QED
    BY <1>5, <2>1 DEF Leaves, Exit, Does, ServeInv
<1> QED
    BY <1>1, <1>2, <1>3, <1>4, <1>5 DEF Next

(* While it opens the store it greets nobody, and a store that is opened or *)
(* given up is what RemoteStore sees of it.                                 *)
LEMMA StepIsRemoteNext == ServeInv /\ [Next]_vars => [RemoteNext]_remoteVars
<1> SUFFICES ASSUME ServeInv, [Next]_vars PROVE [RemoteNext]_remoteVars
    OBVIOUS
<1>1. CASE UNCHANGED vars \/ Others
    BY <1>1 DEF vars, Others
<1>2. CASE UNCHANGED openVars /\ RemoteSteps
    BY <1>2 DEF RemoteNext
<1>3. CASE OpenStep
  <2>1. ~ opened /\ ~ gone /\ daemon.pc = "magic"
    BY <1>3 DEF OpenStep, ServeInv
  <2>2. CASE pc'[Instance] = "open"
    BY <1>3, <2>1, <2>2 DEF OpenStep, OpenUncachedStore, RemoteNext
  <2>3. CASE pc'[Instance] # "open"
    BY <1>3, <2>1, <2>3 DEF OpenStep, ServeInv, remoteVars
  <2> QED
    BY <2>2, <2>3
<1>4. CASE Leaves
    BY <1>4 DEF Leaves, RemoteNext
<1> QED
    BY <1>1, <1>2, <1>3, <1>4 DEF Next

(* daemonInstance: to its client, a process that shares the store with any  *)
(* others, and may have to wait, to upgrade it or to give up, is one that   *)
(* opens its store at some moment or never.                                 *)
THEOREM DaemonServesClient == Spec => RemoteSpec
<1>1. Init => RemoteInit /\ opened = FALSE /\ commands \in 0..MaxCommands
    BY BoundAssumption DEF Init
<1>2. Spec => [](OpenInv /\ OldStoreInv)
    BY DaemonOpensStore, OpenInvariant, PTL
<1> QED
    BY <1>1, <1>2, InitServeInv, NextServeInv, StepIsRemoteNext, PTL DEF Spec, RemoteSpec

(* daemonInstance: whatever a client asks for is done on tables of this    *)
(* version that nobody alters, whichever processes open, upgrade or leave  *)
(* the store meanwhile and whenever they die.                              *)
THEOREM DaemonServesCurrentStore == Spec => []ServesCurrentStore
<1>1. OpenInv /\ ServeInv => ServesCurrentStore
  <2> SUFFICES ASSUME OpenInv, ServeInv, daemon.pc \notin {"magic", "exit"}
               PROVE  writer = NoProcess /\ db = 7..nixSchemaVersion
    BY DEF ServesCurrentStore
  <2>1. pc[Instance] = "open"
    BY DEF ServeInv
  <2>2. db = 7..nixSchemaVersion
    BY <2>1, InstanceAssumption DEF OpenInv, PassedOn, Version
  <2>3. Instance \in sharers
    BY <2>1, InstanceAssumption DEF OpenInv, HoldersHaveLock, Holding
  <2> QED
    BY <2>2, <2>3 DEF OpenInv, OpenTypeOK
<1>2. Spec => [](OpenInv /\ OldStoreInv)
    BY DaemonOpensStore, OpenInvariant, PTL
<1> QED
    BY <1>1, <1>2, InitServeInv, NextServeInv, PTL DEF Spec
=============================================================================
