------------------------------- MODULE Daemon -------------------------------
(***************************************************************************)
(* daemonInstance (nix/daemon.cc): the process that the daemon starts for  *)
(* a client opens the local store as any other process does, and then      *)
(* serves the connection.  OpenStore is what the processes do to open the  *)
(* store, RemoteStore what the client and process Instance do; they meet   *)
(* where Instance has opened its store, and where it exits.                *)
(***************************************************************************)
EXTENDS OpenStore, RemoteStore

CONSTANTS
    Instance,
    MaxWithUpgrade  \* commands of the client of a store that is new, or old

(* The daemon opens its store to write. *)
ASSUME InstanceAssumption == Instance \in Process \ ReadOnly
ASSUME BoundAssumption == MaxCommands \in Nat /\ MaxWithUpgrade \in 0..MaxCommands

vars == <<openVars, remoteVars>>

Init ==
    /\ OpenInit /\ RemoteInit /\ opened = FALSE
    /\ commands = IF schema = nixSchemaVersion THEN 0 ELSE MaxCommands - MaxWithUpgrade

(* The values of both parts have their types, and they agree on the store. *)
TypeOK == OpenTypeOK /\ RemoteTypeOK /\ opened = (pc[Instance] = "open")

-----------------------------------------------------------------------------
(* Another process, for itself or for another client.  If the store is      *)
(* current it would only open and close it, and is left out.                *)
Others ==
    /\ atFirst # nixSchemaVersion /\ UNCHANGED remoteVars
    /\ \E p \in Process \ {Instance} : LocalStore(p) \/ Step(p) \/ Crash(p)

(* openUncachedStore: the client waits meanwhile. *)
OpenStep ==
    /\ ~ gone /\ pc[Instance] \notin {"open", "failed"}
    /\ LocalStore(Instance) \/ Step(Instance)
    /\ opened' = (pc'[Instance] = "open")
    /\ UNCHANGED <<client, gone, toDaemon, toClient, daemon, to, tunnel, astray>>

(* The destructor of the store, or an exception of its constructor, or the  *)
(* end of the process wherever it is.                                       *)
Leaves ==
    /\ \/ Close(Instance)
       \/ pc[Instance] = "failed" /\ UNCHANGED openVars
       \/ pc[Instance] # "open" /\ Crash(Instance)
    /\ Exit

Progress ==
    \/ UNCHANGED openVars /\ (Connects \/ Serves \/ \E t \in Task : Works(t))
    \/ UNCHANGED remoteVars /\ \E p \in Process \ {Instance} : Step(p)
    \/ OpenStep
    \/ pc[Instance] \in {"open", "failed"} /\ (hup \/ daemon.pc \in {"magic", "exit"}) /\ Leaves

Next == (UNCHANGED openVars /\ RemoteSteps) \/ Others \/ OpenStep \/ Leaves

Spec == Init /\ [][Next]_vars

(* Processes run, sockets deliver, clients disconnect, and whoever has      *)
(* opened the store for itself closes it: a process that waits for the big  *)
(* lock in order to upgrade does so until the others have closed the store, *)
(* even if one of them has done the upgrade meanwhile.                      *)
FairSpec == Spec /\ WF_vars(Progress)

-----------------------------------------------------------------------------
(* initDB and daemonInstance: what a client asks for is done on tables of   *)
(* this version, and nobody alters them meanwhile.                          *)
ServesCurrentStore ==
    daemon.pc \notin {"magic", "exit"} => writer = NoProcess /\ db = 7..nixSchemaVersion

(* A client gets its connection, or is told that there is none, however the *)
(* process that serves it has to wait to open the store ("release it to     *)
(* prevent deadlocks", initDB), and each of its commands ends.              *)
ClientIsServed == <>(connection \in {"open", "failed"}) /\ CommandsEnd
=============================================================================
