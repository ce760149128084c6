----------------------------- MODULE OpenStore ------------------------------
(***************************************************************************)
(* Opening a local store: the LocalStore constructor, initDB, getSchema    *)
(* and openDB (local-store.cc), with the big lock, the schema file and the *)
(* upgrade of an old database.  A process may die at every step; what      *)
(* SQLite has committed, and what is in the schema file, stays.            *)
(*                                                                         *)
(* The database is the set of versions whose tables it has: {} is a file   *)
(* without tables, 7 .. n one that was made for, or upgraded to, n.        *)
(***************************************************************************)
EXTENDS Integers, FiniteSets

CONSTANTS
    Process,
    ReadOnly,       \* processes that open the store with read-only
    Stores,         \* what there may be at first: records with schema and db
    MaxOpens,       \* how often a process opens the store
    Crashes         \* processes may die

Absent == -1        \* there is no schema file,
Empty == -2         \* or it has no number in it
nixSchemaVersion == 10
Upgrades == 8..nixSchemaVersion
NoProcess == "none"

(* A store has the tables that its schema file promises, and none without  *)
(* one; versions that are too old or too new may have any.                 *)
ASSUME OpenAssumption ==
    /\ NoProcess \notin Process /\ ReadOnly \subseteq Process
    /\ MaxOpens \in Nat /\ Crashes \in BOOLEAN
    /\ \A s \in Stores :
        /\ s.schema \in {Absent} \cup 5..(nixSchemaVersion + 1)
        /\ s.db \subseteq 7..nixSchemaVersion
        /\ s.schema = Absent => s.db = {}
        /\ s.schema \in 7..nixSchemaVersion => s.db = 7..s.schema

VARIABLES
    pc, curSchema,
    opens,
    sharers, writer,    \* who has the big lock, shared or exclusive
    schema,         \* the schema file
    db,             \* the tables
    crashed,        \* somebody died while opening the store
    atFirst         \* the schema file of the first state

openVars == <<pc, curSchema, opens, sharers, writer, schema, db, crashed, atFirst>>

Holding == {"getSchema", "createDB", "truncate", "write", "upgrade", "recheck", "openDB", "alter",
            "toShared", "prepare", "open"}
Waiting == {"waitShared", "waitExclusive", "waitAgain"}

(* Values have their types; nobody shares the lock with a writer. *)
OpenTypeOK ==
    /\ pc \in [Process -> Holding \cup Waiting \cup {"closed", "failed"}]
    /\ curSchema \in [Process -> {Empty} \cup 0..nixSchemaVersion]
    /\ opens \in [Process -> 0..MaxOpens]
    /\ sharers \subseteq Process /\ writer \in Process \cup {NoProcess}
    /\ writer # NoProcess => sharers = {}
    /\ schema \in {Absent, Empty} \cup 5..(nixSchemaVersion + 1)
    /\ db \subseteq 7..nixSchemaVersion /\ crashed \in BOOLEAN
    /\ atFirst \in {Absent} \cup 5..(nixSchemaVersion + 1)

OpenInit ==
    /\ pc = [p \in Process |-> "closed"] /\ curSchema = [p \in Process |-> 0]
    /\ opens = [p \in Process |-> 0] /\ sharers = {} /\ writer = NoProcess
    /\ \E s \in Stores : schema = s.schema /\ db = s.db
    /\ crashed = FALSE /\ atFirst = schema

-----------------------------------------------------------------------------
Goes(p, l) == pc' = [pc EXCEPT ![p] = l]

(* The lock goes when the descriptor is closed, which an exception does too. *)
Release(p) ==
    /\ sharers' = sharers \ {p}
    /\ writer' = IF writer = p THEN NoProcess ELSE writer
Ends(p, l) == Goes(p, l) /\ Release(p) /\ curSchema' = [curSchema EXCEPT ![p] = 0]

CanShare(p) == writer \in {NoProcess, p}
CanWrite(p) == sharers \subseteq {p} /\ writer \in {NoProcess, p}
Share(p) == sharers' = sharers \cup {p} /\ writer' = IF writer = p THEN NoProcess ELSE writer

(* Mutant: the constructor does not wait for the lock. *)
LocalStoreAtOnce(p) ==
    /\ pc[p] \in {"closed", "failed"} /\ opens[p] < MaxOpens
    /\ opens' = [opens EXCEPT ![p] = @ + 1] /\ Goes(p, "getSchema")
    /\ IF CanShare(p) THEN Share(p) ELSE UNCHANGED <<sharers, writer>>
    /\ UNCHANGED <<curSchema, schema, db, crashed, atFirst>>

(* LocalStore: a shared lock, "to make sure that no schema upgrade is in    *)
(* progress".                                                               *)
LocalStore(p) ==
    /\ pc[p] \in {"closed", "failed"} /\ opens[p] < MaxOpens
    /\ opens' = [opens EXCEPT ![p] = @ + 1]
    /\ IF p \in ReadOnly THEN Goes(p, "getSchema") /\ UNCHANGED <<sharers, writer>>
       ELSE IF CanShare(p) THEN Share(p) /\ Goes(p, "getSchema")
       ELSE Goes(p, "waitShared") /\ UNCHANGED <<sharers, writer>>
    /\ UNCHANGED <<curSchema, schema, db, crashed, atFirst>>

LockShared(p) ==
    /\ pc[p] = "waitShared" /\ CanShare(p) /\ Share(p) /\ Goes(p, "getSchema")
    /\ UNCHANGED <<curSchema, opens, schema, db, crashed, atFirst>>

(* getSchema, which throws if the file has no number. *)
Reads == IF schema = Absent THEN 0 ELSE schema

(* initDB *)
GetSchema(p) ==
    /\ pc[p] = "getSchema"
    /\ IF \/ Reads = Empty \/ Reads > nixSchemaVersion
          \/ p \in ReadOnly /\ Reads < nixSchemaVersion
          \/ Reads \in 1..6
       THEN Ends(p, "failed")
       ELSE /\ curSchema' = [curSchema EXCEPT ![p] = Reads] /\ UNCHANGED <<sharers, writer>>
            /\ Goes(p, CASE Reads = 0 -> "createDB" [] Reads \in 7..9 -> "upgrade" [] OTHER -> "openDB")
    /\ UNCHANGED <<opens, schema, db, crashed, atFirst>>

(* openDB(state, true) makes the tables that are not there. *)
CreateDB(p) ==
    /\ pc[p] = "createDB"
    /\ db' = IF db = {} THEN 7..nixSchemaVersion ELSE db
    /\ curSchema' = [curSchema EXCEPT ![p] = nixSchemaVersion] /\ Goes(p, "truncate")
    /\ UNCHANGED <<opens, sharers, writer, schema, crashed, atFirst>>

(* writeFileAndSync opens with O_TRUNC, then writes. *)
TruncateSchema(p) ==
    /\ pc[p] = "truncate" /\ schema' = Empty /\ Goes(p, "write")
    /\ UNCHANGED <<curSchema, opens, sharers, writer, db, crashed, atFirst>>

WriteSchema(p) ==
    /\ pc[p] = "write" /\ schema' = nixSchemaVersion
    /\ Goes(p, IF writer = p THEN "toShared" ELSE "prepare")
    /\ UNCHANGED <<curSchema, opens, sharers, writer, db, crashed, atFirst>>

(* Mutant: the shared lock is kept while the process waits for the other. *)
UpgradeLockKeeps(p) ==
    /\ pc[p] = "upgrade" /\ UNCHANGED <<curSchema, opens, schema, db, crashed, atFirst>>
    /\ IF CanWrite(p) THEN writer' = p /\ sharers' = sharers \ {p} /\ Goes(p, "recheck")
       ELSE Goes(p, "waitExclusive") /\ UNCHANGED <<sharers, writer>>

(* The exclusive lock at once, or after the shared one was given up. *)
UpgradeLock(p) ==
    /\ pc[p] = "upgrade" /\ sharers' = sharers \ {p}
    /\ IF CanWrite(p) THEN writer' = p /\ Goes(p, "recheck")
       ELSE Goes(p, "waitExclusive") /\ UNCHANGED writer
    /\ UNCHANGED <<curSchema, opens, schema, db, crashed, atFirst>>

LockExclusive(p) ==
    /\ pc[p] = "waitExclusive" /\ CanWrite(p)
    /\ writer' = p /\ sharers' = sharers \ {p} /\ Goes(p, "recheck")
    /\ UNCHANGED <<curSchema, opens, schema, db, crashed, atFirst>>

(* Mutant: what was read before the process waited is used. *)
RecheckNot(p) ==
    /\ pc[p] = "recheck" /\ Goes(p, "alter")
    /\ UNCHANGED <<curSchema, opens, sharers, writer, schema, db, crashed, atFirst>>

(* Another process may have done it. *)
Recheck(p) ==
    /\ pc[p] = "recheck"
    /\ IF Reads = Empty THEN Ends(p, "failed")
       ELSE /\ curSchema' = [curSchema EXCEPT ![p] = Reads] /\ Goes(p, "alter")
            /\ UNCHANGED <<sharers, writer>>
    /\ UNCHANGED <<opens, schema, db, crashed, atFirst>>

(* Mutant: the schema file is written before the tables are altered. *)
AlterLast(p) ==
    /\ pc[p] = "alter" /\ UNCHANGED <<opens, crashed, atFirst>>
    /\ IF schema < nixSchemaVersion
       THEN schema' = nixSchemaVersion /\ UNCHANGED <<pc, curSchema, sharers, writer, db>>
       ELSE /\ db' = 7..nixSchemaVersion /\ Goes(p, "toShared")
            /\ UNCHANGED <<curSchema, sharers, writer, schema>>

(* One transaction for each version.  To add a column, or to drop a table,  *)
(* a second time is an error of SQLite.                                     *)
Alter(p) ==
    /\ pc[p] = "alter"
    /\ LET v == curSchema[p] + 1 IN
       IF v \notin Upgrades
       THEN Goes(p, "truncate") /\ UNCHANGED <<curSchema, sharers, writer, db>>
       ELSE IF v \in db THEN Ends(p, "failed") /\ UNCHANGED db
       ELSE /\ db' = db \cup {v} /\ curSchema' = [curSchema EXCEPT ![p] = v]
            /\ UNCHANGED <<pc, sharers, writer>>
    /\ UNCHANGED <<opens, schema, crashed, atFirst>>

(* flock gives up the exclusive lock before it takes the shared one, so     *)
(* that another process may come between.                                   *)
ToShared(p) ==
    /\ pc[p] = "toShared"
    /\ \/ Share(p) /\ Goes(p, "prepare")
       \/ Release(p) /\ Goes(p, "waitAgain")
    /\ UNCHANGED <<curSchema, opens, schema, db, crashed, atFirst>>

LockAgain(p) ==
    /\ pc[p] = "waitAgain" /\ CanShare(p) /\ Share(p) /\ Goes(p, "prepare")
    /\ UNCHANGED <<curSchema, opens, schema, db, crashed, atFirst>>

(* openDB(state, false) needs a database, prepareStatements its columns. *)
OpenDB(p) ==
    /\ pc[p] = "openDB" /\ Goes(p, "prepare")
    /\ UNCHANGED <<curSchema, opens, sharers, writer, schema, db, crashed, atFirst>>

PrepareStatements(p) ==
    /\ pc[p] = "prepare"
    /\ IF Upgrades \ {9} \subseteq db THEN Goes(p, "open") /\ UNCHANGED <<curSchema, sharers, writer>>
       ELSE Ends(p, "failed")
    /\ UNCHANGED <<opens, schema, db, crashed, atFirst>>

Close(p) ==
    /\ pc[p] = "open" /\ Ends(p, "closed")
    /\ UNCHANGED <<opens, schema, db, crashed, atFirst>>

Crash(p) ==
    /\ Crashes /\ pc[p] \in Holding \cup Waiting /\ Ends(p, "closed")
    /\ crashed' = (crashed \/ pc[p] # "open")
    /\ UNCHANGED <<opens, schema, db, atFirst>>

-----------------------------------------------------------------------------
Step(p) ==
    \/ LockShared(p) \/ GetSchema(p) \/ CreateDB(p) \/ TruncateSchema(p) \/ WriteSchema(p)
    \/ UpgradeLock(p) \/ LockExclusive(p) \/ Recheck(p) \/ Alter(p) \/ ToShared(p) \/ LockAgain(p)
    \/ OpenDB(p) \/ PrepareStatements(p) \/ Close(p)

OpenNext == \E p \in Process : LocalStore(p) \/ Step(p) \/ Crash(p)

OpenSpec == OpenInit /\ [][OpenNext]_openVars

-----------------------------------------------------------------------------
(* The big lock: while a process alters the tables, or writes the schema    *)
(* file of an old store, no other process uses the store or reads the file, *)
(* but for those that opened it read-only, which take no lock.              *)
UpgradesAlone ==
    \A p, q \in Process : p # q /\ writer = p /\ q \notin ReadOnly => pc[q] \notin Holding

(* initDB: the schema file is never ahead of the tables, whenever somebody  *)
(* dies, so that whoever reads nixSchemaVersion can use the database.       *)
SchemaIsDone == schema = nixSchemaVersion => db = 7..nixSchemaVersion

(* The comment on the second getSchema, and the locks: when nobody dies, an *)
(* old store is opened by all who try, read-only ones excepted, in whatever *)
(* order they wait for each other.  (A store that is not there yet is made  *)
(* without an exclusive lock: the schema file may be read when it is empty.) *)
OldStoreOpens ==
    ~ crashed /\ atFirst \in 7..nixSchemaVersion => \A p \in Process \ ReadOnly : pc[p] # "failed"
=============================================================================
