-------------------------- MODULE OpenStoreProofs ---------------------------
(***************************************************************************)
(* Proofs about OpenStore, for any number of processes and openings, with  *)
(* crashes at every step.                                                  *)
(***************************************************************************)
EXTENDS OpenStore, TLAPS

Version == 7..nixSchemaVersion

(* Who uses the store has the big lock, and who has altered it has it       *)
(* exclusively until it gives it up.                                        *)
HoldersHaveLock ==
    \A p \in Process :
        /\ pc[p] \in Holding /\ p \notin ReadOnly => p \in sharers \/ writer = p
        /\ pc[p] \in {"recheck", "alter", "toShared"} => writer = p
        /\ writer = p => pc[p] \in {"recheck", "alter", "truncate", "write", "toShared"}

(* What the schema file and the processes that have read it know of the     *)
(* tables.                                                                  *)
SchemaKnown ==
    /\ schema \in Version => 7..schema \subseteq db
    /\ schema = Absent => atFirst = Absent
    /\ atFirst = Absent => db \in {{}, Version}

PassedOn ==
    \A p \in Process :
        /\ pc[p] = "createDB" => atFirst = Absent
        /\ pc[p] \in {"upgrade", "waitExclusive", "recheck"} => schema \in {Empty} \cup Version
        /\ pc[p] = "alter" => curSchema[p] \in Version /\ 7..curSchema[p] \subseteq db
        /\ pc[p] \in {"truncate", "write", "toShared", "waitAgain", "openDB", "prepare", "open"} =>
            db = Version

OpenInv == OpenTypeOK /\ HoldersHaveLock /\ SchemaKnown /\ PassedOn

-----------------------------------------------------------------------------
(* Without crashes, in a store that has tables: a schema file is empty only *)
(* while a writer is about to write it, and the tables are those of the     *)
(* file unless a writer is at work.                                         *)
Working == {"alter", "truncate", "write"}

OldStore ==
    /\ schema \in {Empty} \cup Version
    /\ schema = Empty => \E p \in Process : writer = p /\ pc[p] = "write"
    /\ (\A p \in Process : pc[p] \in Working => writer # p) => db = 7..schema
    /\ \A p \in Process :
        /\ pc[p] \in Working => writer = p
        /\ pc[p] = "alter" => db = 7..curSchema[p]
        /\ p \notin ReadOnly => pc[p] # "failed"

OldStoreInv == ~ crashed /\ atFirst \in Version => OldStore

-----------------------------------------------------------------------------
(* The invariant holds of every store that may be there at first,          *)
LEMMA InitOpenInv == OpenInit => OpenInv
<1> SUFFICES ASSUME OpenInit PROVE OpenInv
    OBVIOUS
<1> USE OpenAssumption DEF OpenInit, nixSchemaVersion, Absent, Empty, Version
<1>0. PICK s \in Stores : schema = s.schema /\ db = s.db
    OBVIOUS
<1>1. OpenTypeOK
  <2>1. /\ pc \in [Process -> Holding \cup Waiting \cup {"closed", "failed"}]
        /\ curSchema \in [Process -> {Empty} \cup 0..nixSchemaVersion] /\ opens \in [Process -> 0..MaxOpens]
    OBVIOUS
  <2>2. schema \in {Absent} \cup 5..(nixSchemaVersion + 1) /\ db \subseteq 7..nixSchemaVersion
    BY <1>0
  <2> QED
    BY <2>1, <2>2 DEF OpenTypeOK
<1>2. HoldersHaveLock
    BY DEF HoldersHaveLock, Holding
<1>3. SchemaKnown
    BY <1>0 DEF SchemaKnown
<1>4. PassedOn
    BY DEF PassedOn
<1> QED
    BY <1>1, <1>2, <1>3, <1>4 DEF OpenInv

(* The end of a process, by itself, with an exception or by a crash. *)
LEMMA EndsOpenInv ==
    ASSUME OpenInv, NEW p \in Process, NEW l \in {"closed", "failed"}, Ends(p, l),
           UNCHANGED <<opens, schema, db, atFirst>>, crashed' \in BOOLEAN
    PROVE  OpenInv'
<1> USE DEF Ends, Release, Goes, Holding, Waiting
<1>0. OpenTypeOK /\ HoldersHaveLock /\ SchemaKnown /\ PassedOn
    BY DEF OpenInv
<1>1. OpenTypeOK'
    BY <1>0 DEF OpenTypeOK, nixSchemaVersion
<1>2. HoldersHaveLock'
    BY <1>0, OpenAssumption DEF OpenTypeOK, HoldersHaveLock
<1>3. SchemaKnown'
    BY <1>0 DEF SchemaKnown
<1>4. PassedOn'
    BY <1>0 DEF OpenTypeOK, PassedOn
<1> QED
    BY <1>1, <1>2, <1>3, <1>4 DEF OpenInv

(* and every step of opening the store keeps it. *)
LEMMA NextOpenInv == OpenInv /\ [OpenNext]_openVars => OpenInv'
<1> SUFFICES ASSUME OpenInv, [OpenNext]_openVars PROVE OpenInv'
    OBVIOUS
<1> USE OpenAssumption DEF nixSchemaVersion, Absent, Empty, Version, Holding, Waiting
<1>0. OpenTypeOK /\ HoldersHaveLock /\ SchemaKnown /\ PassedOn
    BY DEF OpenInv
<1>1. CASE UNCHANGED openVars
    BY <1>0, <1>1 DEF openVars, OpenInv, OpenTypeOK, HoldersHaveLock, SchemaKnown, PassedOn
<1>2. ASSUME NEW p \in Process, LocalStore(p) \/ Step(p) \/ Crash(p) PROVE OpenInv'
  <2>1. CASE LocalStore(p)
    <3>1. OpenTypeOK'
        BY <1>0, <2>1 DEF OpenTypeOK, HoldersHaveLock, PassedOn, LocalStore, CanShare, Share, Goes
    <3>2. HoldersHaveLock'
        BY <1>0, <2>1 DEF OpenTypeOK, HoldersHaveLock, LocalStore, CanShare, Share, Goes
    <3>3. SchemaKnown'
        BY <1>0, <2>1 DEF OpenTypeOK, SchemaKnown, PassedOn, LocalStore, CanShare, Share, Goes
    <3>4. PassedOn'
        BY <1>0, <2>1 DEF OpenTypeOK, SchemaKnown, PassedOn, LocalStore, CanShare, Share, Goes
    <3> QED
        BY <3>1, <3>2, <3>3, <3>4 DEF OpenInv
  <2>2. CASE LockShared(p)
    <3>1. OpenTypeOK'
        BY <1>0, <2>2 DEF OpenTypeOK, HoldersHaveLock, PassedOn, LockShared, CanShare, Share, Goes
    <3>2. HoldersHaveLock'
        BY <1>0, <2>2 DEF OpenTypeOK, HoldersHaveLock, LockShared, CanShare, Share, Goes
    <3>3. SchemaKnown'
        BY <1>0, <2>2 DEF OpenTypeOK, SchemaKnown, PassedOn, LockShared, CanShare, Share, Goes
    <3>4. PassedOn'
        BY <1>0, <2>2 DEF OpenTypeOK, SchemaKnown, PassedOn, LockShared, CanShare, Share, Goes
    <3> QED
        BY <3>1, <3>2, <3>3, <3>4 DEF OpenInv
  <2>3. CASE GetSchema(p)
    <3>1. CASE Ends(p, "failed")
        BY <1>0, <2>3, <3>1, EndsOpenInv DEF GetSchema, OpenTypeOK
    <3>2. CASE ~ Ends(p, "failed")
      <4>1. /\ Reads \in {0} \cup Version /\ curSchema' = [curSchema EXCEPT ![p] = Reads]
            /\ Goes(p, CASE Reads = 0 -> "createDB" [] Reads \in 7..9 -> "upgrade" [] OTHER -> "openDB")
            /\ pc[p] = "getSchema" /\ UNCHANGED <<opens, sharers, writer, schema, db, crashed, atFirst>>
        BY <1>0, <2>3, <3>2 DEF GetSchema, Reads, OpenTypeOK
      <4>2. CASE Reads = 0
        <5>1. schema = Absent
            BY <1>0, <4>2 DEF Reads, OpenTypeOK
        <5>2. pc' = [pc EXCEPT ![p] = "createDB"]
            BY <4>1, <4>2 DEF Goes
        <5> QED
            BY <1>0, <4>1, <4>2, <5>1, <5>2 DEF OpenInv, OpenTypeOK, HoldersHaveLock, SchemaKnown, PassedOn
      <4>3. CASE Reads \in 7..9
        <5>1. schema \in Version
            BY <1>0, <4>3 DEF Reads, OpenTypeOK
        <5>2. pc' = [pc EXCEPT ![p] = "upgrade"]
          <6>1. Reads # 0
            BY <4>3
          <6>2. (CASE Reads = 0 -> "createDB" [] Reads \in 7..9 -> "upgrade" [] OTHER -> "openDB") = "upgrade"
            BY <4>3, <6>1
          <6> QED
            BY <4>1, <6>2 DEF Goes
        <5> QED
            BY <1>0, <4>1, <4>3, <5>1, <5>2 DEF OpenInv, OpenTypeOK, HoldersHaveLock, SchemaKnown, PassedOn
      <4>4. CASE Reads = 10
        <5>1. schema = 10
            BY <1>0, <4>4 DEF Reads, OpenTypeOK
        <5>2. pc' = [pc EXCEPT ![p] = "openDB"]
            BY <4>1, <4>4 DEF Goes
        <5>3. db = Version
          <6>1. 7..10 \subseteq db
            BY <1>0, <5>1 DEF SchemaKnown
          <6>2. db \subseteq 7..10
            BY <1>0 DEF OpenTypeOK
          <6> QED
            BY <6>1, <6>2
        <5> QED
            BY <1>0, <4>1, <4>4, <5>1, <5>2, <5>3 DEF OpenInv, OpenTypeOK, HoldersHaveLock, SchemaKnown, PassedOn
      <4> QED
        BY <4>1, <4>2, <4>3, <4>4
    <3> QED
        BY <3>1, <3>2
  <2>4. CASE CreateDB(p)
    <3>1. OpenTypeOK'
        BY <1>0, <2>4 DEF OpenTypeOK, HoldersHaveLock, PassedOn, CreateDB, Goes
    <3>2. HoldersHaveLock'
        BY <1>0, <2>4 DEF OpenTypeOK, HoldersHaveLock, CreateDB, Goes
    <3>3. SchemaKnown'
        BY <1>0, <2>4 DEF OpenTypeOK, SchemaKnown, PassedOn, CreateDB, Goes
    <3>4. PassedOn'
        BY <1>0, <2>4 DEF OpenTypeOK, SchemaKnown, PassedOn, CreateDB, Goes
    <3> QED
        BY <3>1, <3>2, <3>3, <3>4 DEF OpenInv
  <2>5. CASE TruncateSchema(p)
    <3>1. OpenTypeOK'
        BY <1>0, <2>5 DEF OpenTypeOK, HoldersHaveLock, PassedOn, TruncateSchema, Goes
    <3>2. HoldersHaveLock'
        BY <1>0, <2>5 DEF OpenTypeOK, HoldersHaveLock, TruncateSchema, Goes
    <3>3. SchemaKnown'
        BY <1>0, <2>5 DEF OpenTypeOK, SchemaKnown, PassedOn, TruncateSchema, Goes
    <3>4. PassedOn'
        BY <1>0, <2>5 DEF OpenTypeOK, SchemaKnown, PassedOn, TruncateSchema, Goes
    <3> QED
        BY <3>1, <3>2, <3>3, <3>4 DEF OpenInv
  <2>6. CASE WriteSchema(p)
    <3>1. OpenTypeOK'
        BY <1>0, <2>6 DEF OpenTypeOK, HoldersHaveLock, PassedOn, WriteSchema, Goes
    <3>2. HoldersHaveLock'
        BY <1>0, <2>6 DEF OpenTypeOK, HoldersHaveLock, WriteSchema, Goes
    <3>3. SchemaKnown'
        BY <1>0, <2>6 DEF OpenTypeOK, SchemaKnown, PassedOn, WriteSchema, Goes
    <3>4. PassedOn'
        BY <1>0, <2>6 DEF OpenTypeOK, SchemaKnown, PassedOn, WriteSchema, Goes
    <3> QED
        BY <3>1, <3>2, <3>3, <3>4 DEF OpenInv
  <2>7. CASE UpgradeLock(p)
    <3>1. OpenTypeOK'
        BY <1>0, <2>7 DEF OpenTypeOK, HoldersHaveLock, PassedOn, UpgradeLock, CanWrite, Goes
    <3>2. HoldersHaveLock'
        BY <1>0, <2>7 DEF OpenTypeOK, HoldersHaveLock, UpgradeLock, CanWrite, Goes
    <3>3. SchemaKnown'
        BY <1>0, <2>7 DEF OpenTypeOK, SchemaKnown, PassedOn, UpgradeLock, CanWrite, Goes
    <3>4. PassedOn'
        BY <1>0, <2>7 DEF OpenTypeOK, SchemaKnown, PassedOn, UpgradeLock, CanWrite, Goes
    <3> QED
        BY <3>1, <3>2, <3>3, <3>4 DEF OpenInv
  <2>8. CASE LockExclusive(p)
    <3>1. OpenTypeOK'
        BY <1>0, <2>8 DEF OpenTypeOK, HoldersHaveLock, PassedOn, LockExclusive, CanWrite, Goes
    <3>2. HoldersHaveLock'
        BY <1>0, <2>8 DEF OpenTypeOK, HoldersHaveLock, LockExclusive, CanWrite, Goes
    <3>3. SchemaKnown'
        BY <1>0, <2>8 DEF OpenTypeOK, SchemaKnown, PassedOn, LockExclusive, CanWrite, Goes
    <3>4. PassedOn'
        BY <1>0, <2>8 DEF OpenTypeOK, SchemaKnown, PassedOn, LockExclusive, CanWrite, Goes
    <3> QED
        BY <3>1, <3>2, <3>3, <3>4 DEF OpenInv
  <2>9. CASE Recheck(p)
    <3>1. CASE Ends(p, "failed")
        BY <1>0, <2>9, <3>1, EndsOpenInv DEF Recheck, OpenTypeOK
    <3>2. CASE ~ Ends(p, "failed")
      <4>1. /\ schema \in Version /\ 7..schema \subseteq db /\ pc[p] = "recheck"
            /\ curSchema' = [curSchema EXCEPT ![p] = schema] /\ pc' = [pc EXCEPT ![p] = "alter"]
            /\ UNCHANGED <<opens, sharers, writer, schema, db, crashed, atFirst>>
        BY <1>0, <2>9, <3>2 DEF Recheck, Reads, OpenTypeOK, Goes, SchemaKnown, PassedOn
      <4> QED
        BY <1>0, <4>1 DEF OpenInv, OpenTypeOK, HoldersHaveLock, SchemaKnown, PassedOn
    <3> QED
        BY <3>1, <3>2
  <2>10. CASE Alter(p)
    <3> DEFINE v == curSchema[p] + 1
    <3>0. pc[p] = "alter" /\ curSchema[p] \in Version /\ 7..curSchema[p] \subseteq db
        BY <1>0, <2>10 DEF Alter, PassedOn
    <3>1. CASE v \notin 8..10
      <4>0. curSchema[p] = 10
        BY <3>0, <3>1
      <4>1. /\ pc' = [pc EXCEPT ![p] = "truncate"]
            /\ UNCHANGED <<curSchema, opens, sharers, writer, schema, db, crashed, atFirst>>
        BY <2>10, <3>1 DEF Alter, Upgrades, Goes
      <4>2. db = Version
        BY <1>0, <3>0, <4>0 DEF OpenTypeOK
      <4> QED
        BY <1>0, <3>0, <4>1, <4>2 DEF OpenInv, OpenTypeOK, HoldersHaveLock, SchemaKnown, PassedOn
    <3>2. CASE v \in 8..10 /\ v \in db
        BY <1>0, <2>10, <3>2, EndsOpenInv DEF Alter, Upgrades, OpenTypeOK
    <3>3. CASE v \in 8..10 /\ v \notin db
      <4>1. /\ db' = db \cup {v} /\ curSchema' = [curSchema EXCEPT ![p] = v]
            /\ UNCHANGED <<pc, opens, sharers, writer, schema, crashed, atFirst>>
        BY <2>10, <3>3 DEF Alter, Upgrades
      <4>2. 7..v \subseteq db' /\ db \subseteq db' /\ db' \subseteq Version /\ db \notin {{}, Version}
        <5>1. db \subseteq db' /\ db' \subseteq Version
          <6>1. db \subseteq Version /\ v \in Version
            BY <1>0, <3>3 DEF OpenTypeOK
          <6> HIDE DEF v, Version
          <6> QED
            BY <4>1, <6>1
        <5>2. 7 \in db /\ db # {} /\ db # Version
            BY <3>0, <3>3
        <5>3. ASSUME NEW n \in 7..v PROVE n \in db'
            BY <3>0, <3>3, <4>1
        <5> QED
            BY <5>1, <5>2, <5>3
      <4>3. OpenTypeOK'
        BY <1>0, <3>3, <4>1, <4>2 DEF OpenTypeOK
      <4>4. HoldersHaveLock' /\ SchemaKnown'
        BY <1>0, <4>1, <4>2 DEF HoldersHaveLock, SchemaKnown
      <4>5. PassedOn'
        BY <1>0, <3>3, <4>1, <4>2 DEF OpenTypeOK, PassedOn
      <4> QED
        BY <4>3, <4>4, <4>5 DEF OpenInv
    <3> QED
        BY <3>1, <3>2, <3>3
  <2>11. CASE ToShared(p)
    <3>1. OpenTypeOK'
        BY <1>0, <2>11 DEF OpenTypeOK, HoldersHaveLock, PassedOn, ToShared, Share, Release, Goes
    <3>2. HoldersHaveLock'
        BY <1>0, <2>11 DEF OpenTypeOK, HoldersHaveLock, ToShared, Share, Release, Goes
    <3>3. SchemaKnown'
        BY <1>0, <2>11 DEF OpenTypeOK, SchemaKnown, PassedOn, ToShared, Share, Release, Goes
    <3>4. PassedOn'
        BY <1>0, <2>11 DEF OpenTypeOK, SchemaKnown, PassedOn, ToShared, Share, Release, Goes
    <3> QED
        BY <3>1, <3>2, <3>3, <3>4 DEF OpenInv
  <2>12. CASE LockAgain(p)
    <3>1. OpenTypeOK'
        BY <1>0, <2>12 DEF OpenTypeOK, HoldersHaveLock, PassedOn, LockAgain, CanShare, Share, Goes
    <3>2. HoldersHaveLock'
        BY <1>0, <2>12 DEF OpenTypeOK, HoldersHaveLock, LockAgain, CanShare, Share, Goes
    <3>3. SchemaKnown'
        BY <1>0, <2>12 DEF OpenTypeOK, SchemaKnown, PassedOn, LockAgain, CanShare, Share, Goes
    <3>4. PassedOn'
        BY <1>0, <2>12 DEF OpenTypeOK, SchemaKnown, PassedOn, LockAgain, CanShare, Share, Goes
    <3> QED
        BY <3>1, <3>2, <3>3, <3>4 DEF OpenInv
  <2>13. CASE OpenDB(p)
    <3>1. OpenTypeOK'
        BY <1>0, <2>13 DEF OpenTypeOK, HoldersHaveLock, PassedOn, OpenDB, Goes
    <3>2. HoldersHaveLock'
        BY <1>0, <2>13 DEF OpenTypeOK, HoldersHaveLock, OpenDB, Goes
    <3>3. SchemaKnown'
        BY <1>0, <2>13 DEF OpenTypeOK, SchemaKnown, PassedOn, OpenDB, Goes
    <3>4. PassedOn'
        BY <1>0, <2>13 DEF OpenTypeOK, SchemaKnown, PassedOn, OpenDB, Goes
    <3> QED
        BY <3>1, <3>2, <3>3, <3>4 DEF OpenInv
  <2>14. CASE PrepareStatements(p)
    <3>1. CASE Ends(p, "failed")
        BY <1>0, <2>14, <3>1, EndsOpenInv DEF PrepareStatements, OpenTypeOK
    <3>2. CASE ~ Ends(p, "failed")
      <4>1. /\ pc[p] = "prepare" /\ pc' = [pc EXCEPT ![p] = "open"]
            /\ UNCHANGED <<curSchema, opens, sharers, writer, schema, db, crashed, atFirst>>
        BY <2>14, <3>2 DEF PrepareStatements, Goes
      <4> QED
        BY <1>0, <4>1 DEF OpenInv, OpenTypeOK, HoldersHaveLock, SchemaKnown, PassedOn
    <3> QED
        BY <3>1, <3>2
  <2>15. CASE Close(p)
        BY <1>0, <2>15, EndsOpenInv DEF Close, OpenTypeOK
  <2>16. CASE Crash(p)
        BY <1>0, <2>16, EndsOpenInv DEF Crash, OpenTypeOK
  <2> QED
    BY <1>2, <2>1, <2>2, <2>3, <2>4, <2>5, <2>6, <2>7, <2>8, <2>9, <2>10, <2>11, <2>12, <2>13, <2>14, <2>15, <2>16 DEF Step
<1> QED
    BY <1>1, <1>2 DEF OpenNext

-----------------------------------------------------------------------------
(* An old store is first found as its schema file says,                    *)
LEMMA InitOldStore == OpenInit => OldStoreInv
<1> SUFFICES ASSUME OpenInit, atFirst \in Version PROVE OldStore
    BY DEF OldStoreInv
<1> USE OpenAssumption DEF OpenInit, nixSchemaVersion, Absent, Empty, Version
<1>1. PICK s \in Stores : schema = s.schema /\ db = s.db
    OBVIOUS
<1>2. schema \in 7..10 /\ db = 7..schema
    BY <1>1
<1> QED
    BY <1>2 DEF OldStore, Working

(* A process that neither is nor becomes the one at work, and takes or      *)
(* leaves the exclusive lock only if no other process has it.               *)
LEMMA IdleStep ==
    ASSUME OpenTypeOK, OldStore, NEW p \in Process,
           NEW l \in Holding \cup Waiting \cup {"closed", "failed"}, Goes(p, l),
           pc[p] \notin Working, l \notin Working, l = "failed" => p \in ReadOnly,
           writer' = writer \/ (writer \in {NoProcess, p} /\ writer' \in {NoProcess, p}),
           \A q \in Process \ {p} : curSchema'[q] = curSchema[q], UNCHANGED <<schema, db>>
    PROVE  OldStore'
<1> USE OpenAssumption DEF Working, Goes
<1>0. pc'[p] = l /\ \A q \in Process \ {p} : pc'[q] = pc[q]
    BY DEF OpenTypeOK
<1>1. (schema \in {Empty} \cup Version)'
    BY DEF OldStore, Version, nixSchemaVersion
<1>2. ASSUME schema' = Empty PROVE \E q \in Process : writer' = q /\ pc'[q] = "write"
  <2>1. PICK q \in Process : writer = q /\ pc[q] = "write"
    BY <1>2 DEF OldStore
  <2> QED
    BY <2>1, <1>0
<1>3. ASSUME \A q \in Process : pc'[q] \in Working => writer' # q PROVE db' = 7..schema'
  <2>1. ASSUME NEW q \in Process, pc[q] \in Working PROVE writer # q
    BY <1>0, <1>3, <2>1
  <2> QED
    BY <2>1 DEF OldStore
<1>4. ASSUME NEW q \in Process
      PROVE  /\ pc'[q] \in Working => writer' = q
             /\ pc'[q] = "alter" => db' = 7..curSchema'[q]
             /\ q \notin ReadOnly => pc'[q] # "failed"
    BY <1>0 DEF OldStore
<1> QED
    BY <1>1, <1>2, <1>3, <1>4 DEF OldStore

(* and stays so but for the one process that upgrades it. *)
LEMMA NextOldStore == OpenInv /\ OldStoreInv /\ [OpenNext]_openVars => OldStoreInv'
<1> SUFFICES ASSUME OpenInv, OldStoreInv, [OpenNext]_openVars, ~ crashed', atFirst' \in Version
             PROVE  OldStore'
    BY DEF OldStoreInv, Version, nixSchemaVersion
<1> USE OpenAssumption DEF nixSchemaVersion, Absent, Empty, Version, Holding, Waiting, Working
<1>0. OpenTypeOK /\ HoldersHaveLock /\ SchemaKnown /\ PassedOn
    BY DEF OpenInv
<1>1. CASE UNCHANGED openVars
    BY <1>1 DEF openVars, OldStoreInv, OldStore
<1>2. ASSUME NEW p \in Process, LocalStore(p) \/ Step(p) \/ Crash(p) PROVE OldStore'
  <2>0. ~ crashed /\ atFirst \in Version /\ UNCHANGED atFirst
    BY <1>2 DEF LocalStore, Step, Crash, LockShared, GetSchema, CreateDB, TruncateSchema, WriteSchema,
        UpgradeLock, LockExclusive, Recheck, Alter, ToShared, LockAgain, OpenDB, PrepareStatements, Close
  <2>00. OldStore
    BY <2>0 DEF OldStoreInv
  <2>1. CASE LocalStore(p)
    BY <1>0, <2>00, <2>1, IdleStep DEF LocalStore, Share, CanShare, Goes
  <2>2. CASE LockShared(p)
    BY <1>0, <2>00, <2>2, IdleStep DEF LockShared, Share, CanShare
  <2>3. CASE GetSchema(p)
    <3>1. CASE p \in ReadOnly /\ Ends(p, "failed")
        BY <1>0, <2>00, <2>3, <3>1, IdleStep DEF GetSchema, Ends, Release, OpenTypeOK
    <3>2. ASSUME p \notin ReadOnly PROVE schema \in Version
      <4>1. p \in sharers \/ writer = p
        BY <1>0, <2>3, <3>2 DEF GetSchema, HoldersHaveLock
      <4>2. schema # Empty
        BY <1>0, <2>00, <2>3, <4>1 DEF GetSchema, OldStore, OpenTypeOK
      <4> QED
        BY <2>00, <4>2 DEF OldStore
    <3>3. CASE ~ (p \in ReadOnly /\ Ends(p, "failed"))
      <4>1. \E l \in {"createDB", "upgrade", "openDB"} : Goes(p, l)
        BY <2>3, <3>2, <3>3 DEF GetSchema, Reads
      <4>2. /\ UNCHANGED <<sharers, writer, schema, db>> /\ curSchema' = [curSchema EXCEPT ![p] = Reads]
            /\ pc[p] = "getSchema"
        BY <2>3, <3>2, <3>3 DEF GetSchema, Reads
      <4> QED
        BY <1>0, <2>00, <4>1, <4>2, IdleStep DEF OpenTypeOK
    <3> QED
        BY <3>1, <3>3
  <2>4. CASE CreateDB(p)
    BY <1>0, <2>0, <2>4 DEF CreateDB, PassedOn
  <2>5. CASE TruncateSchema(p)
    BY <1>0, <2>00, <2>5 DEF TruncateSchema, Goes, OldStore, OpenTypeOK
  <2>6. CASE WriteSchema(p)
    <3>1. writer = p /\ db = Version
        BY <1>0, <2>00, <2>6 DEF WriteSchema, OldStore, PassedOn
    <3> QED
        BY <1>0, <2>00, <2>6, <3>1 DEF WriteSchema, Goes, OldStore, OpenTypeOK
  <2>7. CASE UpgradeLock(p)
    BY <1>0, <2>00, <2>7, IdleStep DEF UpgradeLock, CanWrite
  <2>8. CASE LockExclusive(p)
    BY <1>0, <2>00, <2>8, IdleStep DEF LockExclusive, CanWrite
  <2>9. CASE Recheck(p)
    <3>1. pc[p] = "recheck" /\ writer = p
        BY <1>0, <2>9 DEF Recheck, HoldersHaveLock
    <3>2. schema \in Version /\ db = 7..schema
        BY <2>00, <3>1 DEF OldStore
    <3>3. /\ curSchema' = [curSchema EXCEPT ![p] = schema] /\ pc' = [pc EXCEPT ![p] = "alter"]
          /\ UNCHANGED <<writer, schema, db>>
        BY <2>9, <3>2 DEF Recheck, Reads, Goes
    <3> QED
        BY <1>0, <2>00, <3>1, <3>2, <3>3 DEF OldStore, OpenTypeOK
  <2>10. CASE Alter(p)
    <3> DEFINE v == curSchema[p] + 1
    <3>1. pc[p] = "alter" /\ writer = p /\ db = 7..curSchema[p] /\ curSchema[p] \in Version
        BY <1>0, <2>00, <2>10 DEF Alter, OldStore, PassedOn
    <3>2. v \notin db
        BY <3>1
    <3>3. CASE v \notin 8..10
      <4>1. pc' = [pc EXCEPT ![p] = "truncate"] /\ UNCHANGED <<curSchema, writer, schema, db>>
        BY <2>10, <3>3 DEF Alter, Upgrades, Goes
      <4> QED
        BY <1>0, <2>00, <3>1, <4>1 DEF OldStore, OpenTypeOK
    <3>4. CASE v \in 8..10
      <4>1. /\ db' = db \cup {v} /\ curSchema' = [curSchema EXCEPT ![p] = v]
            /\ UNCHANGED <<pc, writer, schema>>
        BY <2>10, <3>2, <3>4 DEF Alter, Upgrades
      <4>2. db' = 7..v
        BY <3>1, <3>4, <4>1
      <4> QED
        BY <1>0, <2>00, <3>1, <4>1, <4>2 DEF OldStore, OpenTypeOK
    <3> QED
        BY <3>3, <3>4
  <2>11. CASE ToShared(p)
    BY <1>0, <2>00, <2>11, IdleStep DEF ToShared, Share, Release, HoldersHaveLock
  <2>12. CASE LockAgain(p)
    BY <1>0, <2>00, <2>12, IdleStep DEF LockAgain, Share, CanShare
  <2>13. CASE OpenDB(p)
    BY <1>0, <2>00, <2>13, IdleStep DEF OpenDB
  <2>14. CASE PrepareStatements(p)
    <3>1. Upgrades \ {9} \subseteq db
        BY <1>0, <2>14 DEF PrepareStatements, PassedOn, Upgrades
    <3> QED
        BY <1>0, <2>00, <2>14, <3>1, IdleStep DEF PrepareStatements
  <2>15. CASE Close(p)
    BY <1>0, <2>00, <2>15, IdleStep DEF Close, Ends, Release, OpenTypeOK
  <2>16. CASE Crash(p)
    <3>1. pc[p] = "open"
        BY <2>16 DEF Crash
    <3> QED
        BY <1>0, <2>00, <2>16, <3>1, IdleStep DEF Crash, Ends, Release, OpenTypeOK
  <2> QED
    BY <1>2, <2>1, <2>2, <2>3, <2>4, <2>5, <2>6, <2>7, <2>8, <2>9, <2>10, <2>11, <2>12, <2>13, <2>14,
        <2>15, <2>16 DEF Step
<1> QED
    BY <1>1, <1>2 DEF OpenNext

-----------------------------------------------------------------------------
(* OpenInv and OldStoreInv hold of every reachable state. *)
THEOREM OpenInvariant == OpenSpec => [](OpenInv /\ OldStoreInv)
    BY InitOpenInv, NextOpenInv, InitOldStore, NextOldStore, PTL DEF OpenSpec

(* The big lock: while a process has it exclusively, no other that is not  *)
(* read-only is between its shared lock and the end of its use of the      *)
(* store, for any number of processes.                                     *)
THEOREM UpgradesAreAlone == OpenSpec => []UpgradesAlone
<1>1. OpenInv => UpgradesAlone
    BY OpenAssumption DEF OpenInv, OpenTypeOK, HoldersHaveLock, UpgradesAlone
<1> QED
    BY <1>1, OpenInvariant, PTL

(* initDB writes the schema file only after the tables, wherever it dies. *)
THEOREM SchemaAlwaysDone == OpenSpec => []SchemaIsDone
<1>1. OpenInv => SchemaIsDone
  <2> SUFFICES ASSUME OpenInv, schema = nixSchemaVersion PROVE db = 7..nixSchemaVersion
    BY DEF SchemaIsDone
  <2>1. 7..nixSchemaVersion \subseteq db
    BY DEF OpenInv, SchemaKnown, Version, nixSchemaVersion
  <2> QED
    BY <2>1 DEF OpenInv, OpenTypeOK
<1> QED
    BY <1>1, OpenInvariant, PTL

(* initDB reads the schema again under the exclusive lock, so that, when    *)
(* nobody dies, no process fails to open an old store, however many upgrade *)
(* it at the same time.                                                     *)
THEOREM OldStoresOpen == OpenSpec => []OldStoreOpens
<1>1. OldStoreInv => OldStoreOpens
    BY DEF OldStoreInv, OldStore, OldStoreOpens, Version
<1> QED
    BY <1>1, OpenInvariant, PTL
=============================================================================
