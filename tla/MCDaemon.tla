------------------------------ MODULE MCDaemon ------------------------------
(* Instances of Daemon for TLC. *)
EXTENDS Daemon

CONSTANTS d, p, r, t1, t2

(* Stores that are current or older, not there yet, too old and too new. *)
AllStores ==
    {[schema |-> v, db |-> 7..v] : v \in 7..nixSchemaVersion}
    \cup {[schema |-> Absent, db |-> {}], [schema |-> 6, db |-> {}], [schema |-> 11, db |-> 7..10]}
CurrentStore == {[schema |-> 10, db |-> 7..10]}
=============================================================================
