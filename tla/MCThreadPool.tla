---------------------------- MODULE MCThreadPool ----------------------------
(* Instances of ThreadPool for TLC. *)
EXTENDS ThreadPool

CONSTANTS i1, i2, i3

(* i1 enqueues i3. *)
MCChildren == [i \in Item |-> IF i = i1 THEN {i3} ELSE {}]
=============================================================================
