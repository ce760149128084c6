------------------------- MODULE MCGarbageCollector -------------------------
(* Instances of GarbageCollector for TLC. *)
EXTENDS GarbageCollector, TLC

CONSTANTS a, b, d, c1, c2, P1, P2

(* Store graphs: no references; b needs a; output a of derivation d. *)
Flat == [p \in Path |-> {}]
BNeedsA == [p \in Path |-> IF p = b THEN {a} ELSE {}]
NoDeriver == [p \in Path |-> None]
DerivesA == [p \in Path |-> IF p = a THEN d ELSE None]

(* A process per thread, or two threads in one process. *)
OneEach == [c \in Client |-> IF c = c1 THEN P1 ELSE P2]
Together == [c \in Client |-> P1]

Options(act, S, ign, max) == [action |-> act, paths |-> S, ignoreLiveness |-> ign, maxFreed |-> max]
NoLimit == 1000
DeleteDead == {Options("DeleteDead", {}, FALSE, NoLimit)}
DeleteA == {Options("DeleteSpecific", {a}, FALSE, NoLimit)}
IgnoreLivenessA == {Options("DeleteSpecific", {a}, TRUE, NoLimit)}
AllOptions ==
    DeleteDead \cup DeleteA \cup IgnoreLivenessA \cup
    {Options("DeleteDead", {}, FALSE, 0), Options("DeleteDead", {}, FALSE, 1),
     Options("Return", {}, FALSE, NoLimit), Options("TryDeleteSpecific", {a, b}, FALSE, NoLimit)}
=============================================================================
