---------------------------- MODULE LockManager ----------------------------
(***************************************************************************)
(* What lix/libstore/pathlocks.hh promises: exclusive locks on paths.      *)
(* A requester acquires locks one at a time, only while nobody holds them, *)
(* and gives up any of them at any moment.  The module has no lock files;  *)
(* PathLocks shows that the protocol on lock files implements it.          *)
(***************************************************************************)
CONSTANTS Proc, Path

VARIABLE holds      \* the paths each requester has locked

Init == holds = [p \in Proc |-> {}]

Acquire(p, x) ==
    /\ \A q \in Proc : x \notin holds[q]
    /\ holds' = [holds EXCEPT ![p] = @ \cup {x}]

Release(p, S) ==
    /\ S \subseteq holds[p]
    /\ holds' = [holds EXCEPT ![p] = @ \ S]

Next == \E p \in Proc :
    \/ \E x \in Path : Acquire(p, x)
    \/ \E S \in SUBSET Path : Release(p, S)

Spec == Init /\ [][Next]_holds
=============================================================================
