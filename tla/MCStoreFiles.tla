---------------------------- MODULE MCStoreFiles ----------------------------
(* Instances of StoreFiles for TLC. *)
EXTENDS StoreFiles

CONSTANTS t1, t2, P1, P2

(* Two threads of one process, or of two; two store objects of one process. *)
Together == [t \in Thread |-> P1]
OneEach == [t \in Thread |-> IF t = t1 THEN P1 ELSE P2]
OnePid == [P \in Process |-> 8]

RootsSettings == [jobs : {{"roots", "close"}}, link : {None}, maxGC : {2}]
DirSettings == [jobs : {{"dir"}}, link : {None}, maxGC : {2}]
SomeSettings ==
    RootsSettings \cup DirSettings
    \cup [jobs : {{"path", "store"}}, link : {None, 1, 3, 4}, maxGC : {1}]
=============================================================================
