------------------------ MODULE MCSubstitutionGoals ------------------------
(* Instances of SubstitutionGoals for TLC. *)
EXTENDS SubstitutionGoals

CONSTANTS a, b, c

(* c needs a and b, and b needs a; the second substituter lacks b, and has *)
(* a c that needs a only.                                                  *)
Full == [p \in Path |-> IF p = c THEN {a, b, c} ELSE IF p = b THEN {a} ELSE {}]
Partial == [p \in Path |-> IF p = b THEN None ELSE IF p = c THEN {a} ELSE {}]
MCInfo == <<Full, Partial>>

(* a is valid, and others may collect it; b is not, and others may add it. *)
MCCache == [p \in Path |-> IF p = a THEN "valid" ELSE IF p = b THEN "invalid" ELSE "unknown"]

(* Neither --keep-going nor --fallback is given, or both are. *)
MCSettings == {<<FALSE, FALSE>>, <<TRUE, TRUE>>}
=============================================================================
