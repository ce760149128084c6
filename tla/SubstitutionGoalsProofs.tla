---------------------- MODULE SubstitutionGoalsProofs ----------------------
(***************************************************************************)
(* What a successful substitution goal promises, for every set of paths,   *)
(* substituters and top-level goals, and whatever fails on the way and     *)
(* whatever the store's path info cache has from before.                   *)
(***************************************************************************)
EXTENDS SubstitutionGoals, FiniteSetTheorems, TLAPS

(* Paths that nobody collects, or that the cache had as valid from before. *)
Trusted == {p \in Path : InitCache[p] = "valid"}
Safe == (valid \cap roots) \cup Trusted

(* What the cache says of a path it said at the start, or it is so. *)
Known ==
    \A p \in Path :
        /\ cache[p] = "valid" => p \in Safe
        /\ cache[p] = "invalid" => InitCache[p] = "invalid"

(* What this process knows as valid it has also rooted. *)
Kept ==
    /\ Known
    /\ \A t \in Top : arrived[t] = "success" => t \in Safe
    /\ \A p \in Path : pc[p] \notin {"none", "created"} => p \in roots

(* A goal past its query has the references of its current substituter. *)
Asked ==
    \A p \in Path : pc[p] \in {"wait", "refs", "slot", "copy"} =>
        sub[p] \in 1..NSubs /\ Info[sub[p]][p] # None

(* A reference is awaited, or was realised, unless some reference was not. *)
Awaited ==
    \A p \in Path :
        /\ pc[p] = "wait" =>
               \/ seen[p] \cap (Failures \cup {"exception"}) # {}
               \/ \A d \in References(p) : d \in waits[p] \/ d \in Safe
        /\ pc[p] = "refs" =>
               seen[p] \cap Failures # {} \/ References(p) \subseteq Safe
        /\ pc[p] \in {"slot", "copy"} => References(p) \subseteq Safe
        /\ pc[p] # "wait" => waits[p] = {}

IInv == TypeOK /\ Kept /\ Asked /\ Awaited

USE SubsAssumption DEF States

(* The invariant holds before the goals are made. *)
LEMMA InitIInv == Init => IInv
<1> SUFFICES ASSUME Init PROVE IInv
    OBVIOUS
<1>1. Cardinality({}) = 0
    BY FS_EmptySet
<1>2. TypeOK
    BY <1>1, PathAssumption, CacheAssumption, SlotsAssumption, SettingsAssumption
    DEF Init, TypeOK
<1>3. Known
    BY DEF Init, Known, Safe, Trusted
<1> QED
    BY <1>2, <1>3, NoneAssumption DEF Init, IInv, Kept, Asked, Awaited, Codes

(* The references a goal works with are paths. *)
LEMMA ReferencesArePaths ==
    ASSUME NEW s \in 1..NSubs, NEW p \in Path, Info[s][p] # None
    PROVE  ReferencesIn(s, p) \subseteq Path
BY InfoAssumption DEF ReferencesIn

(* A goal that ends tells those who wait for it: a success is a valid path. *)
LEMMA FinishKeeps ==
    ASSUME IInv, NEW p \in Path, NEW code \in Codes, Finish(p, code),
           Safe \subseteq Safe', roots \subseteq roots', Known',
           code = "success" => p \in Safe'
    PROVE  Kept' /\ Asked' /\ Awaited'
<1> pc' = [pc EXCEPT ![p] = "none"] /\ sub' = [sub EXCEPT ![p] = 0]
    BY DEF Finish, Goto
<1> TypeOK
    BY DEF IInv
<1>1. Kept'
    BY DEF IInv, TypeOK, Kept, Finish
<1>2. Asked'
    BY DEF IInv, TypeOK, Asked
<1>3. ASSUME NEW q \in Path, q # p
      PROVE  /\ pc'[q] = pc[q] /\ References(q)' = References(q)
             /\ waits'[q] = waits[q] \ {p} /\ seen[q] \subseteq seen'[q]
             /\ p \in waits[q] => code \in seen'[q]
    BY <1>3 DEF TypeOK, Finish, References
<1>4. code = "success" \/ code \in Failures \cup {"exception"}
    BY DEF Codes
<1>5. Awaited'
    <2> SUFFICES ASSUME NEW q \in Path
                 PROVE  /\ pc'[q] = "wait" =>
                               \/ seen'[q] \cap (Failures \cup {"exception"}) # {}
                               \/ \A d \in References(q)' : d \in waits'[q] \/ d \in Safe'
                        /\ pc'[q] = "refs" =>
                               seen'[q] \cap Failures # {} \/ References(q)' \subseteq Safe'
                        /\ pc'[q] \in {"slot", "copy"} => References(q)' \subseteq Safe'
                        /\ pc'[q] # "wait" => waits'[q] = {}
        BY DEF Awaited
    <2>1. CASE q = p
        BY <2>1 DEF TypeOK, Finish
    <2>2. CASE q # p
        <3>1. pc[q] # "wait" => waits'[q] = {}
            BY <1>3, <2>2 DEF IInv, Awaited
        <3>2. pc[q] = "refs" =>
                  seen'[q] \cap Failures # {} \/ References(q) \subseteq Safe'
            BY <1>3, <2>2 DEF IInv, Awaited
        <3>3. pc[q] \in {"slot", "copy"} => References(q) \subseteq Safe'
            BY DEF IInv, Awaited
        <3>4. ASSUME pc[q] = "wait", seen'[q] \cap (Failures \cup {"exception"}) = {},
                     NEW d \in References(q)
              PROVE  d \in waits'[q] \/ d \in Safe'
            <4>1. d \in waits[q] \/ d \in Safe
                BY <1>3, <2>2, <3>4 DEF IInv, Awaited
            <4> QED
                BY <1>3, <1>4, <2>2, <3>4, <4>1
        <3> QED
            BY <1>3, <2>2, <3>1, <3>2, <3>3, <3>4
    <2> QED
        BY <2>1, <2>2
<1> QED
    BY <1>1, <1>2, <1>5

(* What a step of p does to the other goals: at most, it makes them. *)
OthersStay(p) ==
    \A q \in Path \ {p} :
        /\ pc'[q] = pc[q] \/ (pc[q] = "none" /\ pc'[q] = "created")
        /\ sub'[q] = sub[q] /\ waits'[q] = waits[q] /\ seen'[q] = seen[q]

(* A goal that moves on, making others perhaps, while the store stays as it is. *)
LEMMA MoveKeeps ==
    ASSUME IInv, NEW p \in Path, NEW l, pc'[p] = l, pc[p] \notin {"none", "created"},
           UNCHANGED <<store, arrived>>,
           OthersStay(p),
           l \in {"wait", "refs", "slot", "copy"} =>
               sub'[p] \in 1..NSubs /\ Info[sub'[p]][p] # None,
           l = "wait" => References(p)' \subseteq waits'[p],
           l = "refs" => seen'[p] \cap Failures # {} \/ References(p)' \subseteq Safe,
           l \in {"slot", "copy"} => References(p)' \subseteq Safe,
           l # "wait" => waits'[p] = {}
    PROVE  Kept' /\ Asked' /\ Awaited'
<1> TypeOK /\ Safe' = Safe /\ Known'
    BY DEF IInv, Kept, Known, store, Safe
<1>1. Kept'
    BY DEF IInv, TypeOK, Kept, store, OthersStay
<1>2. Asked'
    BY DEF IInv, TypeOK, Asked, OthersStay
<1>3. \A q \in Path \ {p} : References(q)' = References(q)
    BY DEF TypeOK, References, OthersStay
<1>4. Awaited'
    BY <1>3 DEF IInv, Awaited, OthersStay
<1> QED
    BY <1>1, <1>2, <1>4

(* Goals that are cancelled leave nothing to keep. *)
LEMMA CancelKeeps ==
    ASSUME IInv, Cancel, UNCHANGED <<store, arrived, settings>>,
           collected' \subseteq Top, run' \in {"make", "running", "done", "threw", "aborted"}
    PROVE  IInv'
<1> TypeOK
    BY DEF IInv
<1>1. Cardinality({}) <= Slots
    BY FS_EmptySet, SlotsAssumption
<1>2. TypeOK'
    BY <1>1, PathAssumption DEF TypeOK, Cancel, store, settings
<1>3. Kept' /\ Asked' /\ Awaited'
    BY DEF IInv, Kept, Known, Asked, Awaited, Cancel, store, Safe
<1> QED
    BY <1>2, <1>3 DEF IInv

(* Each step of a substitution goal keeps the invariant. *)
LEMMA WorkKeeps ==
    ASSUME IInv, NEW p \in Path, Work(p)
    PROVE  Kept' /\ Asked' /\ Awaited'
<1> TypeOK /\ Kept /\ Asked /\ Awaited
    BY DEF IInv
<1>a. ASSUME UNCHANGED store
      PROVE  /\ Safe' = Safe /\ roots' = roots
             /\ Safe \subseteq Safe' /\ roots \subseteq roots' /\ Known'
    BY <1>a DEF store, Safe, Kept, Known
<1>b. pc[p] \notin {"none", "created"} /\ IsValidPath(p) => p \in Safe
    BY DEF IsValidPath, Kept, Known, Safe, TypeOK
<1>1. CASE AddTempRoot(p)
    <2> pc' = [pc EXCEPT ![p] = "check"] /\ pc[p] = "created"
        BY <1>1 DEF AddTempRoot, Goto
    <2> UNCHANGED <<valid, cache, sub, waits, seen, arrived>> /\ roots' = roots \cup {p}
        BY <1>1 DEF AddTempRoot, worker
    <2>1. Safe \subseteq Safe' /\ Known'
        BY DEF Safe, Kept, Known
    <2>2. Kept'
        BY <2>1 DEF TypeOK, Kept
    <2>3. Asked'
        BY DEF TypeOK, Asked
    <2>4. Awaited'
        BY <2>1 DEF TypeOK, Awaited, References
    <2> QED
        BY <2>2, <2>3, <2>4
<1>2. CASE AlreadyValid(p)
    BY <1>2, <1>a, <1>b, FinishKeeps DEF AlreadyValid, Codes
<1>3. CASE NotValid(p)
    <2>1. /\ pc[p] = "check" /\ pc' = [pc EXCEPT ![p] = "next"]
          /\ UNCHANGED <<store, sub, waits, seen, arrived>>
        BY <1>3 DEF NotValid, Goto, worker
    <2>2. pc'[p] = "next" /\ waits'[p] = {}
        BY <2>1 DEF TypeOK, Awaited
    <2>3. OthersStay(p)
        BY <2>1 DEF TypeOK, OthersStay
    <2> QED
        BY <2>1, <2>2, <2>3, MoveKeeps
<1>4. CASE ReadOnly(p)
    BY <1>4, <1>a, FinishKeeps DEF ReadOnly, Codes
<1>5. CASE NoneLeft(p)
    <2>1. PICK code \in Codes \ {"success"} : Finish(p, code)
        BY <1>5 DEF NoneLeft, Codes, Failures
    <2> QED
        BY <1>5, <1>a, <2>1, FinishKeeps DEF NoneLeft
<1>6. CASE Unavailable(p) \/ QueryFails(p)
    <2>1. pc[p] = "next" /\ sub' = [sub EXCEPT ![p] = @ + 1]
        BY <1>6 DEF Unavailable, QueryFails, Asks
    <2>2. UNCHANGED <<store, pc, waits, seen, arrived>>
        BY <1>6 DEF Unavailable, QueryFails, worker
    <2>3. pc'[p] = "next" /\ waits'[p] = {}
        BY <2>1, <2>2 DEF Awaited
    <2>4. OthersStay(p)
        BY <2>1, <2>2 DEF TypeOK, OthersStay
    <2> QED
        BY <2>1, <2>2, <2>3, <2>4, MoveKeeps
<1>7. CASE Disabled(p)
    BY <1>7, <1>a, FinishKeeps DEF Disabled, Codes
<1>8. CASE Found(p)
    <2> DEFINE s == sub[p] + 1
               D == ReferencesIn(s, p)
    <2>1. /\ pc[p] = "next" /\ sub' = [sub EXCEPT ![p] = s]
          /\ waits' = [waits EXCEPT ![p] = D]
          /\ UNCHANGED <<store, seen, arrived>>
        BY <1>8 DEF Found, Asks, worker
    <2>2. s \in 1..NSubs /\ Info[s][p] # None
        BY <1>8 DEF Found, Asks, TypeOK
    <2>3. pc' = [q \in Path |-> IF q = p THEN IF D = {} THEN "refs" ELSE "wait"
                               ELSE IF q \in D /\ pc[q] = "none" THEN "created" ELSE pc[q]]
        BY <1>8 DEF Found, MakeGoals, Made
    <2>4. sub'[p] = s /\ References(p)' = D /\ waits'[p] = D
        BY <2>1 DEF TypeOK, References
    <2>5. OthersStay(p)
        <3> HIDE DEF s, D
        <3>1. ASSUME NEW q \in Path \ {p}
              PROVE  pc'[q] = pc[q] \/ (pc[q] = "none" /\ pc'[q] = "created")
            BY <2>3
        <3>2. ASSUME NEW q \in Path \ {p}
              PROVE  sub'[q] = sub[q] /\ waits'[q] = waits[q] /\ seen'[q] = seen[q]
            BY <2>1 DEF TypeOK
        <3> QED
            BY <3>1, <3>2 DEF OthersStay
    <2>6. CASE D = {}
        <3>1. pc'[p] = "refs"
            BY <2>3, <2>6
        <3> QED
            BY <2>1, <2>2, <2>4, <2>5, <2>6, <3>1, MoveKeeps
    <2>7. CASE D # {}
        <3>1. pc'[p] = "wait"
            BY <2>3, <2>7
        <3> QED
            BY <2>1, <2>2, <2>4, <2>5, <3>1, MoveKeeps
    <2> QED
        BY <2>6, <2>7
<1>9. CASE WaitForGoals(p)
    <2>1. /\ pc[p] = "wait" /\ pc' = [pc EXCEPT ![p] = "refs"]
          /\ waits' = [waits EXCEPT ![p] = {}]
          /\ UNCHANGED <<store, sub, seen, arrived>>
        BY <1>9 DEF WaitForGoals, Goto, worker
    <2>2. References(p)' = References(p)
        BY <2>1 DEF References
    <2>3. seen[p] \cap Failures # {} \/ References(p) \subseteq Safe
        <3>1. CASE "failed" \in seen[p]
            BY <3>1 DEF Failures
        <3>2. CASE waits[p] = {} /\ "exception" \notin seen[p]
            BY <2>1, <3>2 DEF Awaited
        <3> QED
            BY <1>9, <3>1, <3>2 DEF WaitForGoals
    <2>4. /\ pc'[p] = "refs" /\ waits'[p] = {}
          /\ sub'[p] \in 1..NSubs /\ Info[sub'[p]][p] # None
        BY <2>1 DEF TypeOK, Asked
    <2>5. OthersStay(p)
        BY <2>1 DEF TypeOK, OthersStay
    <2> QED
        BY <2>1, <2>2, <2>3, <2>4, <2>5, MoveKeeps
<1>10. CASE WaitThrows(p)
    BY <1>10, <1>a, FinishKeeps DEF WaitThrows, Codes
<1>11. CASE ReferencesFailed(p)
    <2>1. PICK code \in Codes \ {"success"} : Finish(p, code)
        BY <1>11 DEF ReferencesFailed, Codes, Failures
    <2> QED
        BY <1>11, <1>a, <2>1, FinishKeeps DEF ReferencesFailed
<1>12. CASE ReferencesValid(p) \/ AcquireSlot(p)
    <2>1. /\ pc[p] \in {"refs", "slot"}
          /\ UNCHANGED <<store, sub, waits, seen, arrived>>
        BY <1>12 DEF ReferencesValid, AcquireSlot, worker
    <2>2. PICK l \in {"slot", "copy"} : pc' = [pc EXCEPT ![p] = l]
        BY <1>12 DEF ReferencesValid, AcquireSlot, Goto
    <2>3. References(p)' = References(p) /\ References(p) \subseteq Safe
        BY <1>12, <2>1 DEF ReferencesValid, AcquireSlot, References, Awaited
    <2>4. /\ pc'[p] = l /\ waits'[p] = {}
          /\ sub'[p] \in 1..NSubs /\ Info[sub'[p]][p] # None
        BY <2>1, <2>2 DEF TypeOK, Asked, Awaited
    <2>5. OthersStay(p)
        BY <2>1, <2>2 DEF TypeOK, OthersStay
    <2> QED
        BY <2>1, <2>2, <2>3, <2>4, <2>5, MoveKeeps
<1>13. CASE Copy(p)
    <2>1. pc[p] = "copy" /\ Finish(p, "success") /\ p \in roots
        BY <1>13 DEF Copy, Kept
    <2>2. CASE IsValidPath(p) /\ UNCHANGED store
        BY <1>a, <1>b, <2>1, <2>2, FinishKeeps DEF Codes
    <2>3. CASE /\ valid' = valid \cup {p} /\ roots' = roots \cup {p}
               /\ cache' = IF p \in valid THEN cache ELSE [cache EXCEPT ![p] = "valid"]
        <3>1. Safe \subseteq Safe' /\ roots \subseteq roots' /\ p \in Safe'
            BY <2>3 DEF Safe
        <3>2. \A q \in Path : cache'[q] = cache[q] \/ (q = p /\ cache'[q] = "valid")
            BY <2>3 DEF TypeOK
        <3>3. Known'
            BY <3>1, <3>2 DEF Kept, Known
        <3> QED
            BY <2>1, <3>1, <3>3, FinishKeeps DEF Codes
    <2> QED
        BY <1>13, <2>2, <2>3 DEF Copy
<1>14. CASE CopyFails(p) \/ SubstituteGone(p)
    <2>1. /\ pc[p] = "copy" /\ pc' = [pc EXCEPT ![p] = "next"]
          /\ UNCHANGED <<store, sub, waits, seen, arrived>>
        BY <1>14 DEF CopyFails, SubstituteGone, Goto, worker
    <2>2. pc'[p] = "next" /\ waits'[p] = {}
        BY <2>1 DEF TypeOK, Awaited
    <2>3. OthersStay(p)
        BY <2>1 DEF TypeOK, OthersStay
    <2> QED
        BY <2>1, <2>2, <2>3, MoveKeeps
<1>15. CASE AssertFails(p)
    BY <1>15, CancelKeeps DEF AssertFails, TypeOK, IInv
<1> QED
    BY <1>1, <1>2, <1>3, <1>4, <1>5, <1>6, <1>7, <1>8, <1>9, <1>10, <1>11, <1>12,
       <1>13, <1>14, <1>15 DEF Work

-----------------------------------------------------------------------------
(* Slots: a finite set of paths, of which there are never too many. *)
LEMMA SlotsBound ==
    ASSUME slots \subseteq Path, Cardinality(slots) <= Slots, NEW p \in Path
    PROVE  /\ Cardinality(slots \ {p}) <= Slots
           /\ Cardinality(slots) < Slots => Cardinality(slots \cup {p}) <= Slots
           /\ Cardinality({}) <= Slots
<1>1. IsFiniteSet(slots)
    BY FiniteAssumption, FS_Subset
<1>2. Cardinality(slots) \in Nat
    BY <1>1, FS_CardinalityType
<1>3. Cardinality(slots \ {p}) \in {Cardinality(slots), Cardinality(slots) - 1}
    BY <1>1, FS_RemoveElement
<1>4. Cardinality(slots \cup {p}) \in {Cardinality(slots), Cardinality(slots) + 1}
    BY <1>1, FS_AddElement
<1>5. Cardinality({}) = 0
    BY FS_EmptySet
<1> QED
    BY <1>2, <1>3, <1>4, <1>5, SlotsAssumption

(* The part of the types that a goal's end is about. *)
LEMMA FinishTypes ==
    ASSUME TypeOK, NEW p \in Path, NEW code \in Codes, Finish(p, code),
           valid' \subseteq Path, roots' \subseteq Path,
           cache' \in [Path -> {"unknown", "valid", "invalid"}],
           refs' \in [Path -> SUBSET Path],
           slots' \subseteq Path, Cardinality(slots') <= Slots
    PROVE  TypeOK'
<1> USE DEF TypeOK, Finish, Goto
<1>1. waits' \in [Path -> SUBSET Path] /\ seen' \in [Path -> SUBSET Codes]
    OBVIOUS
<1>2. arrived' \in [Top -> Codes \cup {None}]
    OBVIOUS
<1>3. /\ pc' \in [Path -> States]
      /\ sub' \in [Path -> 0..NSubs] /\ substituterFailed' \in [Path -> BOOLEAN]
    OBVIOUS
<1> QED
    BY <1>1, <1>2, <1>3 DEF settings

(* No step of a substitution goal breaks the types. *)
LEMMA WorkTypes ==
    ASSUME IInv, NEW p \in Path, Work(p)
    PROVE  TypeOK'
<1> TypeOK /\ Asked
    BY DEF IInv
<1> slots \subseteq Path /\ Cardinality(slots) <= Slots
    BY DEF TypeOK
<1>a. ASSUME UNCHANGED <<store, slots>>, NEW code \in Codes, Finish(p, code) PROVE TypeOK'
    BY <1>a, FinishTypes DEF TypeOK, store
<1>1. CASE AddTempRoot(p) \/ NotValid(p) \/ ReferencesValid(p)
    <2>1. /\ pc' \in [Path -> States] /\ roots' \subseteq Path
          /\ UNCHANGED <<valid, refs, cache>>
        BY <1>1 DEF AddTempRoot, NotValid, ReferencesValid, Goto, TypeOK, store
    <2>2. UNCHANGED <<sub, substituterFailed, waits, seen, slots, worker, settings>>
        BY <1>1 DEF AddTempRoot, NotValid, ReferencesValid
    <2> QED
        BY <2>1, <2>2 DEF TypeOK, worker, settings
<1>2. CASE AlreadyValid(p) \/ ReadOnly(p) \/ Disabled(p) \/ WaitThrows(p)
    BY <1>2, <1>a DEF AlreadyValid, ReadOnly, Disabled, WaitThrows, Codes
<1>3. CASE NoneLeft(p) \/ ReferencesFailed(p)
    BY <1>3, <1>a DEF NoneLeft, ReferencesFailed, Codes, Failures
<1>4. CASE Unavailable(p) \/ QueryFails(p)
    <2>1. sub' \in [Path -> 0..NSubs]
        BY <1>4 DEF Unavailable, QueryFails, Asks, TypeOK
    <2>2. substituterFailed' \in [Path -> BOOLEAN]
        BY <1>4 DEF Unavailable, QueryFails, TypeOK
    <2>3. UNCHANGED <<store, pc, waits, seen, slots, worker, settings>>
        BY <1>4 DEF Unavailable, QueryFails
    <2> QED
        BY <2>1, <2>2, <2>3 DEF TypeOK, store, worker, settings
<1>5. CASE Found(p)
    <2>1. sub[p] + 1 \in 1..NSubs /\ sub' = [sub EXCEPT ![p] = sub[p] + 1]
        BY <1>5 DEF Found, Asks, TypeOK
    <2>2. ReferencesIn(sub[p] + 1, p) \subseteq Path
        BY <1>5, <2>1, ReferencesArePaths DEF Found
    <2>3. pc' \in [Path -> States]
        BY <1>5 DEF Found, MakeGoals, Made, TypeOK
    <2>4. waits' \in [Path -> SUBSET Path]
        BY <1>5, <2>2 DEF Found, TypeOK
    <2>5. sub' \in [Path -> 0..NSubs]
        <3>1. sub[p] + 1 \in 0..NSubs /\ sub \in [Path -> 0..NSubs]
            BY <2>1 DEF TypeOK
        <3> QED
            BY <2>1, <3>1
    <2>6. UNCHANGED <<store, substituterFailed, seen, slots, worker, settings>>
        BY <1>5 DEF Found
    <2> QED
        BY <2>3, <2>4, <2>5, <2>6 DEF TypeOK, store, worker, settings
<1>6. CASE WaitForGoals(p)
    BY <1>6 DEF WaitForGoals, Goto, TypeOK, store, worker, settings
<1>7. CASE AcquireSlot(p)
    <2>1. slots' \subseteq Path /\ Cardinality(slots') <= Slots
        BY <1>7, SlotsBound DEF AcquireSlot
    <2> QED
        BY <1>7, <2>1 DEF AcquireSlot, Goto, TypeOK, store, worker, settings
<1>8. CASE Copy(p)
    <2>1. slots' \subseteq Path /\ Cardinality(slots') <= Slots
        BY <1>8, SlotsBound DEF Copy
    <2>2. References(p) \subseteq Path
        BY <1>8, ReferencesArePaths DEF Copy, Asked, References
    <2>3. /\ valid' \subseteq Path /\ roots' \subseteq Path
          /\ cache' \in [Path -> {"unknown", "valid", "invalid"}]
          /\ refs' \in [Path -> SUBSET Path]
        BY <1>8, <2>2 DEF Copy, TypeOK, store
    <2> QED
        BY <1>8, <2>1, <2>3, FinishTypes DEF Copy, Codes
<1>9. CASE CopyFails(p) \/ SubstituteGone(p)
    <2>1. slots' \subseteq Path /\ Cardinality(slots') <= Slots
        BY <1>9, SlotsBound DEF CopyFails, SubstituteGone
    <2>2. substituterFailed' \in [Path -> BOOLEAN]
        BY <1>9 DEF CopyFails, SubstituteGone, TypeOK
    <2>3. /\ pc' = [pc EXCEPT ![p] = "next"]
          /\ UNCHANGED <<store, sub, waits, seen, worker, settings>>
        BY <1>9 DEF CopyFails, SubstituteGone, Goto
    <2> QED
        BY <2>1, <2>2, <2>3 DEF TypeOK, store, worker, settings
<1>10. CASE AssertFails(p)
    BY <1>10, CancelKeeps DEF AssertFails, TypeOK, IInv
<1> QED
    BY <1>1, <1>2, <1>3, <1>4, <1>5, <1>6, <1>7, <1>8, <1>9, <1>10 DEF Work

-----------------------------------------------------------------------------
(* The worker and other processes keep the invariant as well. *)
LEMMA StepKeeps == IInv /\ [Next]_vars => IInv'
<1> SUFFICES ASSUME IInv, [Next]_vars PROVE IInv'
    OBVIOUS
<1> TypeOK /\ Kept /\ Asked /\ Awaited
    BY DEF IInv
<1>a. ASSUME UNCHANGED <<store, goals, slots, arrived, settings>>,
             collected' \subseteq Top, run' \in {"make", "running", "done", "threw", "aborted"}
      PROVE  IInv'
    <2>1. TypeOK'
        BY <1>a DEF TypeOK, store, goals, settings
    <2>2. Kept' /\ Asked' /\ Awaited'
        BY <1>a DEF Kept, Known, Asked, Awaited, store, goals, Safe, References
    <2> QED
        BY <2>1, <2>2 DEF IInv
<1>1. CASE MakeTopGoals
    <2>1. TypeOK'
        <3>1. pc' \in [Path -> States]
            BY <1>1 DEF MakeTopGoals, Made, TypeOK
        <3> QED
            BY <1>1, <3>1 DEF MakeTopGoals, TypeOK, store, settings
    <2>2. ASSUME NEW p \in Path
          PROVE  pc'[p] = pc[p] \/ (pc[p] = "none" /\ pc'[p] = "created")
        BY <1>1 DEF MakeTopGoals, Made
    <2>3. /\ UNCHANGED <<cache, roots, sub, waits, seen, arrived>>
          /\ Safe' = Safe /\ \A p \in Path : References(p)' = References(p)
        BY <1>1 DEF MakeTopGoals, store, Safe, References
    <2> Known'
        BY <2>3 DEF Kept, Known
    <2>4. Kept' /\ Asked' /\ Awaited'
        BY <2>2, <2>3 DEF Kept, Asked, Awaited
    <2> QED
        BY <2>1, <2>4 DEF IInv
<1>2. CASE RunImpl
    <2>1. CASE Return
        BY <2>1, CancelKeeps DEF Return, TypeOK
    <2>2. ASSUME NEW t \in Top, GoalThrew(t) \/ GoalFailed(t) PROVE IInv'
        BY <2>2, CancelKeeps DEF GoalThrew, GoalFailed, TypeOK
    <2>3. ASSUME NEW t \in Top, GoalDone(t) PROVE IInv'
        BY <2>3, <1>a DEF GoalDone, TypeOK
    <2> QED
        BY <1>2, <2>1, <2>2, <2>3 DEF RunImpl
<1>3. ASSUME NEW p \in Path, Work(p) PROVE IInv'
    BY <1>3, WorkKeeps, WorkTypes DEF IInv
<1>4. ASSUME NEW p \in Path, OthersAdd(p) \/ OthersCollect(p) PROVE IInv'
    <2>1. UNCHANGED <<roots, cache, goals, slots, worker, settings>>
        BY <1>4 DEF OthersAdd, OthersCollect
    <2>2. valid' \subseteq Path /\ refs' \in [Path -> SUBSET Path]
        <3>1. CASE OthersAdd(p)
            <4>1. PICK s \in 1..NSubs :
                      /\ Info[s][p] # None
                      /\ refs' = [refs EXCEPT ![p] = ReferencesIn(s, p)]
                BY <3>1 DEF OthersAdd
            <4>2. ReferencesIn(s, p) \subseteq Path
                BY <4>1, ReferencesArePaths
            <4> QED
                BY <3>1, <4>1, <4>2 DEF OthersAdd, TypeOK
        <3>2. CASE OthersCollect(p)
            BY <3>2 DEF OthersCollect, TypeOK
        <3> QED
            BY <1>4, <3>1, <3>2
    <2>3. TypeOK'
        BY <2>1, <2>2 DEF TypeOK, goals, worker, settings
    <2>4. Safe \subseteq Safe'
        BY <1>4, <2>1 DEF OthersAdd, OthersCollect, Safe
    <2>5. \A q \in Path : References(q)' = References(q)
        BY <2>1 DEF goals, References
    <2>6. Known'
        BY <2>1, <2>4 DEF Kept, Known
    <2>8. Kept' /\ Asked'
        BY <2>1, <2>4, <2>6 DEF Kept, Asked, goals, worker
    <2>7. Awaited'
        BY <2>1, <2>4, <2>5 DEF Awaited, goals
    <2> QED
        BY <2>3, <2>7, <2>8 DEF IInv
<1>5. ASSUME NEW p \in Path, EntryExpires(p) PROVE IInv'
    <2>1. /\ cache' = [cache EXCEPT ![p] = "unknown"]
          /\ UNCHANGED <<valid, refs, roots, goals, slots, worker, settings>>
        BY <1>5 DEF EntryExpires
    <2>2. TypeOK'
        BY <2>1 DEF TypeOK, goals, worker, settings
    <2>3. Safe' = Safe /\ \A q \in Path : References(q)' = References(q)
        BY <2>1 DEF goals, Safe, References
    <2>4. Known'
        BY <2>1, <2>3 DEF Kept, Known, TypeOK
    <2>5. Kept' /\ Asked' /\ Awaited'
        BY <2>1, <2>3, <2>4 DEF Kept, Asked, Awaited, goals, worker
    <2> QED
        BY <2>2, <2>5 DEF IInv
<1>6. CASE UNCHANGED vars
    BY <1>6, <1>a DEF vars, worker, TypeOK
<1> QED
    BY <1>1, <1>2, <1>3, <1>4, <1>5, <1>6 DEF Next

(***************************************************************************)
(* Values keep their types, and no more copies run at a time than          *)
(* Worker::substitutions has slots.                                        *)
(***************************************************************************)
THEOREM TypeCorrect == Spec => []TypeOK
<1>1. IInv => TypeOK
    BY DEF IInv
<1> QED
    BY <1>1, InitIInv, StepKeeps, PTL DEF Spec

(***************************************************************************)
(* A top-level goal that ended with ecSuccess has its path in the store,   *)
(* whatever other processes collect before the worker returns, unless the  *)
(* path info cache had the path as valid before the goal rooted it.        *)
(***************************************************************************)
THEOREM SuccessIsKept == Spec => []SuccessMeansValid
<1>1. IInv => SuccessMeansValid
    BY PathAssumption DEF IInv, Kept, Safe, Trusted, SuccessMeansValid
<1> QED
    BY <1>1, InitIInv, StepKeeps, PTL DEF Spec

(***************************************************************************)
(* The references of a path are valid from referencesValid until the path  *)
(* is registered, except for those that the cache had as valid before; and *)
(* its assertion holds for each that the cache had nothing about.          *)
(***************************************************************************)
THEOREM ReferencesComeFirst == Spec => []ReferencesAreValid
<1>1. IInv => ReferencesAreValid
    <2> SUFFICES ASSUME IInv, NEW p \in Path, Realised(p), NEW d \in References(p)
                 PROVE  /\ d \in valid \/ InitCache[d] = "valid"
                        /\ pc[p] = "refs" => IsValidPath(d) \/ InitCache[d] # "unknown"
        BY DEF ReferencesAreValid
    <2>1. d \in Safe
        BY DEF IInv, Awaited, Realised
    <2>2. d \in Path /\ (d \in valid \/ InitCache[d] = "valid")
        BY <2>1 DEF IInv, TypeOK, Safe, Trusted
    <2>3. IsValidPath(d) \/ InitCache[d] # "unknown"
        BY <2>2 DEF IInv, TypeOK, Kept, Known, IsValidPath
    <2> QED
        BY <2>2, <2>3
<1> QED
    BY <1>1, InitIInv, StepKeeps, PTL DEF Spec
=============================================================================
