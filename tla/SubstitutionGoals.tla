------------------------- MODULE SubstitutionGoals -------------------------
(***************************************************************************)
(* The worker (lix/libstore/build/worker.cc) running substitution goals    *)
(* (goal.cc, substitution-goal.cc).  Goals are coroutines on one event     *)
(* loop, so what is between two awaits is one step.  A path has at most    *)
(* one goal, which everybody who needs the path waits for; when it ends    *)
(* its entry goes away, and it may be made again.                          *)
(*                                                                         *)
(* Other processes add paths to the store and collect what is not rooted.  *)
(***************************************************************************)
EXTENDS Naturals, FiniteSets

CONSTANTS
    Path,
    Top,            \* paths of the top-level goals
    NSubs,          \* substituters, tried in the order 1..NSubs
    Info,           \* the references each substituter has for a path, or None
    Slots,          \* capacity of Worker::substitutions
    Settings,       \* the values of <<keepGoing, tryFallback>> to be considered
    Faults,         \* "readonly", "query", "disabled", "untrusted", "copy", "gone"
    InitValid,      \* valid paths at the start, which have no references
    InitCache,      \* what the store's path info cache says of each path then
    None

ASSUME PathAssumption == Top \subseteq Path /\ InitValid \subseteq Path
ASSUME SubsAssumption == NSubs \in Nat
ASSUME InfoAssumption ==
    \A s \in 1..NSubs, p \in Path : Info[s][p] = None \/ Info[s][p] \subseteq Path
ASSUME FiniteAssumption == IsFiniteSet(Path)
ASSUME CacheAssumption == InitCache \in [Path -> {"unknown", "valid", "invalid"}]
ASSUME SlotsAssumption == Slots \in Nat \ {0}
ASSUME SettingsAssumption == Settings \subseteq BOOLEAN \X BOOLEAN

VARIABLES
    valid, refs,            \* the database
    roots,                  \* temporary roots of this process
    cache,                  \* pathInfoCache: "unknown", or what it says of a path
    keepGoing, tryFallback,
    pc, sub, substituterFailed,     \* goals, by path
    waits,                  \* goals whose result waitForGoals has not got
    seen,                   \* exit codes it has got: nrFailed and the like
    slots,                  \* holders of a token of Worker::substitutions
    arrived,                \* results of the top-level goals
    collected,              \* those that runImpl has looked at
    run

store == <<valid, refs, roots, cache>>
goals == <<pc, sub, substituterFailed, waits, seen>>
worker == <<arrived, collected, run>>
settings == <<keepGoing, tryFallback>>
vars == <<store, goals, slots, worker, settings>>

States == {"none", "created", "check", "next", "wait", "refs", "slot", "copy"}
Failures == {"failed", "noSubstituters", "incompleteClosure"}
Codes == {"success", "exception"} \cup Failures

ASSUME NoneAssumption == None \notin Codes

(* Goals, slots and store have values of their types. *)
TypeOK ==
    /\ valid \subseteq Path /\ roots \subseteq Path
    /\ cache \in [Path -> {"unknown", "valid", "invalid"}]
    /\ refs \in [Path -> SUBSET Path]
    /\ keepGoing \in BOOLEAN /\ tryFallback \in BOOLEAN
    /\ pc \in [Path -> States]
    /\ sub \in [Path -> 0..NSubs]
    /\ substituterFailed \in [Path -> BOOLEAN]
    /\ waits \in [Path -> SUBSET Path]
    /\ seen \in [Path -> SUBSET Codes]
    /\ slots \subseteq Path /\ Cardinality(slots) <= Slots
    /\ arrived \in [Top -> Codes \cup {None}]
    /\ collected \subseteq Top
    /\ run \in {"make", "running", "done", "threw", "aborted"}

Init ==
    /\ valid = InitValid /\ refs = [p \in Path |-> {}]
    /\ roots = {} /\ cache = InitCache
    /\ \E s \in Settings : keepGoing = s[1] /\ tryFallback = s[2]
    /\ pc = [p \in Path |-> "none"]
    /\ sub = [p \in Path |-> 0]
    /\ substituterFailed = [p \in Path |-> FALSE]
    /\ waits = [p \in Path |-> {}]
    /\ seen = [p \in Path |-> {}]
    /\ slots = {}
    /\ arrived = [t \in Top |-> None]
    /\ collected = {}
    /\ run = "make"

Goto(p, l) == pc' = [pc EXCEPT ![p] = l]

(* Store::isValidPath, which believes what the cache says, either way. *)
IsValidPath(p) == IF cache[p] = "unknown" THEN p \in valid ELSE cache[p] = "valid"

(* What substituter s says p refers to, self-references ignored. *)
ReferencesIn(s, p) == Info[s][p] \ {p}
References(p) == ReferencesIn(sub[p], p)

(* makePathSubstitutionGoal for each of D: a goal that exists is shared. *)
Made(D, q) == IF q \in D /\ pc[q] = "none" THEN "created" ELSE pc[q]

(* The same from the goal p, which goes to l. *)
MakeGoals(D, p, l) == pc' = [q \in Path |-> IF q = p THEN l ELSE Made(D, q)]

(* A goal ends: its entry is erased, and all who wait get the result. *)
Finish(p, code) ==
    /\ Goto(p, "none")
    /\ sub' = [sub EXCEPT ![p] = 0]
    /\ substituterFailed' = [substituterFailed EXCEPT ![p] = FALSE]
    /\ waits' = [q \in Path |-> IF q = p THEN {} ELSE waits[q] \ {p}]
    /\ seen' = [q \in Path |-> IF q = p THEN {}
                               ELSE IF p \in waits[q] THEN seen[q] \cup {code} ELSE seen[q]]
    /\ arrived' = [t \in Top |-> IF t = p /\ arrived[t] = None THEN code ELSE arrived[t]]
    /\ UNCHANGED <<collected, run, settings>>

(* The worker is done with: goals that still run are cancelled, by          *)
(* children.clear() or when the worker is destroyed after runImpl returned. *)
Cancel ==
    /\ pc' = [p \in Path |-> "none"]
    /\ sub' = [p \in Path |-> 0]
    /\ substituterFailed' = [p \in Path |-> FALSE]
    /\ waits' = [p \in Path |-> {}]
    /\ seen' = [p \in Path |-> {}]
    /\ slots' = {}

(* The goals are made before the worker runs. *)
MakeTopGoals ==
    /\ run = "make" /\ run' = "running"
    /\ pc' = [p \in Path |-> Made(Top, p)]
    /\ UNCHANGED <<store, sub, substituterFailed, waits, seen, slots, arrived, collected, settings>>

-----------------------------------------------------------------------------
(* workImpl *)
RootNotAdded(p) ==
    /\ pc[p] = "created"
    /\ Goto(p, "check")
    /\ UNCHANGED <<store, sub, substituterFailed, waits, seen, slots, worker, settings>>
AddTempRoot(p) ==
    /\ pc[p] = "created"
    /\ roots' = roots \cup {p}
    /\ Goto(p, "check")
    /\ UNCHANGED <<valid, refs, cache>>
    /\ UNCHANGED <<sub, substituterFailed, waits, seen, slots, worker, settings>>

AlreadyValid(p) ==
    /\ pc[p] = "check" /\ IsValidPath(p)
    /\ Finish(p, "success")
    /\ UNCHANGED <<store, slots>>

NotValid(p) ==
    /\ pc[p] = "check" /\ ~IsValidPath(p)
    /\ Goto(p, "next")
    /\ UNCHANGED <<store, sub, substituterFailed, waits, seen, slots, worker, settings>>

(* settings.readOnlyMode *)
ReadOnly(p) ==
    /\ "readonly" \in Faults
    /\ pc[p] = "check" /\ ~IsValidPath(p)
    /\ Finish(p, "exception")
    /\ UNCHANGED <<store, slots>>

-----------------------------------------------------------------------------
(* tryNext *)
NoneLeft(p) ==
    /\ pc[p] = "next" /\ sub[p] = NSubs
    /\ Finish(p, IF substituterFailed[p] THEN "failed" ELSE "noSubstituters")
    /\ UNCHANGED <<store, slots>>

Asks(p) == pc[p] = "next" /\ sub[p] < NSubs /\ sub' = [sub EXCEPT ![p] = @ + 1]

(* InvalidPath, another store directory, another path than asked for, no *)
(* signature by a trusted key, or disabled when --fallback is given.     *)
Unavailable(p) ==
    /\ Asks(p)
    /\ \/ Info[sub[p] + 1][p] = None
       \/ "untrusted" \in Faults
       \/ "disabled" \in Faults /\ tryFallback
    /\ UNCHANGED <<store, pc, substituterFailed, waits, seen, slots, worker, settings>>

QueryFails(p) ==
    /\ "query" \in Faults
    /\ Asks(p)
    /\ substituterFailed' = [substituterFailed EXCEPT ![p] = @ \/ ~tryFallback]
    /\ UNCHANGED <<store, pc, waits, seen, slots, worker, settings>>

(* SubstituterDisabled is rethrown unless --fallback is given. *)
Disabled(p) ==
    /\ "disabled" \in Faults /\ ~tryFallback
    /\ pc[p] = "next" /\ sub[p] < NSubs
    /\ Finish(p, "exception")
    /\ UNCHANGED <<store, slots>>

(* The references come first. *)
Found(p) ==
    /\ Asks(p) /\ Info[sub[p] + 1][p] # None
    /\ waits' = [waits EXCEPT ![p] = ReferencesIn(sub[p] + 1, p)]
    /\ MakeGoals(ReferencesIn(sub[p] + 1, p), p,
                 IF ReferencesIn(sub[p] + 1, p) = {} THEN "refs" ELSE "wait")
    /\ UNCHANGED <<store, substituterFailed, seen, slots, worker, settings>>

(* waitForGoals: all results are there, or one is a failure. *)
ReturnAtFailure(p) ==
    /\ pc[p] = "wait"
    /\ (waits[p] = {} /\ "exception" \notin seen[p]) \/ "failed" \in seen[p]
    /\ waits' = [waits EXCEPT ![p] = {}]
    /\ Goto(p, "refs")
    /\ UNCHANGED <<store, sub, substituterFailed, seen, slots, worker, settings>>
WaitForGoals(p) ==
    /\ pc[p] = "wait"
    /\ (waits[p] = {} /\ "exception" \notin seen[p]) \/ ("failed" \in seen[p] /\ ~keepGoing)
    /\ waits' = [waits EXCEPT ![p] = {}]
    /\ Goto(p, "refs")
    /\ UNCHANGED <<store, sub, substituterFailed, seen, slots, worker, settings>>

WaitThrows(p) ==
    /\ pc[p] = "wait" /\ "exception" \in seen[p]
    /\ Finish(p, "exception")
    /\ UNCHANGED <<store, slots>>

-----------------------------------------------------------------------------
(* referencesValid *)
ReferencesFailed(p) ==
    /\ pc[p] = "refs" /\ seen[p] \cap Failures # {}
    /\ Finish(p, IF seen[p] \cap {"noSubstituters", "incompleteClosure"} # {}
                 THEN "incompleteClosure" ELSE "failed")
    /\ UNCHANGED <<store, slots>>

OnlyFailedCounts(p) ==
    /\ pc[p] = "refs" /\ "failed" \notin seen[p]
    /\ Goto(p, "slot")
    /\ UNCHANGED <<store, sub, substituterFailed, waits, seen, slots, worker, settings>>
ReferencesValid(p) ==
    /\ pc[p] = "refs" /\ seen[p] \cap Failures = {}
    /\ \A d \in References(p) : IsValidPath(d)
    /\ Goto(p, "slot")
    /\ UNCHANGED <<store, sub, substituterFailed, waits, seen, slots, worker, settings>>

(* The assertion fails, and the process ends. *)
AssertFails(p) ==
    /\ pc[p] = "refs" /\ seen[p] \cap Failures = {}
    /\ \E d \in References(p) : ~IsValidPath(d)
    /\ run' = "aborted"
    /\ Cancel
    /\ UNCHANGED <<store, arrived, collected, settings>>

-----------------------------------------------------------------------------
(* tryToRun *)
AcquireSlot(p) ==
    /\ pc[p] = "slot" /\ Cardinality(slots) < Slots
    /\ slots' = slots \cup {p}
    /\ Goto(p, "copy")
    /\ UNCHANGED <<store, sub, substituterFailed, waits, seen, worker, settings>>

(* copyStorePath: nothing to do, or addToStore, which registers the path *)
(* if its references are valid.  What is said of a path that is new is   *)
(* cached; one that was valid after all is updated, and the cache is not. *)
Copy(p) ==
    /\ pc[p] = "copy"
    /\ \/ IsValidPath(p) /\ UNCHANGED store
       \/ /\ ~IsValidPath(p) /\ References(p) \subseteq valid
          /\ valid' = valid \cup {p} /\ refs' = [refs EXCEPT ![p] = @ \cup References(p)]
          /\ roots' = roots \cup {p}
          /\ cache' = IF p \in valid THEN cache ELSE [cache EXCEPT ![p] = "valid"]
    /\ slots' = slots \ {p}
    /\ Finish(p, "success")

(* Any exception but SubstituteGone counts as a failure. *)
SlotKept(p) ==
    /\ pc[p] = "copy" /\ ~IsValidPath(p)
    /\ "copy" \in Faults \/ ~(References(p) \subseteq valid)
    /\ substituterFailed' = [substituterFailed EXCEPT ![p] = TRUE]
    /\ Goto(p, "next")
    /\ UNCHANGED <<store, slots, sub, waits, seen, worker, settings>>
CopyFails(p) ==
    /\ pc[p] = "copy" /\ ~IsValidPath(p)
    /\ "copy" \in Faults \/ ~(References(p) \subseteq valid)
    /\ substituterFailed' = [substituterFailed EXCEPT ![p] = TRUE]
    /\ slots' = slots \ {p}
    /\ Goto(p, "next")
    /\ UNCHANGED <<store, sub, waits, seen, worker, settings>>

SubstituteGone(p) ==
    /\ "gone" \in Faults
    /\ pc[p] = "copy" /\ ~IsValidPath(p)
    /\ slots' = slots \ {p}
    /\ Goto(p, "next")
    /\ UNCHANGED <<store, sub, substituterFailed, waits, seen, worker, settings>>

-----------------------------------------------------------------------------
(* runImpl looks at the result of a top-level goal ... *)
Collects(t) == run = "running" /\ arrived[t] # None /\ t \notin collected

GoalThrew(t) ==
    /\ Collects(t) /\ arrived[t] = "exception"
    /\ run' = "threw"
    /\ Cancel
    /\ UNCHANGED <<store, arrived, collected, settings>>

GoalFailed(t) ==
    /\ Collects(t) /\ arrived[t] = "failed" /\ ~keepGoing
    /\ collected' = collected \cup {t}
    /\ run' = "done"
    /\ Cancel
    /\ UNCHANGED <<store, arrived, settings>>

GoalDone(t) ==
    /\ Collects(t) /\ arrived[t] # "exception" /\ (arrived[t] = "failed" => keepGoing)
    /\ collected' = collected \cup {t}
    /\ UNCHANGED <<store, goals, slots, arrived, run, settings>>

(* ... and returns when there is none left. *)
Return ==
    /\ run = "running" /\ collected = Top
    /\ run' = "done"
    /\ Cancel
    /\ UNCHANGED <<store, arrived, collected, settings>>

-----------------------------------------------------------------------------
(* Another process registers a path, or collects one. *)
OthersAdd(p) ==
    /\ p \notin valid
    /\ \E s \in 1..NSubs :
          /\ Info[s][p] # None /\ ReferencesIn(s, p) \subseteq valid
          /\ refs' = [refs EXCEPT ![p] = ReferencesIn(s, p)]
    /\ valid' = valid \cup {p}
    /\ UNCHANGED <<roots, cache, goals, slots, worker, settings>>

OthersCollect(p) ==
    /\ p \in valid \ roots
    /\ \A q \in valid : p \notin refs[q]
    /\ valid' = valid \ {p}
    /\ refs' = [refs EXCEPT ![p] = {}]
    /\ UNCHANGED <<roots, cache, goals, slots, worker, settings>>

(* An entry is too old, or makes place for another. *)
EntryExpires(p) ==
    /\ cache[p] # "unknown"
    /\ cache' = [cache EXCEPT ![p] = "unknown"]
    /\ UNCHANGED <<valid, refs, roots, goals, slots, worker, settings>>

Work(p) ==
    \/ AddTempRoot(p) \/ AlreadyValid(p) \/ NotValid(p) \/ ReadOnly(p)
    \/ NoneLeft(p) \/ Unavailable(p) \/ QueryFails(p) \/ Disabled(p)
    \/ Found(p) \/ WaitForGoals(p) \/ WaitThrows(p)
    \/ ReferencesFailed(p) \/ ReferencesValid(p) \/ AssertFails(p)
    \/ AcquireSlot(p) \/ Copy(p) \/ CopyFails(p) \/ SubstituteGone(p)

RunImpl == Return \/ \E t \in Top : GoalThrew(t) \/ GoalFailed(t) \/ GoalDone(t)

Next ==
    \/ MakeTopGoals \/ RunImpl
    \/ \E p \in Path : Work(p) \/ OthersAdd(p) \/ OthersCollect(p) \/ EntryExpires(p)

Spec == Init /\ [][Next]_vars

(* The event loop runs whatever is ready.  A free slot goes to the first in *)
(* the queue, so that whoever waits for one gets it.                        *)
Fairness ==
    /\ WF_vars(RunImpl)
    /\ \A p \in Path : WF_vars(Work(p)) /\ SF_vars(AcquireSlot(p))

FairSpec == Spec /\ Fairness

-----------------------------------------------------------------------------
(***************************************************************************)
(* ecSuccess means that the path is valid, and stays so while the process  *)
(* lives, although others collect garbage all the time: the temporary root *)
(* is made before the path is looked for (workImpl).  Only a path that the *)
(* cache had as valid from before the root was made is taken on its word.  *)
(***************************************************************************)
SuccessMeansValid ==
    \A t \in Top : arrived[t] = "success" => t \in valid \/ InitCache[t] = "valid"

(***************************************************************************)
(* "To maintain the closure invariant, we first have to realise the paths  *)
(* referenced by this one" (tryNext): from referencesValid until the path  *)
(* is copied its references are valid, with the same exception; and        *)
(* assert(isValidPath(i)) can only fail for a path that the cache said     *)
(* something of before.                                                    *)
(***************************************************************************)
Realised(p) ==
    pc[p] \in {"slot", "copy"} \/ (pc[p] = "refs" /\ seen[p] \cap Failures = {})

ReferencesAreValid ==
    \A p \in Path : Realised(p) =>
        \A d \in References(p) :
            /\ d \in valid \/ InitCache[d] = "valid"
            /\ pc[p] = "refs" => IsValidPath(d) \/ InitCache[d] # "unknown"

(***************************************************************************)
(* assert(isValidPath(i)) in referencesValid holds, whatever the cache     *)
(* says.                                                                   *)
(***************************************************************************)
AssertionHolds == run # "aborted"

(***************************************************************************)
(* "if --keep-going *is* set, then they must all be finished now", the     *)
(* assertion at the end of runImpl: no goal is left when all top-level     *)
(* goals have their result.                                                *)
(***************************************************************************)
KeepGoingFinishesAll ==
    run = "running" /\ collected = Top /\ keepGoing => \A p \in Path : pc[p] = "none"

(***************************************************************************)
(* The worker comes to an end, by an assertion that fails if not           *)
(* otherwise: goals neither wait for each other nor for a slot that is     *)
(* held by one of them for ever.                                           *)
(***************************************************************************)
WorkerEnds == run = "running" ~> run \in {"done", "threw", "aborted"}
=============================================================================
