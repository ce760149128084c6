-------------------------- MODULE DerivationGoals --------------------------
(***************************************************************************)
(* Derivation goals (lix/libstore/build/derivation-goal.cc and             *)
(* local-derivation-goal.cc) and the worker that runs them (worker.cc,     *)
(* goal.cc).  Goals are coroutines on one event loop: what is between two  *)
(* awaits is one step.  The goals of a derivation d are <<d, 1>> and       *)
(* <<d, 2>>: one that is done cannot be given more outputs, and may be     *)
(* replaced in the worker's map by the other before it is gone.            *)
(*                                                                         *)
(* Substitution goals are seen from outside, by the result they give (the  *)
(* module SubstitutionGoals has their inside).  Another process builds the *)
(* same derivations, and a collector deletes what has no root.             *)
(***************************************************************************)
EXTENDS Integers, FiniteSets

CONSTANTS
    Drv,
    Outs,           \* output names, by derivation
    InputDrvs,      \* the outputs it needs, by derivation and input derivation
    InputSrcs,      \* the sources it needs, by derivation
    Src,            \* the sources, as paths <<s, "src">>
    Refs,           \* the paths an output refers to, directly or not
    PreferLocal,    \* those with willBuildLocally
    Top,            \* the outputs asked for, by top-level derivation
    Settings,       \* the settings to be considered, see Init
    Builds, LocalJobs, HookSlots,           \* capacities of the semaphores
    Users,          \* number of build users; 0: they are not used
    Hook,           \* answers of the build hook; {}: there is none
    Faults,         \* of builds: "start", "post", "timeout", "reject"
    MaxPostponed,   \* bound on how often the hook postpones a goal
    Queries         \* the paths clients of this process may ask about

DrvPath(d) == <<d, "drv">>
OutPaths(d, O) == {<<d, o>> : o \in O}
Path == Src \cup {DrvPath(d) : d \in Drv} \cup UNION {OutPaths(d, Outs[d]) : d \in Drv}
Goals == Drv \X {1, 2}

VARIABLES
    settings,
    valid, files,   \* the database, the store directory
    corrupt,        \* paths whose contents are not what the database says
    roots,          \* temporary roots of this process
    pathInfoCache,  \* of this process: path -> is it valid, or not known
    contentsGood,   \* pathContentsGoodCache, the same
    goal,           \* the goals
    cached,         \* Worker::derivationGoals: which of the two, 0 if none
    subs,           \* the substitution goals, by path: "none", "plain" or "repair"
    hookAvailable,
    run,            \* runImpl: "running", or how it ended
    topWaits, topSeen,  \* the goals runImpl waits for, and results it got
    promised,       \* outputs of goals that ended with success
    otherLocks, otherUsers, others

store == <<valid, files, corrupt, roots>>
caches == <<pathInfoCache, contentsGood>>
top == <<topWaits, topSeen, promised>>
environment == <<otherLocks, otherUsers, others>>
vars == <<settings, store, caches, goal, cached, subs, hookAvailable, run, top, environment>>

Status == {"absent", "valid", "corrupt"}
Waiting == {"getDerivation", "haveDerivation", "gaveUpOnSubstitution", "repairClosure"}
Checking == {"check:have", "check:tried", "check:build", "check:built",
             "check:repaired"}
Building == {"build", "register", "postBuildHook", "remote"}
States == {"none", "created", "tryToBuild", "tryBuildHook", "askHook", "tryLocalBuild",
           "acquire:builds", "acquire:localJobs", "done"}
          \cup Waiting \cup Checking \cup Building

NoGoal(d) ==
    [pc |-> "none", mode |-> "normal", wanted |-> {}, needRestart |-> "unmodified",
     retry |-> "noNeed", todo |-> {}, initial |-> [o \in Outs[d] |-> "absent"],
     asked |-> {}, waits |-> {}, waitsSubs |-> {}, seen |-> {}, locked |-> FALSE, slot |-> "none",
     user |-> FALSE, postponed |-> 0, exit |-> "none"]

(* The goals, the worker and the store have values of their types. *)
TypeOK ==
    /\ settings \in Settings
    /\ valid \subseteq Path /\ files \subseteq Path /\ corrupt \subseteq Path
    /\ roots \subseteq Path
    /\ subs \in [Path -> {"none", "plain", "repair"}]
    /\ pathInfoCache \in [Path -> {"unknown", "valid", "invalid"}]
    /\ contentsGood \in [Path -> {"unknown", "good", "bad"}]
    /\ \A i \in Goals : LET g == goal[i] IN
        /\ g.pc \in States /\ g.mode \in {"normal", "repair", "check"}
        /\ g.wanted \subseteq Outs[i[1]] /\ g.todo \subseteq Outs[i[1]]
        /\ g.asked \subseteq Outs[i[1]]
        /\ g.needRestart \in {"unmodified", "added", "building"}
        /\ g.retry \in {"noNeed", "yesNeed", "alreadyRetried"}
        /\ g.initial \in [Outs[i[1]] -> Status]
        /\ g.waits \subseteq Goals /\ g.waitsSubs \subseteq Path
        /\ g.seen \subseteq {"failed", "noSubstituters", "incompleteClosure", "exception"}
        /\ g.locked \in BOOLEAN /\ g.user \in BOOLEAN
        /\ g.slot \in {"none", "builds", "localJobs"}
        /\ g.postponed \in 0..MaxPostponed
        /\ g.exit \in {"none", "success", "failed", "exception"}
    /\ cached \in [Drv -> 0..2]
    /\ hookAvailable \in BOOLEAN
    /\ run \in {"running", "returned", "threw", "aborted"}
    /\ topWaits \subseteq Goals /\ topSeen \subseteq {"success", "failed", "exception"}
    /\ promised \subseteq Path
    /\ otherLocks \subseteq Path /\ otherUsers \in 0..Users
    /\ others \in 0..settings.maxOther

(* The settings are the build mode of the top-level goals, keepGoing,       *)
(* tryFallback and useSubstitutes, the valid and the corrupt paths, and the *)
(* derivations that have no .drv file (buildDerivation), and a bound on     *)
(* what others do.  The top-level goals are made before the worker runs.    *)
Init ==
    /\ settings \in Settings
    /\ valid = settings.valid /\ files = valid
    /\ corrupt = settings.corrupt
    /\ roots = Src \cup {DrvPath(d) : d \in Drv}
    /\ pathInfoCache = [p \in Path |-> "unknown"]
    /\ contentsGood = [p \in Path |-> "unknown"]
    /\ goal = [i \in Goals |->
            IF i[1] \in DOMAIN Top /\ i[2] = 1
            THEN [NoGoal(i[1]) EXCEPT !.pc = "created", !.wanted = Top[i[1]], !.mode = settings.mode]
            ELSE NoGoal(i[1])]
    /\ cached = [d \in Drv |-> IF d \in DOMAIN Top THEN 1 ELSE 0]
    /\ subs = [p \in Path |-> "none"] /\ hookAvailable = (Hook # {}) /\ run = "running"
    /\ topWaits = {<<d, 1>> : d \in DOMAIN Top} /\ topSeen = {} /\ promised = {}
    /\ otherLocks = {} /\ otherUsers = 0 /\ others = 0
-----------------------------------------------------------------------------
(* Store::isValidPath, which believes the path info cache. *)
IsValidPath(p) ==
    IF pathInfoCache[p] = "unknown" THEN p \in valid ELSE pathInfoCache[p] = "valid"

(* Worker::pathContentsGood, which remembers what it found. *)
PathContentsGood(p) ==
    IF contentsGood[p] = "unknown" THEN p \in files \ corrupt ELSE contentsGood[p] = "good"

Remember(P) ==
    contentsGood' = [p \in Path |->
        IF p \in P THEN IF PathContentsGood(p) THEN "good" ELSE "bad" ELSE contentsGood[p]]

(* The outputs a build has to make: those not found valid. *)
Missing(i) == OutPaths(i[1], {o \in Outs[i[1]] : goal[i].initial[o] # "valid"})

(* A path is made valid by this process.  registerValidPaths caches what it   *)
(* adds; for a path that others added meanwhile the cache stays as it was.   *)
Register(P) ==
    /\ valid' = valid \cup P /\ files' = files \cup P /\ corrupt' = corrupt \ P
    /\ pathInfoCache' = [p \in Path |-> IF p \in P \ valid THEN "valid" ELSE pathInfoCache[p]]
    /\ contentsGood' = [p \in Path |-> IF p \in P THEN "good" ELSE contentsGood[p]]

(* done, an exception, checkPathValidity: what becomes of the goal g. *)
IsDone(g) == g.pc = "done" /\ g.exit # "exception"
Done(g, e) == [g EXCEPT !.pc = "done", !.exit = e, !.locked = FALSE]
Throws(g) == [g EXCEPT !.pc = "done", !.exit = "exception"]
Check(g, l) == [g EXCEPT !.pc = l, !.todo = DOMAIN g.initial]

Become(i, g) == goal' = [goal EXCEPT ![i] = g]

(* addWantedOutputs *)
AddWantedOutputs(g, O) ==
    [g EXCEPT !.wanted = @ \cup O,
              !.needRestart = IF @ = "unmodified" /\ ~ O \subseteq g.wanted THEN "added" ELSE @]

(* makeGoalCommon, for the derivation d: a goal that is not done is shared, *)
(* one that is done is replaced.                                            *)
Fresh(d) == cached[d] = 0 \/ IsDone(goal[<<d, cached[d]>>])
FreeSlot(d) == IF goal[<<d, 1>>].pc = "none" THEN 1 ELSE 2
GoalFor(d) == <<d, IF Fresh(d) THEN FreeSlot(d) ELSE cached[d]>>

(* The goal i becomes g and makes goals for the derivations in the domain   *)
(* of W, with the outputs W gives, and for the paths P.                     *)
MakeGoals(i, g, W, m, P, repair) ==
    /\ goal' = [j \in Goals |->
            IF j = i THEN g
            ELSE IF j[1] \in DOMAIN W /\ j = GoalFor(j[1])
            THEN IF Fresh(j[1])
                 THEN [NoGoal(j[1]) EXCEPT !.pc = "created", !.wanted = W[j[1]], !.mode = m]
                 ELSE AddWantedOutputs(goal[j], W[j[1]])
            ELSE goal[j]]
    /\ cached' = [d \in Drv |-> IF d \in DOMAIN W THEN GoalFor(d)[2] ELSE cached[d]]
    /\ subs' = [p \in Path |-> IF p \in P /\ subs[p] = "none" THEN repair ELSE subs[p]]
    /\ roots' = roots \cup P

(* The same, and it waits for them in the state l. *)
WaitForGoals(i, g, l, W, m, P, repair) ==
    MakeGoals(i, [g EXCEPT !.pc = l, !.waits = {GoalFor(d) : d \in DOMAIN W}, !.waitsSubs = P],
              W, m, P, repair)

NoGoals == [d \in {} |-> {}]

(* waitForGoals returns to the goal i, in the state l. *)
Returns(i, l) ==
    /\ run = "running" /\ goal[i].pc = l
    /\ \/ goal[i].waits = {} /\ goal[i].waitsSubs = {} /\ "exception" \notin goal[i].seen
       \/ "failed" \in goal[i].seen /\ ~ settings.keepGoing

Back(i) == [goal[i] EXCEPT !.waits = {}, !.waitsSubs = {}, !.seen = {}]

(* A waitee threw an exception. *)
WaiteeThrew(i) ==
    /\ run = "running" /\ goal[i].pc \in Waiting /\ "exception" \in goal[i].seen
    /\ Become(i, Throws(Back(i)))
    /\ UNCHANGED <<settings, store, caches, cached, subs, hookAvailable, run, top, environment>>

-----------------------------------------------------------------------------
(* A goal is started by evalLater, after what is under way: a goal that it  *)
(* replaces has finished.                                                   *)
Starts(i) ==
    /\ run = "running" /\ goal[i].pc = "created"
    /\ goal[<<i[1], 3 - i[2]>>].pc = "none"

(* workImpl, getDerivation: the derivation is there, or is substituted. *)
GetDerivation(i) ==
    /\ Starts(i) /\ i[1] \notin settings.inMemory
    /\ ~ (goal[i].mode = "normal" /\ IsValidPath(DrvPath(i[1])))
    /\ WaitForGoals(i, goal[i], "getDerivation", NoGoals, "normal", {DrvPath(i[1])}, "plain")
    /\ UNCHANGED <<settings, valid, files, corrupt, caches, hookAvailable, run, top, environment>>

(* loadDerivation *)
DerivationMissing(i) ==
    /\ Returns(i, "getDerivation") /\ goal[i].seen # {}
    /\ Become(i, Done(Back(i), "failed"))
    /\ UNCHANGED <<settings, store, caches, cached, subs, hookAvailable, run, top, environment>>

(* haveDerivation, up to checkPathValidity: the outputs are made roots. *)
HaveDerivation(i, g) ==
    /\ roots' = roots \cup OutPaths(i[1], Outs[i[1]])
    /\ Become(i, Check(g, "check:have"))
    /\ UNCHANGED <<settings, valid, files, corrupt, caches, cached, subs, hookAvailable, run, top, environment>>

LoadDerivation(i) ==
    \/ /\ Starts(i)
       /\ i[1] \in settings.inMemory \/ (goal[i].mode = "normal" /\ IsValidPath(DrvPath(i[1])))
       /\ HaveDerivation(i, goal[i])
    \/ /\ Returns(i, "getDerivation") /\ goal[i].seen = {}
       /\ HaveDerivation(i, Back(i))

(* checkPathValidity: one output.  Others may run between two outputs. *)
CheckPathValidity(i) ==
    /\ run = "running" /\ goal[i].pc \in Checking
    /\ \E o \in goal[i].todo :
        LET p == <<i[1], o>>
            hash == goal[i].mode = "repair" /\ IsValidPath(p)
            status == IF ~ IsValidPath(p) THEN "absent"
                      ELSE IF hash /\ ~ PathContentsGood(p) THEN "corrupt" ELSE "valid"
        IN /\ Become(i, [goal[i] EXCEPT !.todo = @ \ {o}, !.initial[o] = status,
                           !.asked = IF o \in goal[i].wanted THEN @ \cup {o} ELSE @ \ {o}])
           /\ Remember(IF hash THEN {p} ELSE {})
           /\ pathInfoCache' = IF hash THEN [pathInfoCache EXCEPT ![p] = "valid"] ELSE pathInfoCache
    /\ UNCHANGED <<settings, store, cached, subs, hookAvailable, run, top, environment>>

Checked(i, l) == run = "running" /\ goal[i].pc = l /\ goal[i].todo = {}

(* Mutant: isPresent for isValid. *)
AllPresent(i) ==
    /\ goal[i].needRestart # "added"
    /\ \A o \in goal[i].asked : goal[i].initial[o] # "absent"

AllValid(i) ==
    /\ goal[i].needRestart # "added"
    /\ \A o \in goal[i].asked : goal[i].initial[o] = "valid"

(* The goal is done: nothing, or nothing more, has to be made. *)
OutputsAreValid(i) ==
    /\ \/ (Checked(i, "check:have") \/ Checked(i, "check:tried")) /\ goal[i].mode = "normal"
       \/ Checked(i, "check:build") /\ goal[i].mode # "check"
       \/ Checked(i, "check:repaired")
    /\ AllValid(i)
    /\ Become(i, Done(goal[i], "success"))
    /\ UNCHANGED <<settings, store, caches, cached, subs, hookAvailable, run, top, environment>>

(* haveDerivation, after the check: try substitutes. *)
TrySubstitutes(i) ==
    /\ Checked(i, "check:have") /\ ~ (AllValid(i) /\ goal[i].mode = "normal")
    /\ WaitForGoals(i, goal[i], "haveDerivation", NoGoals, "normal",
                    IF settings.useSubstitutes THEN OutPaths(i[1], goal[i].asked) ELSE {},
                    IF goal[i].mode = "repair" THEN "repair" ELSE "plain")
    /\ UNCHANGED <<settings, valid, files, corrupt, caches, hookAvailable, run, top, environment>>
-----------------------------------------------------------------------------
(* outputsSubstitutionTried *)
SubstitutesFailed(i) == "failed" \in goal[i].seen /\ ~ settings.tryFallback

SubstitutionFailed(i) ==
    /\ Returns(i, "haveDerivation") /\ SubstitutesFailed(i)
    /\ Become(i, Done(Back(i), "failed"))
    /\ UNCHANGED <<settings, store, caches, cached, subs, hookAvailable, run, top, environment>>

(* "Should not be able to reach this state from here." *)
RetryAssertion(i) ==
    /\ Returns(i, "haveDerivation") /\ ~ SubstitutesFailed(i)
    /\ goal[i].retry = "yesNeed"
    /\ run' = "aborted"
    /\ UNCHANGED <<settings, store, caches, goal, cached, subs, hookAvailable, top, environment>>

OutputsSubstitutionTried(i) ==
    /\ Returns(i, "haveDerivation") /\ ~ SubstitutesFailed(i)
    /\ goal[i].retry # "yesNeed"
    /\ LET retry == IF goal[i].retry = "noNeed" /\ goal[i].seen = {"incompleteClosure"}
                    THEN "yesNeed" ELSE goal[i].retry
           g == [Back(i) EXCEPT !.retry = retry]
       IN IF g.needRestart = "added"
          THEN HaveDerivation(i, [g EXCEPT !.needRestart = "unmodified"])
          ELSE /\ Become(i, Check(g, "check:tried"))
               /\ UNCHANGED <<settings, store, caches, cached, subs, hookAvailable, run, top, environment>>

(* More outputs were asked for during the check. *)
Restart(i) ==
    /\ Checked(i, "check:tried") /\ goal[i].needRestart = "added"
    /\ HaveDerivation(i, [goal[i] EXCEPT !.needRestart = "unmodified"])

(* A check of what is not there, and assertPathValidity. *)
NotAllValid(i) ==
    /\ \/ /\ Checked(i, "check:tried") /\ goal[i].mode = "check"
          /\ goal[i].needRestart # "added"
       \/ Checked(i, "check:built") \/ Checked(i, "check:repaired")
    /\ ~ AllValid(i)
    /\ Become(i, Throws(goal[i]))
    /\ UNCHANGED <<settings, store, caches, cached, subs, hookAvailable, run, top, environment>>

(* gaveUpOnSubstitution: all outputs will be built, the inputs first. *)
GaveUpOnSubstitution(i) ==
    /\ Checked(i, "check:tried") /\ goal[i].needRestart # "added"
    /\ goal[i].mode = "check" <=> AllValid(i)
    /\ LET g == [goal[i] EXCEPT !.needRestart = "building"]
           drvs == IF i[1] \in settings.inMemory THEN {}
                   ELSE {d \in DOMAIN InputDrvs[i[1]] : InputDrvs[i[1]][d] # {}}
           absent == {s \in InputSrcs[i[1]] : ~ IsValidPath(s)}
           W == [d \in drvs |-> InputDrvs[i[1]][d]]
           m == IF g.mode = "repair" THEN "repair" ELSE "normal"
       IN IF absent # {} /\ ~ settings.useSubstitutes
          THEN MakeGoals(i, Throws(g), W, m, {}, "plain")
          ELSE WaitForGoals(i, g, "gaveUpOnSubstitution", W, m, absent, "plain")
    /\ UNCHANGED <<settings, valid, files, corrupt, caches, hookAvailable, run, top, environment>>

(* repairClosure: the outputs are good, what they refer to may not be. *)
RepairClosure(i) ==
    /\ Checked(i, "check:tried") /\ goal[i].mode = "repair" /\ AllValid(i)
    /\ LET closure == UNION {Refs[p] : p \in OutPaths(i[1], goal[i].wanted)}
                      \ OutPaths(i[1], Outs[i[1]])
           bad == {p \in closure : ~ PathContentsGood(p)}
           outputs == IF i[1] \in settings.inMemory THEN {} ELSE bad \ Src
           drvs == {p[1] : p \in outputs}
       IN /\ Remember(closure)
          /\ IF bad = {}
             THEN /\ Become(i, Check(goal[i], "check:repaired"))
                  /\ UNCHANGED <<cached, subs, roots>>
             ELSE WaitForGoals(i, goal[i], "repairClosure", [d \in drvs |-> Outs[d]], "repair",
                               bad \ outputs, "repair")
    /\ UNCHANGED <<settings, valid, files, corrupt, pathInfoCache, hookAvailable, run, top, environment>>

(* closureRepaired *)
ClosureRepaired(i) ==
    /\ Returns(i, "repairClosure")
    /\ Become(i, IF goal[i].seen # {} THEN Throws(Back(i)) ELSE Check(Back(i), "check:repaired"))
    /\ UNCHANGED <<settings, store, caches, cached, subs, hookAvailable, run, top, environment>>

(* inputsRealised *)
InputPaths(d) ==
    InputSrcs[d] \cup UNION {OutPaths(e, InputDrvs[d][e]) : e \in DOMAIN InputDrvs[d]}

DependencyFailed(i) ==
    /\ Returns(i, "gaveUpOnSubstitution") /\ goal[i].seen # {}
    /\ Become(i, IF i[1] \in settings.inMemory THEN Throws(Back(i)) ELSE Done(Back(i), "failed"))
    /\ UNCHANGED <<settings, store, caches, cached, subs, hookAvailable, run, top, environment>>

RetrySubstitution(i) ==
    /\ Returns(i, "gaveUpOnSubstitution") /\ goal[i].seen = {}
    /\ goal[i].retry = "yesNeed"
    /\ HaveDerivation(i, [Back(i) EXCEPT !.retry = "alreadyRetried"])

(* Mutant: failed inputs, or inputs that are not there, do not matter. *)
InputsTrusted(i) ==
    /\ Returns(i, "gaveUpOnSubstitution") /\ goal[i].retry # "yesNeed"
    /\ Become(i, [Back(i) EXCEPT !.pc = "tryToBuild"])
    /\ UNCHANGED <<settings, store, caches, cached, subs, hookAvailable, run, top, environment>>

InputsRealised(i) ==
    /\ Returns(i, "gaveUpOnSubstitution") /\ goal[i].seen = {}
    /\ goal[i].retry # "yesNeed"
    /\ Become(i, IF \A p \in InputPaths(i[1]) : IsValidPath(p)
                 THEN [Back(i) EXCEPT !.pc = "tryToBuild"]
                 ELSE Throws(Back(i)))
    /\ UNCHANGED <<settings, store, caches, cached, subs, hookAvailable, run, top, environment>>

-----------------------------------------------------------------------------
(* tryToBuild.  When the locks cannot be had it waits and tries again. *)
LocksFree(i) ==
    /\ otherLocks \cap OutPaths(i[1], Outs[i[1]]) = {}
    /\ \A n \in {1, 2} : ~ goal[<<i[1], n>>].locked

(* Mutant: no second check under the locks. *)
TryToBuildUnchecked(i) ==
    /\ run = "running" /\ goal[i].pc = "tryToBuild" /\ LocksFree(i)
    /\ Become(i, [goal[i] EXCEPT !.locked = TRUE, !.pc = "check:build"])
    /\ UNCHANGED <<settings, store, caches, cached, subs, hookAvailable, run, top, environment>>

TryToBuild(i) ==
    /\ run = "running" /\ goal[i].pc = "tryToBuild" /\ LocksFree(i)
    /\ Become(i, Check([goal[i] EXCEPT !.locked = TRUE], "check:build"))
    /\ UNCHANGED <<settings, store, caches, cached, subs, hookAvailable, run, top, environment>>

(* With the locks held, and a check: what is not valid is deleted. *)
WantHook(i) ==
    /\ (goal[i].mode = "normal" /\ i[1] \notin PreferLocal) \/ Builds = 0
    /\ hookAvailable /\ i[1] \notin settings.inMemory

DeleteInvalid(i) ==
    /\ Checked(i, "check:build") /\ ~ (AllValid(i) /\ goal[i].mode # "check")
    /\ files' = files \ Missing(i)
    /\ Become(i, [goal[i] EXCEPT !.pc = IF WantHook(i) THEN "tryBuildHook" ELSE "tryLocalBuild"])
    /\ UNCHANGED <<settings, valid, corrupt, roots, caches, cached, subs, hookAvailable, run, top, environment>>

(* tryBuildHook *)
StartHook(i) ==
    /\ run = "running" /\ goal[i].pc = "tryBuildHook"
    /\ Cardinality({j \in Goals : goal[j].pc = "askHook"}) < HookSlots
    /\ Become(i, [goal[i] EXCEPT !.pc = "askHook"])
    /\ UNCHANGED <<settings, store, caches, cached, subs, hookAvailable, run, top, environment>>

HookReplies(i) ==
    /\ run = "running" /\ goal[i].pc = "askHook"
    /\ \/ /\ "accept" \in Hook
          /\ Become(i, [goal[i] EXCEPT !.pc = "remote"])
          /\ UNCHANGED hookAvailable
       \/ /\ "decline" \in Hook
          /\ Become(i, [goal[i] EXCEPT !.pc = "tryLocalBuild"])
          /\ UNCHANGED hookAvailable
       \/ /\ "declinePermanently" \in Hook
          /\ Become(i, [goal[i] EXCEPT !.pc = "tryLocalBuild"])
          /\ hookAvailable' = FALSE
       \/ /\ "error" \in Hook
          /\ Become(i, Throws(goal[i]))
          /\ UNCHANGED hookAvailable
    /\ UNCHANGED <<settings, store, caches, cached, subs, run, top, environment>>

(* "Not now; wait until at least one child finishes" *)
HookPostpones(i) ==
    /\ run = "running" /\ goal[i].pc = "askHook" /\ "postpone" \in Hook
    /\ goal[i].postponed < MaxPostponed
    /\ Become(i, [goal[i] EXCEPT !.pc = "tryToBuild", !.locked = FALSE, !.postponed = @ + 1])
    /\ UNCHANGED <<settings, store, caches, cached, subs, hookAvailable, run, top, environment>>

(* The hook process copies the outputs, one by one, and makes them valid. *)
HookCopies(i) ==
    /\ run = "running" /\ goal[i].pc = "remote"
    /\ \E p \in Missing(i) \ valid : valid' = valid \cup {p} /\ files' = files \cup {p}
    /\ UNCHANGED <<settings, corrupt, roots, caches, goal, cached, subs, hookAvailable, run, top, environment>>

(* buildDone, for the hook *)
HookEnds(i) ==
    /\ run = "running" /\ goal[i].pc = "remote"
    /\ \/ /\ Missing(i) \subseteq valid
          /\ Become(i, Check([goal[i] EXCEPT !.slot = "none"], "check:built"))
       \/ Become(i, Done([goal[i] EXCEPT !.slot = "none"], "failed"))
    /\ UNCHANGED <<settings, store, caches, cached, subs, hookAvailable, run, top, environment>>

(* DerivationGoal::registerOutputs, or that of a check, after the check. *)
BuiltOutputsChecked(i) ==
    /\ Checked(i, "check:built") /\ AllValid(i)
    /\ Become(i, [goal[i] EXCEPT !.pc = "postBuildHook"])
    /\ UNCHANGED <<settings, store, caches, cached, subs, hookAvailable, run, top, environment>>
-----------------------------------------------------------------------------
(* The semaphores hand a token that is given back to who waits for it. *)
Used(sem) == Cardinality({j \in Goals : goal[j].slot = sem})
Capacity(sem) == IF sem = "builds" THEN Builds ELSE LocalJobs
Waits(sem) == IF sem = "builds" THEN "acquire:builds" ELSE "acquire:localJobs"
CanTake(sem) ==
    Used(sem) < Capacity(sem) /\ \A j \in Goals : goal[j].pc # Waits(sem)

(* LocalDerivationGoal::tryLocalBuild without a slot: give up the locks. *)
(* Mutant: goes on without taking the locks again. *)
WithSlotGoesOn(i, sem) ==
    [goal[i] EXCEPT !.locked = FALSE, !.slot = sem, !.pc = "tryLocalBuild"]

WithSlot(i, sem) == [goal[i] EXCEPT !.locked = FALSE, !.slot = sem, !.pc = "tryToBuild"]
WaitForSlot(i, sem) == [goal[i] EXCEPT !.locked = FALSE, !.pc = Waits(sem)]

NeedSlot(i) ==
    /\ run = "running" /\ goal[i].pc = "tryLocalBuild" /\ goal[i].slot = "none"
    /\ Become(i,
        CASE i[1] \in PreferLocal /\ CanTake("localJobs") -> WithSlot(i, "localJobs")
          [] i[1] \in PreferLocal /\ ~ CanTake("localJobs") /\ CanTake("builds") -> WithSlot(i, "builds")
          [] i[1] \in PreferLocal /\ ~ CanTake("localJobs") /\ ~ CanTake("builds") /\ LocalJobs > 0 ->
                WaitForSlot(i, "localJobs")
          [] (i[1] \notin PreferLocal \/ (~ CanTake("builds") /\ LocalJobs = 0)) /\ Builds > 0 ->
                WaitForSlot(i, "builds")
          [] OTHER -> Throws([goal[i] EXCEPT !.locked = FALSE]))
    /\ UNCHANGED <<settings, store, caches, cached, subs, hookAvailable, run, top, environment>>

AcquireSlot(i) ==
    /\ run = "running"
    /\ \E sem \in {"builds", "localJobs"} :
        /\ goal[i].pc = Waits(sem) /\ Used(sem) < Capacity(sem)
        /\ Become(i, WithSlot(i, sem))
    /\ UNCHANGED <<settings, store, caches, cached, subs, hookAvailable, run, top, environment>>

(* tryLocalBuild with a slot.  Without a build user it waits and tries again. *)
UsersInUse == otherUsers + Cardinality({j \in Goals : goal[j].user})

StartBuilder(i) ==
    /\ run = "running" /\ goal[i].pc = "tryLocalBuild" /\ goal[i].slot # "none"
    /\ Users # 0 => UsersInUse < Users
    /\ \/ Become(i, [goal[i] EXCEPT !.pc = "build", !.user = Users # 0])
       \/ "start" \in Faults /\ Become(i, Done(goal[i], "failed"))
       \/ "start" \in Faults /\ Become(i, Throws([goal[i] EXCEPT !.user = Users # 0]))
    /\ UNCHANGED <<settings, store, caches, cached, subs, hookAvailable, run, top, environment>>

(* buildDone: the builder failed.  It may leave outputs in the store.      *)
BuilderFails(i) ==
    /\ run = "running" /\ goal[i].pc = "build"
    /\ files' \in {files, files \cup Missing(i)}
    /\ Become(i, Done([goal[i] EXCEPT !.slot = "none", !.user = FALSE], "failed"))
    /\ UNCHANGED <<settings, valid, corrupt, roots, caches, cached, subs, hookAvailable, run, top, environment>>

(* The builder succeeded: the slot is free, registerOutputs begins.  *)
BuilderSucceeds(i) ==
    /\ run = "running" /\ goal[i].pc = "build"
    /\ Become(i, [goal[i] EXCEPT !.slot = "none", !.pc = "register"])
    /\ files' = files \cup Missing(i)
    /\ UNCHANGED <<settings, valid, corrupt, roots, caches, cached, subs, hookAvailable, run, top, environment>>

(* registerOutputs: all new outputs become valid at once. *)
RegisterOutputs(i) ==
    /\ run = "running" /\ goal[i].pc = "register"
    /\ \/ /\ goal[i].mode # "check"
          /\ Register(Missing(i))
          /\ Become(i, [goal[i] EXCEPT !.pc = "postBuildHook"])
       \/ /\ goal[i].mode = "check"
          /\ Become(i, Check(goal[i], "check:built"))
          /\ UNCHANGED <<valid, files, corrupt, caches>>
       \/ /\ "reject" \in Faults
          /\ Become(i, Done([goal[i] EXCEPT !.user = FALSE], "failed"))
          /\ UNCHANGED <<valid, files, corrupt, caches>>
    /\ UNCHANGED <<settings, roots, cached, subs, hookAvailable, run, top, environment>>

(* runPostBuildHook, and the end of buildDone. *)
BuildDone(i) ==
    /\ run = "running" /\ goal[i].pc = "postBuildHook"
    /\ \/ Become(i, Done([goal[i] EXCEPT !.user = FALSE], "success"))
       \/ "post" \in Faults /\ Become(i, Throws([goal[i] EXCEPT !.user = FALSE]))
    /\ UNCHANGED <<settings, store, caches, cached, subs, hookAvailable, run, top, environment>>

(* wrapChildHandler: a timeout, or too much output, ends a build, also when *)
(* buildDone has begun.                                                     *)
TimedOut(i) ==
    /\ run = "running" /\ "timeout" \in Faults
    /\ goal[i].pc \in Building \cup {"check:built"}
    /\ files' \in {files, files \cup IF goal[i].pc = "build" THEN Missing(i) ELSE {}}
    /\ Become(i, Done(goal[i], "failed"))
    /\ UNCHANGED <<settings, valid, corrupt, roots, caches, cached, subs, hookAvailable, run, top, environment>>

-----------------------------------------------------------------------------
(* The end of workImpl and of the coroutine in makeGoalCommon: the goal is  *)
(* erased, unless another has replaced it, and who waits gets the result.   *)
Erased(i) == IF cached[i[1]] = i[2] THEN [cached EXCEPT ![i[1]] = 0] ELSE cached

(* waitForGoals: what the end of i changes in the goal j.  Mutant: whoever  *)
(* has been told first keeps it from the others.                            *)
ToldOnce(j, i) ==
    IF i \in goal[j].waits /\ i \notin topWaits
    THEN [goal[j] EXCEPT !.waits = @ \ {i}, !.seen = @ \cup ({goal[i].exit} \ {"success"})]
    ELSE goal[j]

Told(j, i) ==
    IF i \in goal[j].waits
    THEN [goal[j] EXCEPT !.waits = @ \ {i}, !.seen = @ \cup ({goal[i].exit} \ {"success"})]
    ELSE goal[j]

Finish(i) ==
    /\ run = "running" /\ goal[i].pc = "done"
    /\ goal' = [j \in Goals |-> IF j = i THEN NoGoal(i[1]) ELSE Told(j, i)]
    /\ cached' = Erased(i)
    /\ topWaits' = topWaits \ {i}
    /\ topSeen' = IF i \in topWaits THEN topSeen \cup {goal[i].exit} ELSE topSeen
    /\ promised' = IF goal[i].exit = "success" THEN promised \cup OutPaths(i[1], goal[i].asked)
                   ELSE promised
    /\ UNCHANGED <<settings, store, caches, subs, hookAvailable, run, environment>>

(* A substitution goal ends.  A success has made the path valid, under the  *)
(* path's lock, unless it was valid.                                        *)
SubstitutionEnds(p) ==
    /\ run = "running" /\ subs[p] # "none"
    /\ \E code \in {"success", "failed", "noSubstituters", "incompleteClosure"} :
        /\ IF subs[p] = "plain" /\ IsValidPath(p)
           THEN code = "success" /\ UNCHANGED <<valid, files, corrupt, caches>>
           ELSE IF code # "success" THEN UNCHANGED <<valid, files, corrupt, caches>>
           ELSE /\ p \notin otherLocks
                /\ \A i \in Goals : p \in OutPaths(i[1], Outs[i[1]]) => ~ goal[i].locked
                /\ Register({p})
        /\ goal' = [i \in Goals |->
                IF p \in goal[i].waitsSubs
                THEN [goal[i] EXCEPT !.waitsSubs = @ \ {p}, !.seen = @ \cup ({code} \ {"success"})]
                ELSE goal[i]]
    /\ subs' = [subs EXCEPT ![p] = "none"]
    /\ UNCHANGED <<settings, roots, cached, hookAvailable, run, top, environment>>

(* runImpl: it looks at the results as they come.  When it ends early, the  *)
(* goals that are left are destroyed.                                       *)
RunImpl ==
    /\ run = "running"
    /\ \/ "exception" \in topSeen /\ run' = "threw"
       \/ "failed" \in topSeen /\ ~ settings.keepGoing /\ run' = "returned"
       \/ topWaits = {} /\ "exception" \notin topSeen /\ run' = "returned"
    /\ goal' = [j \in Goals |-> NoGoal(j[1])]
    /\ cached' = [d \in Drv |-> 0] /\ subs' = [p \in Path |-> "none"]
    /\ UNCHANGED <<settings, store, caches, hookAvailable, top, environment>>

-----------------------------------------------------------------------------
(* Another process locks the outputs of d, deletes what is not valid, and   *)
(* builds; it makes the outputs valid, or fails, leaving files or not.      *)
OtherLocks(d) ==
    LET P == OutPaths(d, Outs[d]) IN
    /\ run = "running" /\ others < settings.maxOther /\ others' = others + 1
    /\ otherLocks = {} /\ otherLocks' = P
    /\ \A n \in {1, 2} : ~ goal[<<d, n>>].locked
    /\ files' = files \ (P \ valid)
    /\ UNCHANGED <<settings, valid, corrupt, roots, caches, goal, cached, subs, hookAvailable, run, top, otherUsers>>

OtherUnlocks ==
    /\ run = "running" /\ otherLocks # {} /\ otherLocks' = {}
    /\ \/ valid' = valid \cup otherLocks /\ files' = files \cup otherLocks
       \/ UNCHANGED valid /\ files' \in {files, files \cup otherLocks}
    /\ UNCHANGED <<settings, corrupt, roots, caches, goal, cached, subs, hookAvailable, run, top, otherUsers, others>>

OtherTakesUser ==
    /\ run = "running" /\ others < settings.maxOther /\ others' = others + 1
    /\ UsersInUse < Users /\ otherUsers' = otherUsers + 1
    /\ UNCHANGED <<settings, store, caches, goal, cached, subs, hookAvailable, run, top, otherLocks>>

OtherReturnsUser ==
    /\ run = "running" /\ otherUsers > 0 /\ otherUsers' = otherUsers - 1
    /\ UNCHANGED <<settings, store, caches, goal, cached, subs, hookAvailable, run, top, otherLocks, others>>

(* The collector deletes a path that is not needed by a root. *)
Collect(p) ==
    /\ run = "running" /\ others < settings.maxOther /\ others' = others + 1
    /\ p \in valid \ (roots \cup otherLocks)
    /\ \A q \in valid \ {p} : q \in DOMAIN Refs => p \notin Refs[q]
    /\ valid' = valid \ {p} /\ files' = files \ {p} /\ corrupt' = corrupt \ {p}
    /\ UNCHANGED <<settings, roots, caches, goal, cached, subs, hookAvailable, run, top, otherLocks, otherUsers>>

(* Store::queryPathInfo, called by a client of this process. *)
QueryPathInfo(p) ==
    /\ run = "running" /\ others < settings.maxOther /\ others' = others + 1 /\ p \in Queries
    /\ pathInfoCache[p] = "unknown"
    /\ pathInfoCache' = [pathInfoCache EXCEPT ![p] = IF p \in valid THEN "valid" ELSE "invalid"]
    /\ UNCHANGED <<settings, store, contentsGood, goal, cached, subs, hookAvailable, run, top, otherLocks, otherUsers>>

-----------------------------------------------------------------------------
Step(i) ==
    \/ WaiteeThrew(i) \/ GetDerivation(i) \/ DerivationMissing(i) \/ LoadDerivation(i)
    \/ CheckPathValidity(i) \/ OutputsAreValid(i) \/ TrySubstitutes(i)
    \/ SubstitutionFailed(i) \/ RetryAssertion(i) \/ OutputsSubstitutionTried(i)
    \/ Restart(i) \/ NotAllValid(i) \/ GaveUpOnSubstitution(i)
    \/ RepairClosure(i) \/ ClosureRepaired(i)
    \/ DependencyFailed(i) \/ RetrySubstitution(i) \/ InputsRealised(i)
    \/ TryToBuild(i) \/ DeleteInvalid(i) \/ StartHook(i) \/ HookReplies(i) \/ HookPostpones(i)
    \/ HookCopies(i) \/ HookEnds(i)
    \/ BuiltOutputsChecked(i) \/ NeedSlot(i) \/ AcquireSlot(i) \/ StartBuilder(i)
    \/ BuilderFails(i) \/ BuilderSucceeds(i) \/ RegisterOutputs(i) \/ BuildDone(i)
    \/ TimedOut(i) \/ Finish(i)

(* What goes on by itself: the event loop, builders and downloads, and that *)
(* others give back what they hold.                                         *)
Progress ==
    \/ \E i \in Goals : Step(i)
    \/ \E p \in Path : SubstitutionEnds(p)
    \/ RunImpl \/ OtherUnlocks \/ OtherReturnsUser

Next ==
    \/ Progress
    \/ \E d \in Drv : OtherLocks(d)
    \/ OtherTakesUser
    \/ \E p \in Path : Collect(p) \/ QueryPathInfo(p)

Spec == Init /\ [][Next]_vars
FairSpec == Spec /\ WF_vars(Progress)

-----------------------------------------------------------------------------
(* A builder, local or remote, has all its inputs, valid, for as long as it *)
(* runs: inputsRealised comes after goals that made the outputs roots       *)
(* before they looked.                                                      *)
InputsStayValid ==
    \A i \in Goals : goal[i].pc \in Building => InputPaths(i[1]) \subseteq valid

(* A goal that succeeds has, from then on, every output that the last       *)
(* checkPathValidity knew to be wanted: valid, and in repair mode good.     *)
SuccessMeansOutputs == promised \subseteq valid \ corrupt

(* The files of a valid path are there, unless the path is corrupt: what    *)
(* tryToBuild deletes, it has found not valid under the locks.              *)
ValidPathsKept == valid \ corrupt \subseteq files

(* Only the builder makes the outputs that it was started for, and it finds *)
(* nothing left there by others: it holds the locks, slot or no slot.       *)
BuilderAlone ==
    \A i \in Goals : goal[i].pc = "build" =>
        /\ goal[i].locked /\ otherLocks \cap OutPaths(i[1], Outs[i[1]]) = {}
        /\ Missing(i) \cap files = {}

(* Worker::run comes to an end, whatever fails and whoever else holds       *)
(* locks, slots or users for a time: it returns, throws or fails the        *)
(* assertion that RetryOnlyOnce is about.                                   *)
WorkerEnds == <>(run # "running")

(* What outputsSubstitutionTried asserts: the state YesNeed is left before  *)
(* it runs again.                                                           *)
RetryOnlyOnce == run # "aborted"

(* needRestart: once a build is in progress all outputs will be produced,   *)
(* so those asked for meanwhile are there when the goal succeeds.           *)
AddedOutputsProduced ==
    \A i \in Goals : goal[i].pc = "done" /\ goal[i].exit = "success" =>
        OutPaths(i[1], goal[i].wanted) \subseteq valid
=============================================================================
