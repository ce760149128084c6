------------------------- MODULE MCDerivationGoals -------------------------
(* Instances of DerivationGoals for TLC. *)
EXTENDS DerivationGoals

CONSTANTS lib, app

(* app needs the output "out" of lib, which also has an output "dev", and   *)
(* a source.  The goals asked for are app, and lib's "dev".                 *)
TwoDrv == {lib, app}
TwoOuts == [d \in TwoDrv |-> IF d = lib THEN {"out", "dev"} ELSE {"out"}]
AppNeedsLib ==
    [d \in TwoDrv |-> IF d = app THEN [e \in {lib} |-> {"out"}] ELSE [e \in {} |-> {}]]
TheSrc == {<<app, "src">>}
AppNeedsSrc == [d \in TwoDrv |-> IF d = app THEN TheSrc ELSE {}]
AppRefs == [p \in {<<app, "out">>, <<lib, "out">>, <<lib, "dev">>} |->
                IF p = <<app, "out">> THEN {<<lib, "out">>} ELSE {}]
AppAndDev == [d \in TwoDrv |-> IF d = app THEN {"out"} ELSE {"dev"}]

LibDrv == {<<lib, "drv">>}
Drvs == {<<app, "drv">>, <<lib, "drv">>}
With(mode, keepGoing, tryFallback, useSubstitutes, valid_, corrupt_, inMemory, maxOther) ==
    [mode |-> mode, keepGoing |-> keepGoing, tryFallback |-> tryFallback,
     useSubstitutes |-> useSubstitutes, valid |-> valid_, corrupt |-> corrupt_,
     inMemory |-> inMemory, maxOther |-> maxOther]

SomeSettings ==
    { With("normal", FALSE, TRUE, TRUE, Drvs \cup TheSrc, {}, {}, 1),
      With("normal", TRUE, FALSE, TRUE, {<<app, "drv">>}, {}, {}, 0),
      With("normal", TRUE, TRUE, FALSE, Drvs \cup {<<lib, "out">>}, {}, {lib}, 1),
      With("repair", TRUE, FALSE, TRUE, Path, {<<lib, "out">>}, {}, 1),
      With("repair", FALSE, TRUE, FALSE, Path, {<<app, "out">>, <<lib, "out">>}, {}, 1),
      With("check", TRUE, FALSE, TRUE, Path, {}, {}, 1) }
RetrySettings == {With("normal", FALSE, TRUE, TRUE, Drvs \cup TheSrc, {}, {}, 0)}
OtherSettings == {With("normal", FALSE, TRUE, TRUE, Drvs \cup TheSrc, {}, {}, 2)}
LibOut == {<<lib, "out">>}
=============================================================================
