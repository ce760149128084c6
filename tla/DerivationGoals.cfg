\* Two derivations, one with two outputs that are asked for separately.
CONSTANTS
    lib = lib
    app = app
    Drv <- TwoDrv
    Outs <- TwoOuts
    InputDrvs <- AppNeedsLib
    InputSrcs <- AppNeedsSrc
    Src <- TheSrc
    Refs <- AppRefs
    PreferLocal = {lib}
    Top <- AppAndDev
    Settings <- SomeSettings
    Builds = 1
    LocalJobs = 1
    HookSlots = 1
    Users = 1
    Hook = {"accept", "decline", "postpone", "declinePermanently", "error"}
    Faults = {"start", "post", "timeout", "reject"}
    MaxPostponed = 1
    Queries <- LibDrv
SPECIFICATION FairSpec
INVARIANTS InputsStayValid SuccessMeansOutputs ValidPathsKept BuilderAlone
PROPERTIES WorkerEnds
\* The worker stops when its goals are done.
CHECK_DEADLOCK FALSE
