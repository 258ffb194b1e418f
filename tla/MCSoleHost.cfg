SPECIFICATION Spec
CONSTANTS
    LoaderInstalled = FALSE
    Events <- SoleEvents
    Settle = 1
    MaxVersion = 2
    MaxBoot = 0
    ForceOwner = FALSE
    NativeQam = TRUE
    DesktopUi = FALSE
    CoopSafeMode = TRUE
    RecoverCmd = TRUE
    CollapseHalt = 2
    RecedeStrikes = 2
    Faults = {}
INVARIANTS SingleCopy PausedPageIsClean SwapStaysPending MarkerMeansBundle
PROPERTY HostedEventually
