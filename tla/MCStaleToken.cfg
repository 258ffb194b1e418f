SPECIFICATION Spec
CONSTANTS
    LoaderInstalled = FALSE
    Events <- CrashOnly
    Settle = 0
    MaxVersion = 1
    MaxBoot = 1
    ForceOwner = FALSE
    NativeQam = TRUE
    DesktopUi = FALSE
    CoopSafeMode = TRUE
    RecoverCmd = TRUE
    CollapseHalt = 2
    RecedeStrikes = 2
    Faults = {}
INVARIANT HostedPageAuthenticates
