SPECIFICATION Spec
CONSTANTS
    LoaderInstalled = TRUE
    Events <- ClaimEvents
    Settle = 1
    MaxVersion = 1
    MaxBoot = 1
    ForceOwner = FALSE
    NativeQam = TRUE
    DesktopUi = FALSE
    CoopSafeMode = TRUE
    RecoverCmd = TRUE
    CollapseHalt = 2
    RecedeStrikes = 2
    Faults <- LostReplies
PROPERTIES ForeignClaimStands ClaimShutsOut NeverHostsOverRunningLoader CoexistTabEventually
