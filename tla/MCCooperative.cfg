SPECIFICATION Spec
CONSTANTS
    LoaderInstalled = TRUE
    Events <- CoopEvents
    Settle = 1
    MaxVersion = 1
    MaxBoot = 0
    ForceOwner = TRUE
    NativeQam = TRUE
    DesktopUi = FALSE
    CoopSafeMode = TRUE
    RecoverCmd = TRUE
    CollapseHalt = 2
    RecedeStrikes = 2
    Faults = {}
INVARIANTS TypeOK PlainAfterRecede OneRecoveryPerOutage
PROPERTY ChurnRecedes
