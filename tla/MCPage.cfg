SPECIFICATION Spec
CONSTANTS
    PollCap = 2
    MaxEvals = 2
    RetryCap = 2
    RouterCap = 4
    MissCap = 1
    CloseCap = 2
    StableCap = 1
    AgeCap = 2
    Lists <- TheLists
    Worlds <- TheWorlds
    RenderGap = FALSE
CHECK_DEADLOCK FALSE
INVARIANTS FullSurfaceAtBoot OneInstance TripStandsDown TabIsFirstClass
    HomeHasOneOwner SettledPageIsCurrent
PROPERTIES BreakerEngagesAloneOnly BootsEventually ScreensArrive SectionsReturn MenuLeftAlone
