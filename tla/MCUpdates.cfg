SPECIFICATION Spec
CONSTANTS
    Checkers = {loop, rpc}
    Loop = loop
    MaxRelease = 3
    MaxHub = 3
    MaxRestarts = 1
INVARIANTS SingleFlight TagHidesNothing StagedIsOnDisk
PROPERTIES RuntimeMovesFirst UpToDateEventually
