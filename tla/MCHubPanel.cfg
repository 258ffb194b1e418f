SPECIFICATION Spec
CONSTANTS
    Uses <- TheUses
    MaxCalls = 2
    MaxPresses = 3
    MaxLost = 1
    MaxMounts = 1
    QueueCap = 1
    RingCap = 3
    Window = 2
    MaxEntries = 2
CHECK_DEADLOCK FALSE
INVARIANT PrefsReconcile
PROPERTIES BusyReturns StatusArrives LogsArrive
