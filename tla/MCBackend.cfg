SPECIFICATION Spec
CONSTANTS
    Callers = {c1, c2}
    NoOne = NoOne
    MaxCalls = 3
    Cooldown = 1
    LargeCalls = {2}
INVARIANTS TypeOK OneCallAtATime AnsweredMeansRun QuietBetweenCalls
PROPERTIES Implements EndsUnlessWriteBlocks
