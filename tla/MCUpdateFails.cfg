SPECIFICATION Spec
CONSTANTS
    Checkers = {loop}
    Loop = loop
    MaxRelease = 2
    MaxHub = 1
    MaxRestarts = 0
PROPERTY WorkingBundleStays
