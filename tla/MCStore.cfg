SPECIFICATION Spec
CONSTANTS
    Threads = {t1}
    Values = {1, 2}
    Default = 1
    Damaged = TRUE
    Faults <- WriteFaults
    Inodes = {i1, i2, i3}
SYMMETRY InodeSymmetry
PROPERTY Implements
