SPECIFICATION Spec
CONSTANTS
    Names = {n1}
    Inodes = {i1, i2}
    None = None
    BatchLimit = 2
    MaxLen = 2
    MaxCrashes = 0
    MaxDbFaults = 0
    MaxRotations = 1
    MaxSwitches = 0
INVARIANT NothingPassed
