SPECIFICATION Spec
CONSTANTS
    Names = {n1}
    Inodes = {i1}
    None = None
    BatchLimit = 2
    MaxLen = 2
    MaxCrashes = 0
    MaxDbFaults = 1
    MaxRotations = 0
    MaxSwitches = 0
INVARIANT NothingSkipped
