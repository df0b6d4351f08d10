SPECIFICATION Spec
CONSTANTS
    Names = {n1, n2}
    Inodes = {i1, i2}
    None = None
    BatchLimit = 2
    MaxLen = 2
    MaxCrashes = 1
    MaxDbFaults = 1
    MaxRotations = 1
    MaxSwitches = 1
INVARIANTS TypeOK DuplicatesInv CrashInv DuplicatesBounded CrashSafe ShownStored
PROPERTY ImplementsLedger
SYMMETRY Symmetry
