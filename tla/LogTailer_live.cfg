SPECIFICATION FairSpec
CONSTANTS
    Names = {n1, n2}
    Inodes = {i1, i2}
    None = None
    BatchLimit = 1
    MaxLen = 2
    MaxCrashes = 1
    MaxDbFaults = 0
    MaxRotations = 0
    MaxSwitches = 1
PROPERTIES EventuallyStored FollowsSetting
