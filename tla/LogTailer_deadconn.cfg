SPECIFICATION FairSpec
CONSTANTS
    Names = {n1, n2}
    Inodes = {i1, i2}
    None = None
    BatchLimit = 1
    MaxLen = 1
    MaxCrashes = 0
    MaxDbFaults = 1
    MaxRotations = 0
    MaxSwitches = 1
PROPERTY FollowsSetting
