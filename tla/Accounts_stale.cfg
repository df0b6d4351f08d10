SPECIFICATION Spec
CONSTANTS
    Requests = {r1, r2}
    Ids = {u1, u2}
    Names = {n1, n2}
    Emails = {e1, e2}
    Inodes = {i1, i2}
    None = None
    NoUser = NoUser
    NoJob = NoJob
    Rows = {k1, k2}
    Operations = {"toggle", "delete", "password"}
    MaxRequests = 2
    MaxFaults = 0
INVARIANT SyncedWhenIdle
CHECK_DEADLOCK FALSE
SYMMETRY Symmetry
