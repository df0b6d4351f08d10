SPECIFICATION Spec
CONSTANTS
    Requests = {r1, r2}
    Ids = {u1}
    Names = {n1}
    Emails = {e1}
    Inodes = {i1, i2}
    None = None
    NoUser = NoUser
    NoJob = NoJob
    Rows = {k1, k2}
    Operations = {"toggle", "sync"}
    MaxRequests = 2
    MaxFaults = 0
INVARIANT PasswdWhole
CHECK_DEADLOCK FALSE
SYMMETRY Symmetry
