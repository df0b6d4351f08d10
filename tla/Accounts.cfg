SPECIFICATION Spec
CONSTANTS
    Requests = {r1, r2}
    Ids = {u1, u2}
    Names = {n1, n2}
    Emails = {e1, e2}
    Inodes = {i1, i2}
    None = None
    NoUser = NoUser
    NoJob = NoJob
    Rows = {k1, k2}
    Operations = {"register", "create", "toggle", "password", "email", "notes", "delete", "sync",
                  "import"}
    MaxRequests = 2
    MaxFaults = 1
INVARIANTS TypeOK SyncedWhenQuiet NeverPartial AuditTruthful
PROPERTIES HashKept ImplementsPasswdFile
CHECK_DEADLOCK FALSE
SYMMETRY Symmetry
