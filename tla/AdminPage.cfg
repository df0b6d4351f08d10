SPECIFICATION Spec
CONSTANTS
    Ids = {u1, u2}
    e1 = e1
    E1 = E1
    Emails = {e1, E1, e2}
    Normal <- NormalIs
    NoUser = NoUser
    MaxClicks = 2
    MaxFaults = 1
INVARIANTS TypeOK ListRight DetailRight RowsRight
PROPERTY ButtonHonest
CHECK_DEADLOCK FALSE
SYMMETRY Symmetry
