SPECIFICATION Spec
CONSTANTS
    Requests = {m1, m2, m3}
    Names = {n1, n2}
    Passwords = {p1, p2}
    Missing = Missing
    MaxRestarts = 1
    Savers = {s1}
    Records = {d1, d2}
    Rows = {m1, m2, m3}
    None = None
    DaySettings = {1, 2}
    DefaultDays = 2
    StartDay = 1
    MaxToday = 5
    MaxFaults = 1
    Times = {1, 2, 3}
    Limit = 1
    MaxCalls = 3
INVARIANTS AuthTypeOK RetentionTypeOK PagesTypeOK VerdictTrue AgeBounded SummaryFair NothingMissed
PROPERTIES ReplacesKnown EnvIgnored PrunedAsSet
SYMMETRY Symmetry
CHECK_DEADLOCK FALSE
