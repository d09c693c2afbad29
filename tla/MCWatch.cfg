CONSTANTS
    t1 = t1
    k1 = k1
    v1 = v1  v2 = v2
    r1 = r1  r2 = r2  r3 = r3
    p1 = p1
    None = None
    Tables = {t1}
    Keys = {k1}
    Vals = {v1, v2}
    Rows = {r1, r2, r3}
    Indexed = {t1}
    Habits = {"triggers"}
    MaxDepth = 2
    LogLimit = 3
    StampLimit = 3
    Proxies = {p1}
    Watches <- WatchAll
SPECIFICATION WatchSpec
INVARIANTS
    NoMissedChange
PROPERTIES
    ChangesAreTold
