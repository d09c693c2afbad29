CONSTANTS
    t1 = t1  t2 = t2
    k1 = k1  k2 = k2
    v1 = v1  v2 = v2
    r1 = r1  r2 = r2  r3 = r3  r4 = r4
    None = None
    Tables = {t1}
    Keys = {k1, k2}
    Vals = {v1}
    Rows = {r1, r2, r3}
    Indexed = {t1}
    Habits = {"bare", "triggers", "replace", "replace_bare", "rekey_taken", "inner_commit"}
    MaxDepth = 2
    LogLimit = 3
    StampLimit = 3
SPECIFICATION Spec
CHECK_DEADLOCK FALSE
SYMMETRY Symmetry
INVARIANTS
    IndexPointsToRows
