CONSTANTS
    t1 = t1  t2 = t2
    k1 = k1  k2 = k2
    v1 = v1  v2 = v2
    r1 = r1  r2 = r2  r3 = r3  r4 = r4
    None = None
    Tables = {t1, t2}
    Keys = {k1, k2}
    Vals = {v1}
    Rows = {r1, r2, r3}
    Indexed = {t1}
    Habits = {"bare", "replace", "triggers"}
    MaxDepth = 2
    LogLimit = 4
    StampLimit = 3
SPECIFICATION Spec
SYMMETRY Symmetry
INVARIANTS
    TypeOK
    RollbackRestores
    RowsAccounted
    StampTellsChange
PROPERTIES
    NestedSpec
