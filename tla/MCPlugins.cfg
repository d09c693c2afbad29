SPECIFICATION Spec
CHECK_DEADLOCK FALSE
CONSTANTS
    c1 = c1
    c2 = c2
    c3 = c3
    lib = lib
    app = app
    n1 = n1
    n2 = n2
    n3 = n3
    m1 = m1
    w1 = w1
    w2 = w2
    None = None
    Cells = {c1, c2, c3}
    Descrs = {lib, app}
    Names = {n1, n2, n3}
    Methods = {m1}
    Singletons = {app}
    Watches = {w1, w2}
    Habits = {"stop"}
    InstanceLimit = 2
    DepthLimit = 5
    Plans <- MCPlans
    Exports <- MCExports
    Imports <- MCImports
    Mask <- MCMask
SYMMETRY Symmetry
INVARIANTS
    Sound
    AllStarted
