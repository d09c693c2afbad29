CONSTANTS
    t1 = t1  t2 = t2
    d1 = d1  d2 = d2  d3 = d3
    w1 = w1  w2 = w2  w3 = w3
    k1 = k1  s1 = s1
    f1 = f1  f2 = f2
    None = None
    Timers = {t1, t2}
    Deferreds = {d1, d2}
    Watches = {w1, w2, w3}
    Wakeups = {k1}
    Subloops = {s1}
    Fds = {f1, f2}
    Masks <- BothWays
    Reported <- KernelEvents
    Mixes <- AllMixes
    Habits = {}
    Calls = 2
    MaxInterval = 2
    HupLimit = 1
SPECIFICATION FairSpec
CHECK_DEADLOCK FALSE
INVARIANTS
    Sound
    NothingForgotten
PROPERTIES
    DueIsServed
