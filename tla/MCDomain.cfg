CONSTANTS
    c1 = c1  c2 = c2
    t1 = t1  t2 = t2  v1 = v1
    Bad = Bad
    Empty = Empty
    None = None
    Clients = {c1, c2}
    Tables = {t1, t2}
    Exports <- TheExports
    Watches <- TheWatches
    Vals = {v1}
    Errors = {FALSE}
    Requests <- TheRequests
    MaxSets <- TheSets
    MaxLinks <- TheLinks
    MaxUnread = 3
    MaxCrashes = 1
    Habits = {}
SPECIFICATION FairSpec
CHECK_DEADLOCK FALSE
INVARIANTS
    Sound
    Served
    AnswersAreTrue
    ToldIsCurrent
PROPERTIES
    ComesBack
