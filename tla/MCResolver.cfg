SPECIFICATION FairSpec
CHECK_DEADLOCK FALSE
CONSTANTS
    Facts = {1, 2}
    Rulesets <- Small
    AutoTarget = 6
    MaxChanges = 2
    Habits = {}
INVARIANTS
    SortedRight
    StaleIsKnown
PROPERTIES
    StaleIsResolved
