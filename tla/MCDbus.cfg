SPECIFICATION FairSpec
CHECK_DEADLOCK FALSE
CONSTANTS
  c1 = c1  c2 = c2
  play = play  rec = rec  odd = odd
  Clients = {c1}
  Resources = {play}
  Unknown = {odd}
  Classes = {"default", "nosuch"}
  KnownClasses = {"default"}
  DefaultClass = "default"
  MaxSets = 2
  MaxObjects = 1
  MaxCalls = 1
  Habits = {}
  None = None
INVARIANTS
    Sound
    ObjectsAreTrue
PROPERTIES
    LeaversAreForgotten
