SPECIFICATION FairSpec
CHECK_DEADLOCK FALSE
CONSTANTS
  c1 = c1  c2 = c2  c3 = c3
  s1 = s1  s2 = s2  s3 = s3  s4 = s4
  Clients = {c1, c2, c3}
  Sets = {s1, s2, s3, s4}
  OwnerOf <- Owners
  Refused = {s4}
  Populations <- OneByOne
  Ready = {c2, c3}
  Resources = {r1}
  Mandatory = {r1}
  Fragile = {c1}
  MaxRefs <- Copies
  MaxSeqno <- Requests
  MaxQueue = 1
  Habits = {}
  None = None
INVARIANTS
    BeliefsAreRight
    SetsCorrespond
PROPERTIES
    GoneAreForgotten
    Answered
