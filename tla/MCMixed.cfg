CONSTANTS
    s1 = s1  s2 = s2  s3 = s3
    c1 = c1  c2 = c2
    low = low  high = high  top = top
    z1 = z1
    play = play  rec = rec
    None = None
    Sets = {s1, s2, s3}
    Clients = {c1, c2}
    Classes = {low, high, top}
    Zones = {z1}
    Resources = {play, rec}
    ClassList <- ThreeClasses
    Modal = {top}
    ClassShare = {high}
    Lifo = {low}
    Shareable = {play}
    Managed = {rec}
    HasVeto = FALSE
    Profiles <- MixedProfiles
    ReqIds = {1}
    InvalidReqno = 9
    StampMax = 3
SPECIFICATION Spec
SYMMETRY Symmetry
INVARIANTS
    TypeOK
    ExclusiveGrants
    AllOrNothing
    GreedyGrants
    EveryoneInformed
    OwnersHold
PROPERTIES
    LossIsPreemption
    GrantsSpec
