CONSTANTS
    s1 = s1  s2 = s2  s3 = s3
    c1 = c1  c2 = c2
    low = low  high = high  top = top
    z1 = z1
    play = play  rec = rec
    None = None
    Sets = {s1, s2, s3}
    Clients = {c1, c2}
    Classes = {low, top}
    Zones = {z1}
    Resources = {play, rec}
    ClassList <- TwoClasses
    Modal = {top}
    ClassShare = {}
    Lifo = {low}
    Shareable = {}
    Managed = {}
    HasVeto = FALSE
    Profiles <- ModalProfiles
    ReqIds = {1}
    InvalidReqno = 9
    StampMax = 4
SPECIFICATION Spec
SYMMETRY Symmetry
INVARIANTS
    FreeIsGiven
