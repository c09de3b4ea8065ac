CONSTANTS
    Keys <- MC_Keys
    Elems <- MC_Elems
    Clients <- MC_TwoClients
    Scores = {1, 2}
    Ops = {"LPush", "LPop"}
    TTLs = {0}
    initialListMark = 0
    Nil = Nil
    NotFound = NotFound
    WrongType = WrongType
    NoCmd = NoCmd
    Pending = Pending
    Absent = Absent
    k1 = k1
    a = a
    b = b
    c1 = c1
    c2 = c2
SPECIFICATION Spec
CONSTRAINT MC_Bound
INVARIANT MetadataConsistent

