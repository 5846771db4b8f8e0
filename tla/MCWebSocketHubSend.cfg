SPECIFICATION Spec
CONSTANTS
    c1 = c1  c2 = c2  i1 = i1
    Conns = {c1, c2}
    IDs = {i1}
    Id <- SameId
    NoClient = NoClient
    SendCap = 1
    BroadcastCap = 1
    RegisterCap = 2
INVARIANTS
    SendNeverPanics
