CONSTANTS
    a = a
    b = b
    c1 = c1
    c2 = c2
    l1 = l1
    Models = {a, b}
    Chats = {c1, c2}
    LoadCalls = {l1}
    ModelOf <- MCModelOf
    Size <- MCSize
    Capacity = 1
    Disturbances = 1
    NoModel = NoModel
SPECIFICATION FairSpec
INVARIANTS AdmittedFit
PROPERTIES ServedNotShut CallsEnd
CHECK_DEADLOCK FALSE
