CONSTANTS
    a = a
    b = b
    i1 = i1
    i2 = i2
    n1 = n1
    b1 = b1
    Requests <- PlainRequests
    Clients = {a, b}
    ClientOf <- ClientPerClass
    PriorityOf <- PriorityByName
    MaxInflight = 1
    QueueDepth = 2
    Keys = {"one", "two"}
    OsReserve = 10
    Resident = 25
    Retained = {0, 10}
    Reserve = 8
    Budget = 20
    LeastGrowth = 1
    Ceiling = 8
    FirstLimit = 1
    Wanted <- SixForOne
    Tight = {"one"}
    Levels = {5, 10, 30}
    MaxChanges = 4
SPECIFICATION MCSpec
INVARIANTS SlotsAccounted ClassesServedInTurn CriticalFits
PROPERTIES WaitersSettle ChangesHeeded
