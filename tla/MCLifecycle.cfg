CONSTANTS
    client = client
    Readers = {q1, q2, q3}
    Writers = {w1}
    Clients = {client}
    ClientOf <- OneClient
    PriorityOf <- OneClass
    MaxInflight = 1
    QueueDepth = 1
    MaxGeneration = 2
SPECIFICATION FairSystemSpec
INVARIANTS ResourcesReturned RotationWaitsForRequests
PROPERTIES RequestsEnd RotationsGetTurn
CHECK_DEADLOCK FALSE
