SPECIFICATION Spec
CONSTANTS
    t1 = t1  t2 = t2  t3 = t3  t4 = t4
    x1 = x1  x2 = x2  y1 = y1  a1 = a1  a2 = a2
    None = None
    Tasks <- TwoTasks
    Lanes = {x1, x2, y1}
    Agents = {a1, a2}
    AgentOf <- TwoAgents
    Cap <- RoomPerAgent
    Runtimes = {r1}
    Reasons = {"infra"}
    ColumnBudget = 2
    NetworkAttempts = 3
    LossyReports = TRUE
    MaxRoots = 2
    MaxClaims <- EachTwice
SYMMETRY Symmetry
INVARIANTS TypeOK WithinCapacity LaneExclusive OneExecution DeliveredIsNotQueued
PROPERTY ImplementsLedger
