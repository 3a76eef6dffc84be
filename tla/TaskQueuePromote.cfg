SPECIFICATION Spec
CONSTANTS
    t1 = t1  t2 = t2  t3 = t3  t4 = t4
    x1 = x1  x2 = x2  y1 = y1  a1 = a1  a2 = a2
    None = None
    Tasks <- FourTasks
    Lanes = {x1}
    Agents = {a1}
    AgentOf <- OneLane
    Cap <- RoomForOne
    Runtimes = {r1}
    Reasons = {"network"}
    ColumnBudget = 2
    NetworkAttempts = 3
    LossyReports = FALSE
    MaxRoots = 2
    MaxClaims <- EachOnce
SYMMETRY Symmetry
INVARIANT PromotionNeverConflicts
