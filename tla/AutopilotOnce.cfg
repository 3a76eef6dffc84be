SPECIFICATION LiveSpec
CONSTANTS
    w1 = w1
    w2 = w2
    f = f
    None = None
    Workers = {w1, w2}
    Front = f
    MaxDispatches = 2
    MaxAttempts = 2
    MaxFaults = 2
    MaxReplayFaults = 1
INVARIANTS OneTask DoneHasWork AcceptedIsKept
PROPERTIES PlanKeepsLedger DeliverySettles
CHECK_DEADLOCK FALSE
