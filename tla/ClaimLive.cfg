CONSTANTS
    t1 = t1
    t2 = t2
    a1 = a1
    c1 = c1
    c2 = c2
    None = None
    Agents <- OneAgent
    Room <- RoomForTwo
    Calls = {c1}
    MaxFaults = 2
    Rows <- OneRow
    AgentOf <- OneRowOf
    Runtimes = {r1, r2}
    Elsewhere = {x}
    Slots = 1
SPECIFICATION LiveSpec
PROPERTIES QueuedIsDone ImplementsLedger
