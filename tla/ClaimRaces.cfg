CONSTANTS
    t1 = t1
    t2 = t2
    a1 = a1
    c1 = c1
    c2 = c2
    None = None
    Agents <- OneAgent
    Room <- RoomForTwo
    Calls <- TwoCalls
    MaxFaults = 1
    Rows <- TwoRows
    AgentOf <- TwoRowsOf
    Runtimes = {r1}
    Elsewhere = {}
    Slots = 2
SPECIFICATION Spec
SYMMETRY Symmetry
INVARIANTS
    ToldIsVisible
    ClaimsFitSlots
    NotifiedIsServed
