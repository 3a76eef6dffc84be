SPECIFICATION LiveSpec
CONSTANTS
    ann = ann
    bob = bob
    p1 = p1
    Users = {ann, bob}
    None = None
    First = ann
    Pollers = {p1}
    MaxProcs = 2
    MaxEvents = 2
INVARIANTS TokenIsOwners OwnDaemon
PROPERTY RunningIsShown
CHECK_DEADLOCK FALSE
