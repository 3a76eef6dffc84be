SPECIFICATION LiveSpec
CONSTANTS
    MaxVersion = 3
    MaxFaults = 3
    MaxVisits = 2
INVARIANTS OneAttempt CaughtUp
PROPERTY Reconnects
