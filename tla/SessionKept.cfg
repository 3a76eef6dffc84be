SPECIFICATION LiveSpec
CONSTANTS
    Users = {u1, u2}
    None = None
    MaxTokens = 2
    MaxKills = 1
INVARIANTS TypeOK InStep
PROPERTIES SessionKept ExpiredSessionEnds
