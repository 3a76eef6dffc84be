SPECIFICATION MCSpec
CONSTANTS
    m1 = m1
    r1 = r1
    r2 = r2
    Status = {"todo", "done"}
    First = "todo"
    Mutations = {m1}
    None = None
    Remotes = {r1, r2}
    MaxDrops = 1
INVARIANTS TypeOK ListMirrors DetailMirrors
PROPERTY Converges
CHECK_DEADLOCK FALSE
