\* Two administrators and two processes that share a window of one or three requests.
SPECIFICATION Spec
CONSTANTS
    None = None
    Users = {a1, a2}
    Seeded = {a1, a2}
    Processes = {p1, p2}
    Requests = {r1, r2}
    Default = 3
    Points = {1, 3}
    Posts <- PostsTuned
    MaxAsks = 4
    Window = 1
    BlockTime = 2
    Life = 1
    MaxTime = 2
    MaxRestarts = 1
SYMMETRY Renamings
INVARIANTS TypeOK WindowBudget AdminRemains DemotionTakesHold
CHECK_DEADLOCK FALSE
