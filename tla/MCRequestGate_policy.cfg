\* Does the limiter follow the policy?
SPECIFICATION Spec
CONSTANTS
    None = None
    Users = {a1, a2}
    Seeded = {a1, a2}
    Processes = {p1, p2}
    Requests = {r1, r2}
    Default = 2
    Points = {1, 2}
    Posts <- PostsTuned
    MaxAsks = 4
    Window = 1
    BlockTime = 2
    Life = 1
    MaxTime = 2
    MaxRestarts = 1
PROPERTIES PolicyTakesEffect
CHECK_DEADLOCK FALSE
