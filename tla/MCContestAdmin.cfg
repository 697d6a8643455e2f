SPECIFICATION FairSpec
CONSTANTS
    None = None
    Ids = {c1}
    c1 = c1
    Lists <- MCLists
    Posts <- MCPosts
    Requests = {r1, r2}
    MaxTime = 2
    MaxWrites = 2
INVARIANTS TypeOK FreshUnlessRaced WindowsAreValid
PROPERTIES ScheduleHeld FreshInTheEnd
