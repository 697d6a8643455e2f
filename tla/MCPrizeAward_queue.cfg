\* A stalled job is run again while its first run goes on, and the schedule moves.
SPECIFICATION FairSpec
CONSTANTS
    None = None
    Users = {u1}
    Scores = {0}
    Ranks = {1}
    PrizeIds = {p1, p2}
    Requests = {r1}
    Workers = {w1, w2}
    Contests <- ContestsMoved
    Overlap = TRUE
    Attempts = 2
    MaxStalls = 1
    MaxTime = 3
INVARIANTS TypeOK AwardedAfterAnEnd
PROPERTIES PrizeWonOnce PrizesAreAwarded
