\* One run at a time, a fixed schedule, two participants and two prizes.
SPECIFICATION Spec
CONSTANTS
    None = None
    Users = {u1, u2}
    Scores = {0, 1}
    Ranks = {1, 2}
    PrizeIds = {p1, p2}
    Requests = {r1}
    Workers = {w1}
    Contests <- ContestsFixed
    Overlap = FALSE
    Attempts = 2
    MaxStalls = 1
    MaxTime = 2
SYMMETRY Renamings
INVARIANTS AwardsFollowRanking
PROPERTIES OneRound
