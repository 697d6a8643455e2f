\* Two participants on two pages of one row, read while they submit.
SPECIFICATION FairSpec
CONSTANTS
    None = None
    u1 = u1
    u2 = u2
    Users = {u1, u2}
    Scores <- ScoresTwo
    Pages <- PagesOfOne
    Requests = {r1, r2}
    MaxTime = 1
INVARIANTS PagesFreshUnlessRaced NobodyLeftOut
PROPERTIES RankingShows
