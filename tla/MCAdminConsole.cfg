\* An administrator and another person at one browser, two contests.
SPECIFICATION AFairSpec
CONSTANTS
    None = None
    Users = {adm, usr}
    Admins = {adm}
    Contests = {a, b}
    Active = {}
    Multi = {}
    Options = {o1}
    Calls = {s1, s2}
    Visits = {"login", "admin", "adminContest"}
    MaxClicks = 6
INVARIANTS ScreenMatchesUrl DialogOverItsPage ListIsCurrent
PROPERTIES Settles
CHECK_DEADLOCK FALSE
