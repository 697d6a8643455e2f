\* Two people at one browser, two running contests, two handlers in flight.
SPECIFICATION FairSpec
CONSTANTS
    None = None
    Users = {u1, u2}
    Admins = {}
    Contests = {a, b}
    Active = {a, b}
    Multi = {a}
    Options = {o1, o2}
    Calls = {s1, s2}
    Visits = {"elsewhere", "contests", "login", "dashboard", "leaderboard", "quiz"}
    MaxClicks = 6
INVARIANTS QuizOnScreen ScreenMatchesUrl OneSession
PROPERTIES SubmitsWhatWasPressed Settles
CHECK_DEADLOCK FALSE
