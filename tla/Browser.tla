------------------------------- MODULE Browser -------------------------------
(***************************************************************************)
(* One tab of the web client: the router, the session in localStorage and  *)
(* in state.js, and the pages of a participant.  A handler runs to its     *)
(* next await in one step; `call' holds the handlers that wait for an      *)
(* answer.  Nothing cancels them: when the answer comes they go on, on     *)
(* whatever page the tab shows by then.                                    *)
(***************************************************************************)
EXTENDS Naturals, FiniteSets

CONSTANTS
    Users,       \* the people who sign in at this browser
    Admins,      \* those of them whose role is ADMIN
    Contests,
    Active,      \* the contests that are running
    Multi,       \* the contests whose question is MULTI_SELECT
    Options,     \* the options of a question; each contest has one question
    Calls,       \* slots for handlers in flight (a bound)
    Visits,      \* the pages the user goes to
    MaxClicks,   \* bound on what the user does
    None

\* The pages of the router; "elsewhere" stands for every path it does not know.
Pages == {"elsewhere", "contests", "login", "signup", "dashboard", "leaderboard", "quiz",
          "admin", "adminContest"}

ASSUME BrowserAssumption ==
    /\ None \notin Users \cup Contests \cup Pages
    /\ \A o \in SUBSET Options : o # None
    /\ Visits \subseteq Pages
    /\ Admins \subseteq Users
    /\ Active \subseteq Contests
    /\ Multi \subseteq Contests
    /\ Calls # {}
    /\ MaxClicks \in Nat

VARIABLES
    loc,      \* the location: a page and the contest in its path
    app,      \* what #app shows
    token,    \* whose token localStorage holds
    me,       \* currentUser of state.js
    quiz,     \* quizState: the contest and the answers
    dialog,   \* the dialog in the modal overlay, None when it is closed
    call,     \* the handlers in flight
    entry,    \* at the server: the participation of each user in each contest
    clicks,   \* number of user actions
    hurry     \* history: what was still in flight when the user acted

vars == <<loc, app, token, me, quiz, dialog, call, entry, clicks, hurry>>

At(p) == [page |-> p, id |-> None]
Of(p, c) == [page |-> p, id |-> c]

ContestPages == {"quiz", "leaderboard", "adminContest"}

Locations ==
    {At(p) : p \in Visits \ ContestPages} \cup
    {Of(p, c) : p \in Visits \cap ContestPages, c \in Contests}

\* What #app shows: the page and contest it is of, how far it got, whose data
\* it holds, the calls that will fill a part of it, the options marked on it.
Screen(p, c, v) ==
    [page |-> p, id |-> c, view |-> v, owner |-> None, wait |-> {}, marked |-> {}]
Closed == Screen(None, None, "closed")
Blank == Screen(None, None, "blank")
Spinner == Screen(None, None, "spinner")

Idle == [kind |-> "idle"]
InFlight(kinds) == \E s \in Calls : call[s].kind \in kinds

NoAnswers == [c \in Contests |-> None]
NoQuiz == [id |-> None, answers |-> NoAnswers]
-----------------------------------------------------------------------------
(* The router *)

canAccess(l, t, u) ==
    /\ l.page \in {"dashboard", "admin", "adminContest"} => t # None
    /\ l.page \in {"admin", "adminContest"} => u \in Admins

\* The redirects of renderCurrentRoute and of navigate, with their replace.
Landing(l, t, u) ==
    IF l.page = "elsewhere" THEN At("contests")
    ELSE IF canAccess(l, t, u) THEN l
    ELSE At("login")

\* What each page shows, and the call it makes, up to its first await.
renderAuthPage(l) == [screen |-> Screen(l.page, None, "ready"), call |-> Idle]
renderContestsPage(s) ==
    [screen |-> [Screen("contests", None, "ready") EXCEPT !.wait = {s}],
     call |-> [kind |-> "contests"]]
renderLeaderboardPage(c) ==
    [screen |-> Spinner, call |-> [kind |-> "leaderboard", id |-> c]]
renderDashboardPage(t) ==
    [screen |-> Spinner, call |-> [kind |-> "dashboard", as |-> t]]
renderQuizPage(c) ==
    [screen |-> Spinner,
     call |-> [kind |-> "quiz", id |-> c, step |-> "contest", as |-> None, part |-> "none"]]
renderAdminPage(s, u) ==
    IF u \in Admins
    THEN [screen |-> [Screen("admin", None, "ready") EXCEPT !.wait = {s}],
          call |-> [kind |-> "lists", parts |-> {"contests", "users"}, seen |-> None]]
    ELSE [screen |-> Screen("admin", None, "error"), call |-> Idle]
renderAdminContestPage(c, u) ==
    IF u \in Admins
    THEN [screen |-> Spinner, call |-> [kind |-> "adminContest", id |-> c]]
    ELSE [screen |-> Screen("adminContest", c, "error"), call |-> Idle]

routes(l, s, t, u) ==
    CASE l.page \in {"login", "signup"} -> renderAuthPage(l)
      [] l.page = "contests" -> renderContestsPage(s)
      [] l.page = "leaderboard" -> renderLeaderboardPage(l.id)
      [] l.page = "quiz" -> renderQuizPage(l.id)
      [] l.page = "dashboard" -> renderDashboardPage(t)
      [] l.page = "admin" -> renderAdminPage(s, u)
      [] l.page = "adminContest" -> renderAdminContestPage(l.id, u)

\* Mutant: the answers of the last quiz are kept.
quizStateKept(l) == IF l.page = "quiz" THEN [quiz EXCEPT !.id = l.id] ELSE quiz

\* Mutant: quizState is filled in by the first quiz only.
quizStateOnce(l) ==
    IF l.page = "quiz" /\ quiz.id = None THEN [NoQuiz EXCEPT !.id = l.id] ELSE quiz

\* renderQuizPage starts from an empty quizState.
quizState(l) == IF l.page = "quiz" THEN [NoQuiz EXCEPT !.id = l.id] ELSE quiz

\* Render location l with token t and user u, in slot s of the calls.
renderCurrentRoute(l, s, t, u) ==
    LET to == Landing(l, t, u)
        page == routes(to, s, t, u)
    IN  /\ loc' = to
        /\ app' = page.screen
        /\ call' = [call EXCEPT ![s] = page.call]
        /\ quiz' = quizState(to)

\* A handler that ends without doing more than a toast.
Ends(s) ==
    /\ call' = [call EXCEPT ![s] = Idle]
    /\ UNCHANGED <<loc, app, quiz>>

\* A handler that ends by writing #app, whatever #app showed.
Paints(s, screen) ==
    /\ call' = [call EXCEPT ![s] = Idle]
    /\ app' = screen
    /\ UNCHANGED <<loc, quiz>>
-----------------------------------------------------------------------------
(* The user *)

Painters == {"boot", "login", "quiz", "submit", "leaderboard", "dashboard",
             "adminContest", "dialog", "remove", "deleteContest"}

\* What a user does not wait for who acts now.
Hurries ==
    {h \in {"quiz", "page", "session", "list"} :
        \/ h = "quiz" /\ InFlight({"quiz", "submit"})
        \/ h = "page" /\ InFlight(Painters)
        \/ h = "session" /\ InFlight({"boot", "login"})
        \/ h = "list" /\ InFlight({"lists"})}

Slot == CHOOSE s \in Calls : call[s] = Idle

Boot(t) == [kind |-> "boot", as |-> t]

\* Without a token to check, init reaches the first page in one go.
Clicks ==
    /\ app.view # "closed"
    /\ \A s \in Calls : call[s] # Boot(None)
    /\ clicks < MaxClicks
    /\ \E s \in Calls : call[s] = Idle
    /\ clicks' = clicks + 1

Acts == Clicks /\ hurry' = hurry \cup Hurries

\* Mutant: the overlay lets clicks through.
ActsThrough == Acts

\* The overlay covers the page and the navigation bar.
ActsOnPage == Acts /\ dialog = None

\* A load of the page in the tab: the scripts start from nothing.
Load(l) ==
    /\ clicks < MaxClicks
    /\ clicks' = clicks + 1
    /\ loc' = l
    /\ app' = Blank
    /\ me' = None
    /\ quiz' = NoQuiz
    /\ dialog' = None
    /\ call' = [s \in Calls |->
           IF s = CHOOSE x \in Calls : TRUE THEN Boot(token) ELSE Idle]
    /\ hurry' = {}
    /\ UNCHANGED <<token, entry>>

\* A link, or Back and Forward: the history may hold any location.  Back works
\* under an open dialog, which stays.
Visit(l) ==
    /\ Clicks
    /\ hurry' = hurry \cup Hurries \cup (IF dialog = None THEN {} ELSE {"page"})
    /\ renderCurrentRoute(l, Slot, token, me)
    /\ UNCHANGED <<token, me, dialog, entry>>

\* Mutant: signing out leaves the page on the screen.
doLogoutStays ==
    /\ me # None
    /\ ActsOnPage
    /\ token' = None
    /\ me' = None
    /\ UNCHANGED <<loc, app, quiz, call, dialog, entry>>

\* The button is there when updateNavbar last saw a user.
doLogout ==
    /\ me # None
    /\ ActsOnPage
    /\ token' = None
    /\ me' = None
    /\ renderCurrentRoute(At("contests"), Slot, None, None)
    /\ UNCHANGED <<dialog, entry>>

SignIn(u) ==
    /\ app.page \in {"login", "signup"}
    /\ ActsOnPage
    /\ call' = [call EXCEPT ![Slot] = [kind |-> "login", as |-> u]]
    /\ UNCHANGED <<loc, app, token, me, quiz, dialog, entry>>
-----------------------------------------------------------------------------
(* Answers to the session and to the pages that only read *)

Answered(s, kind) ==
    /\ call[s].kind = kind
    /\ UNCHANGED <<dialog, clicks, hurry>>

\* Mutant: a failed check forgets the user and keeps the token.
BootAnswerKeepsToken(s) ==
    /\ Answered(s, "boot")
    /\ me' \in {call[s].as, None}
    /\ renderCurrentRoute(loc, s, token, me')
    /\ UNCHANGED <<token, entry>>

\* loadCurrentUser and the rest of init: any failure drops the token.
BootAnswer(s) ==
    /\ Answered(s, "boot")
    /\ \/ token' = token /\ me' = call[s].as
       \/ token' = None /\ me' = None
    /\ renderCurrentRoute(loc, s, token', me')
    /\ UNCHANGED entry

LoginAnswer(s) ==
    /\ Answered(s, "login")
    /\ \/ /\ token' = call[s].as
          /\ me' = call[s].as
          /\ renderCurrentRoute(At("contests"), s, token', me')
       \/ Ends(s) /\ UNCHANGED <<token, me>>
    /\ UNCHANGED entry

\* The list element is taken before the await: a list that is no longer on
\* the page is filled in vain.
ContestsAnswer(s) ==
    /\ Answered(s, "contests")
    /\ Paints(s, [app EXCEPT !.wait = @ \ {s}])
    /\ UNCHANGED <<token, me, entry>>

LeaderboardAnswer(s) ==
    /\ Answered(s, "leaderboard")
    /\ \E v \in {"ready", "error"} : Paints(s, Screen("leaderboard", call[s].id, v))
    /\ UNCHANGED <<token, me, entry>>

DashboardAnswer(s) ==
    /\ Answered(s, "dashboard")
    /\ \/ Paints(s, [Screen("dashboard", None, "ready") EXCEPT !.owner = call[s].as])
       \/ Paints(s, Screen("dashboard", None, "error"))
    /\ UNCHANGED <<token, me, entry>>
-----------------------------------------------------------------------------
(* The quiz page *)

\* The next await of the quiz page, made with the token of that moment.
Awaits(s, step, part) ==
    /\ call' = [call EXCEPT ![s] = [@ EXCEPT !.step = step, !.as = token, !.part = part]]
    /\ UNCHANGED <<loc, app, quiz>>

AtStep(s, kind, step) == Answered(s, kind) /\ call[s].step = step

QuizView(s, v) == Paints(s, Screen("quiz", call[s].id, v))

QuizContest(s) ==
    /\ AtStep(s, "quiz", "contest")
    /\ \/ QuizView(s, "error")
       \/ /\ token # None /\ call[s].id \in Active
          /\ Awaits(s, "join", "none")
       \/ /\ token = None \/ call[s].id \notin Active
          /\ QuizView(s, "ready")
    /\ UNCHANGED <<token, me, entry>>

\* The participation is known: fetch the questions, unless it is submitted.
Participates(s, part) ==
    \/ part = "started" /\ Awaits(s, "questions", part)
    \/ part # "started" /\ QuizView(s, "ready")

\* A join that is refused, or whose answer is lost, leaves only a toast; one
\* that comes second is answered with the participation from the history.
QuizJoin(s) ==
    LET u == call[s].as
        c == call[s].id
    IN  /\ AtStep(s, "quiz", "join")
        /\ \/ /\ entry[u][c] = "none"
              /\ entry' = [entry EXCEPT ![u][c] = "started"]
              /\ Participates(s, "started") \/ Participates(s, "none")
           \/ /\ entry[u][c] # "none"
              /\ Awaits(s, "history", "none")
              /\ UNCHANGED entry
           \/ Participates(s, "none") /\ UNCHANGED entry
        /\ UNCHANGED <<token, me>>

\* Mutant: a history that cannot be read is nobody's error.
QuizHistoryUncaught(s) ==
    /\ AtStep(s, "quiz", "history")
    /\ \/ Ends(s)
       \/ /\ call[s].as # None
          /\ Participates(s, entry[call[s].as][call[s].id])
    /\ UNCHANGED <<token, me, entry>>

\* The history is asked for its first page, which may lack the participation.
QuizHistory(s) ==
    /\ AtStep(s, "quiz", "history")
    /\ \/ QuizView(s, "error")
       \/ /\ call[s].as # None
          /\ \E part \in {entry[call[s].as][call[s].id], "none"} : Participates(s, part)
    /\ UNCHANGED <<token, me, entry>>

QuizQuestions(s) ==
    /\ AtStep(s, "quiz", "questions")
    /\ \/ call[s].as # None /\ QuizView(s, "play")
       \/ QuizView(s, "ready")
    /\ UNCHANGED <<token, me, entry>>

\* A click on an option marks it on the screen and in quizState.
selectOption(o) ==
    LET c == app.id
        unmark == c \in Multi /\ o \in app.marked
        add(S) == IF unmark THEN S \ {o} ELSE IF c \in Multi THEN S \cup {o} ELSE {o}
        old == IF quiz.answers[c] = None THEN {} ELSE quiz.answers[c]
    IN  /\ app.view = "play"
        /\ ActsOnPage
        /\ app' = [app EXCEPT !.marked = add(@)]
        /\ quiz' = [quiz EXCEPT !.answers[c] = add(old)]
        /\ UNCHANGED <<loc, token, me, dialog, call, entry>>

Answer == {c \in Contests : quiz.answers[c] # None}

\* The server refuses an answer without options.
Postable == \A c \in Answer : quiz.answers[c] # {}

saveAnswers ==
    /\ app.view = "play"
    /\ Answer # {}
    /\ ActsOnPage
    /\ call' = [call EXCEPT ![Slot] = [kind |-> "save", to |-> quiz.id, of |-> Answer]]
    /\ UNCHANGED <<loc, app, token, me, quiz, dialog, entry>>

SaveAnswer(s) ==
    /\ Answered(s, "save")
    /\ Ends(s)
    /\ UNCHANGED <<token, me, entry>>

\* The draft first, unless nothing was answered; each call goes to the contest
\* that quizState names at that moment.
submitContest ==
    /\ app.view = "play"
    /\ ActsOnPage
    /\ call' = [call EXCEPT ![Slot] =
           [kind |-> "submit", step |-> IF Answer = {} THEN "submit" ELSE "save",
            id |-> app.id, by |-> token, to |-> quiz.id, as |-> token,
            of |-> Answer, whole |-> Postable]]
    /\ UNCHANGED <<loc, app, token, me, quiz, dialog, entry>>

SubmitSaved(s) ==
    /\ AtStep(s, "submit", "save")
    /\ \/ /\ call[s].whole
          /\ call' = [call EXCEPT ![s] =
                 [@ EXCEPT !.step = "submit", !.to = quiz.id, !.as = token]]
          /\ UNCHANGED <<loc, app, quiz>>
       \/ Ends(s)
    /\ UNCHANGED <<token, me, entry>>

SubmitAnswer(s) ==
    LET u == call[s].as
        c == call[s].to
    IN  /\ AtStep(s, "submit", "submit")
        /\ \/ /\ u # None /\ c # None
              /\ entry[u][c] = "started"
              /\ entry' = [entry EXCEPT ![u][c] = "submitted"]
              /\ \/ renderCurrentRoute(Of("leaderboard", quiz.id), s, token, me)
                 \/ Ends(s)
           \/ Ends(s) /\ UNCHANGED entry
        /\ UNCHANGED <<token, me>>
-----------------------------------------------------------------------------
Init ==
    /\ loc = At("contests")
    /\ app = Closed
    /\ token \in Users \cup {None}
    /\ me = None
    /\ quiz = NoQuiz
    /\ dialog = None
    /\ call = [s \in Calls |-> Idle]
    /\ entry = [u \in Users |-> [c \in Contests |-> "none"]]
    /\ clicks = 0
    /\ hurry = {}

Acting ==
    \/ \E l \in Locations : Load(l) \/ Visit(l)
    \/ doLogout
    \/ \E u \in Users : SignIn(u)
    \/ \E o \in Options : selectOption(o)
    \/ saveAnswers
    \/ submitContest

Answers(s) ==
    \/ BootAnswer(s)
    \/ LoginAnswer(s)
    \/ ContestsAnswer(s)
    \/ LeaderboardAnswer(s)
    \/ DashboardAnswer(s)
    \/ QuizContest(s)
    \/ QuizJoin(s)
    \/ QuizHistory(s)
    \/ QuizQuestions(s)
    \/ SaveAnswer(s)
    \/ SubmitSaved(s)
    \/ SubmitAnswer(s)

Next == Acting \/ \E s \in Calls : Answers(s)

Spec == Init /\ [][Next]_vars

\* Every call is answered, or fails; nothing makes a user act.
Fairness == \A s \in Calls : WF_vars(Answers(s))
FairSpec == Spec /\ Fairness
-----------------------------------------------------------------------------
(* Properties *)

\* A user who waits for quiz pages and submits to finish sees the quiz that
\* quizState is about, marked with the answers that will be posted, whatever
\* else was left in flight: quizState is one variable for all renders.
QuizOnScreen ==
    app.view = "play" /\ "quiz" \notin hurry =>
        /\ quiz.id = app.id
        /\ \A c \in Contests :
              quiz.answers[c] \in IF c = app.id THEN {None, app.marked} ELSE {None}
        /\ quiz.answers[app.id] = None => app.marked = {}

\* A contest is submitted only by the Submit button of its own page, for the
\* user who pressed it, if that user waits for quizzes, submits and sign-ins:
\* the second call of submitContest reads quizState and the token again.
SubmitsWhatWasPressed ==
    [][\A u \in Users, c \in Contests :
          entry[u][c] # "submitted" /\ entry'[u][c] = "submitted"
          /\ {"quiz", "session"} \cap hurry = {} =>
             \E s \in Calls : call[s].kind = "submit" /\ call[s].id = c /\ call[s].by = u]_vars

\* When nothing is in flight that writes #app, the page on the screen is the
\* page of the URL, the user may see it, and what it says about a user is about
\* the one who is signed in; unless the user went away from a pending page.
ScreenMatchesUrl ==
    app.view # "closed" /\ ~InFlight(Painters) /\ "page" \notin hurry =>
        /\ app.page = loc.page /\ app.id = loc.id
        /\ canAccess(loc, token, me)
        /\ app.owner \in {None, token}

\* currentUser is the user of the token, unless the user signed in or out while
\* the start-up check or another sign-in was in flight.
OneSession ==
    "session" \notin hurry /\ ~InFlight({"boot"}) => app.view = "closed" \/ me = token

Settled ==
    /\ \A s \in Calls : call[s] = Idle
    /\ app.view \notin {"blank", "spinner"}
    /\ app.wait = {}

\* When the user stops, every page finishes: no spinner stays, no list waits.
Settles == <>[]Settled
=============================================================================
