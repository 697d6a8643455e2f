---------------------------- MODULE BrowserProofs ----------------------------
(***************************************************************************)
(* Theorems about the tab of a participant and the console of an           *)
(* administrator, for every value of their constants.                      *)
(***************************************************************************)
EXTENDS AdminConsole, TLAPS

-----------------------------------------------------------------------------
(* Types.  What a handler in flight remembers depends on its kind.         *)

Persons == Users \cup {None}
Ids == Contests \cup {None}

Location ==
    {l \in [page : Pages, id : Ids] :
        /\ l.page \in {"quiz", "adminContest"} => l.id \in Contests
        /\ l.page \notin ContestPages => l.id = None}

ScreenType ==
    [page : Pages \cup {None}, id : Ids,
     view : {"closed", "blank", "spinner", "ready", "error", "play"},
     owner : Persons, wait : SUBSET Calls, marked : SUBSET Options]

\* The quiz page of a contest and the page of one contest are of a contest.
ScreenOk(a) ==
    /\ a \in ScreenType
    /\ a.view = "play" \/ a.page = "adminContest" => a.id \in Contests

Part == {"none", "started", "submitted"}

CallOk(q) ==
    /\ q.kind = "boot" => q.as \in Persons
    /\ q.kind = "login" => q.as \in Users
    /\ q.kind = "dashboard" => q.as \in Persons
    /\ q.kind = "leaderboard" => q.id \in Ids
    /\ q.kind \in {"adminContest", "remove", "deleteContest"} => q.id \in Contests
    /\ q.kind = "quiz" =>
          q \in [kind : {"quiz"}, id : Contests, step : {"contest", "join", "history", "questions"},
                 as : Persons, part : Part]
    /\ q.kind = "submit" =>
          q \in [kind : {"submit"}, step : {"save", "submit"}, id : Contests, by : Persons,
                 to : Ids, as : Persons, of : SUBSET Contests, whole : BOOLEAN]
    /\ q.kind = "lists" =>
          q \in [kind : {"lists"}, parts : SUBSET {"contests", "users"}, seen : Nat \cup {None}]
    /\ q.kind = "dialog" /\ q.op \in Editors \cup Adders => q.id \in Contests

CallsOk ==
    /\ call = [s \in Calls |-> call[s]]
    /\ \A s \in Calls : CallOk(call[s])

QuizType == [id : Ids, answers : [Contests -> (SUBSET Options) \cup {None}]]

DialogOk == dialog # None /\ dialog.kind \in Editors \cup Adders => dialog.id \in Contests

BType ==
    /\ loc \in Location
    /\ ScreenOk(app)
    /\ token \in Persons
    /\ me \in Persons
    /\ quiz \in QuizType
    /\ DialogOk
    /\ CallsOk
    /\ entry \in [Users -> [Contests -> Part]]
    /\ app.view = "closed" => \A s \in Calls : call[s] = Idle

LEMMA IdleOk == CallOk(Idle) /\ Idle.kind = "idle"
BY DEF CallOk, Idle

\* One step on the call s: only its new value has to be typed.
LEMMA CallStep ==
    ASSUME CallsOk, NEW s \in Calls, NEW q, CallOk(q), call' = [call EXCEPT ![s] = q]
    PROVE  CallsOk'
BY DEF CallsOk

LEMMA SlotIsIdle ==
    ASSUME Clicks
    PROVE  Slot \in Calls /\ call[Slot] = Idle
BY DEF Clicks, Slot

\* The first two records a page hands to renderCurrentRoute.
LEMMA ScreenTyped ==
    ASSUME NEW p \in Pages \cup {None}, NEW c \in Ids,
           NEW v \in {"closed", "blank", "spinner", "ready", "error", "play"}
    PROVE  /\ Screen(p, c, v) \in ScreenType
           /\ Screen(p, c, v).page = p /\ Screen(p, c, v).id = c /\ Screen(p, c, v).view = v
           /\ Screen(p, c, v).owner = None /\ Screen(p, c, v).wait = {}
           /\ Screen(p, c, v).marked = {}
BY DEF Screen, ScreenType, Persons

LEMMA LandingTyped ==
    ASSUME NEW l \in Location, NEW t \in Persons, NEW u \in Persons
    PROVE  /\ Landing(l, t, u) \in Location
           /\ Landing(l, t, u).page # "elsewhere"
           /\ canAccess(Landing(l, t, u), t, u)
           /\ Landing(l, t, u) \in {l, At("contests"), At("login")}
BY BrowserAssumption DEF Landing, Location, canAccess, At, Pages, ContestPages, Ids

\* What a page shows at once, and what it waits for.
Painting(to, page, s, t) ==
    /\ ScreenOk(page.screen) /\ CallOk(page.call)
    /\ page.screen.view \notin {"play", "closed", "blank"}
    /\ page.call.kind \in {"idle", "contests", "leaderboard", "dashboard", "quiz", "lists",
                           "adminContest"}
    /\ page.call.kind \notin Painters =>
          page.screen.page = to.page /\ page.screen.id = to.id /\ page.screen.owner = None
    /\ page.call.kind = "quiz" <=> to.page = "quiz"
    /\ page.call.kind \in {"quiz", "leaderboard", "adminContest"} =>
          page.call.id = to.id /\ page.call.kind = to.page
    /\ page.call.kind = "dashboard" => to.page = "dashboard" /\ page.call.as = t
    /\ page.call.kind = "lists" => page.screen.page = "admin"
    /\ page.screen.page = "admin" =>
          /\ s \in page.screen.wait
          /\ page.call = [kind |-> "lists", parts |-> {"contests", "users"}, seen |-> None]

LEMMA RoutesPaint ==
    ASSUME NEW l \in Location, l.page # "elsewhere", NEW s \in Calls,
           NEW t \in Persons, NEW u \in Persons, canAccess(l, t, u)
    PROVE  Painting(l, routes(l, s, t, u), s, t)
<1> DEFINE page == routes(l, s, t, u)
<1>1. /\ l.page \in Pages /\ l.id \in Ids /\ None \in Ids /\ None \in Pages \cup {None}
      /\ None # "admin" /\ None # "adminContest"
  BY BrowserAssumption DEF Location, Ids, Pages
<1>2. Screen(None, None, "spinner") = Spinner /\ ScreenOk(Spinner) /\ Spinner.view = "spinner"
      /\ Spinner.page = None
  BY <1>1, ScreenTyped DEF Spinner, ScreenOk
<1>3. ASSUME page.screen = Spinner, CallOk(page.call),
             page.call.kind \in {"leaderboard", "dashboard", "quiz", "adminContest"},
             page.call.kind = l.page,
             page.call.kind # "dashboard" => page.call.id = l.id,
             page.call.kind = "dashboard" => page.call.as = t
      PROVE  Painting(l, page, s, t)
  BY <1>1, <1>2, <1>3 DEF Painting, Painters
<1>4. ASSUME ScreenOk(page.screen), CallOk(page.call), page.screen.view \in {"ready", "error"},
             page.screen.page = l.page, l.page \notin {"admin", "quiz"}, page.screen.id = l.id,
             page.screen.owner = None, page.call.kind \in {"idle", "contests"}
      PROVE  Painting(l, page, s, t)
  BY <1>4 DEF Painting, Painters
<1>5. CASE l.page \in {"login", "signup"}
  <2>1. page = [screen |-> Screen(l.page, None, "ready"), call |-> Idle]
    BY <1>5 DEF routes, renderAuthPage
  <2>2. l.id = None
    BY <1>5 DEF Location, ContestPages
  <2>3. QED
    BY <1>1, <1>4, <1>5, <2>1, <2>2, ScreenTyped, IdleOk DEF ScreenOk
<1>6. CASE l.page = "contests"
  <2> DEFINE a == [Screen("contests", None, "ready") EXCEPT !.wait = {s}]
  <2>1. page = [screen |-> a, call |-> [kind |-> "contests"]]
    BY <1>6 DEF routes, renderContestsPage
  <2>2. l.id = None
    BY <1>6 DEF Location, ContestPages
  <2>3. /\ a \in ScreenType /\ a.page = "contests" /\ a.id = None /\ a.view = "ready"
        /\ a.owner = None
    BY <1>1, <1>6, ScreenTyped DEF ScreenType
  <2>4. CallOk([kind |-> "contests"])
    BY DEF CallOk
  <2> HIDE DEF a
  <2>5. QED
    BY <1>4, <1>6, <2>1, <2>2, <2>3, <2>4 DEF ScreenOk
<1>7. CASE l.page = "leaderboard"
  <2>1. page = [screen |-> Spinner, call |-> [kind |-> "leaderboard", id |-> l.id]]
    BY <1>7 DEF routes, renderLeaderboardPage
  <2>2. CallOk([kind |-> "leaderboard", id |-> l.id])
    BY <1>1 DEF CallOk
  <2>3. QED
    BY <1>3, <1>7, <2>1, <2>2
<1>8. CASE l.page = "quiz"
  <2> DEFINE q == [kind |-> "quiz", id |-> l.id, step |-> "contest", as |-> None, part |-> "none"]
  <2>1. page = [screen |-> Spinner, call |-> q]
    BY <1>8 DEF routes, renderQuizPage
  <2>2. l.id \in Contests
    BY <1>8 DEF Location
  <2>3. CallOk(q)
    BY <2>2 DEF CallOk, Persons, Part
  <2>4. QED
    BY <1>3, <1>8, <2>1, <2>3
<1>9. CASE l.page = "dashboard"
  <2>1. page = [screen |-> Spinner, call |-> [kind |-> "dashboard", as |-> t]]
    BY <1>9 DEF routes, renderDashboardPage
  <2>2. CallOk([kind |-> "dashboard", as |-> t])
    BY DEF CallOk
  <2>3. QED
    BY <1>3, <1>9, <2>1, <2>2
<1>10. CASE l.page = "admin"
  <2> DEFINE a == [Screen("admin", None, "ready") EXCEPT !.wait = {s}]
             q == [kind |-> "lists", parts |-> {"contests", "users"}, seen |-> None]
  <2>1. page = [screen |-> a, call |-> q]
    BY <1>10 DEF routes, renderAdminPage, canAccess
  <2>2. l.id = None
    BY <1>10 DEF Location, ContestPages
  <2>3. /\ a \in ScreenType /\ a.page = "admin" /\ a.id = None /\ a.view = "ready"
        /\ a.owner = None /\ a.wait = {s}
    BY <1>1, <1>10, ScreenTyped DEF ScreenType
  <2>4. CallOk(q) /\ q.kind = "lists"
    BY DEF CallOk
  <2> HIDE DEF a
  <2>5. QED
    BY <1>10, <2>1, <2>2, <2>3, <2>4 DEF ScreenOk, Painting, Painters
<1>11. CASE l.page = "adminContest"
  <2>1. page = [screen |-> Spinner, call |-> [kind |-> "adminContest", id |-> l.id]]
    BY <1>11 DEF routes, renderAdminContestPage, canAccess
  <2>2. CallOk([kind |-> "adminContest", id |-> l.id])
    BY <1>11 DEF CallOk, Location
  <2>3. QED
    BY <1>3, <1>11, <2>1, <2>2
<1>12. QED
  BY <1>1, <1>5, <1>6, <1>7, <1>8, <1>9, <1>10, <1>11 DEF Pages

\* A step that leaves the location and the quiz alone.
LEMMA PaintTyped ==
    ASSUME BType, NEW s \in Calls, NEW q, CallOk(q), call' = [call EXCEPT ![s] = q],
           ScreenOk(app'), app'.view # "closed", DialogOk',
           entry' \in [Users -> [Contests -> Part]], UNCHANGED <<loc, token, me, quiz>>
    PROVE  BType'
BY CallStep DEF BType

\* A handler that answers or fails is one that was in flight.
LEMMA AnsweredShows ==
    ASSUME BType, NEW s \in Calls, call[s].kind # "idle"
    PROVE  app.view # "closed"
BY IdleOk DEF BType

\* Rendering a location, whatever the handler that does it.
LEMMA Renders ==
    ASSUME BType, NEW l \in Location, NEW s \in Calls, NEW t \in Persons, NEW u \in Persons,
           renderCurrentRoute(l, s, t, u)
    PROVE  \E to, page :
               /\ to \in Location
               /\ to \in {l, At("contests"), At("login")} /\ canAccess(to, t, u)
               /\ Painting(to, page, s, t)
               /\ loc' = to /\ app' = page.screen
               /\ call' = [call EXCEPT ![s] = page.call]
               /\ quiz' = IF to.page = "quiz" THEN [NoQuiz EXCEPT !.id = to.id] ELSE quiz
BY LandingTyped, RoutesPaint DEF renderCurrentRoute, quizState

LEMMA RenderTyped ==
    ASSUME BType, NEW l \in Location, NEW s \in Calls, NEW t \in Persons, NEW u \in Persons,
           renderCurrentRoute(l, s, t, u), token' = t, me' = u, DialogOk',
           entry' \in [Users -> [Contests -> Part]]
    PROVE  BType'
<1>1. PICK to, page :
               /\ to \in Location
               /\ Painting(to, page, s, t)
               /\ loc' = to /\ app' = page.screen
               /\ call' = [call EXCEPT ![s] = page.call]
               /\ quiz' = IF to.page = "quiz" THEN [NoQuiz EXCEPT !.id = to.id] ELSE quiz
  BY Renders
<1>2. quiz' \in QuizType
  BY <1>1 DEF BType, QuizType, NoQuiz, NoAnswers, Location, Ids
<1>3. CallsOk' /\ ScreenOk(app') /\ app'.view # "closed"
  BY <1>1, CallStep DEF BType, Painting
<1>4. QED
  BY <1>1, <1>2, <1>3 DEF BType

LEMMA LocationsTyped == Locations \subseteq Location
<1>1. ASSUME NEW p \in Visits \ ContestPages PROVE At(p) \in Location
  BY BrowserAssumption DEF At, Location, Ids, ContestPages
<1>2. ASSUME NEW p \in Visits \cap ContestPages, NEW c \in Contests PROVE Of(p, c) \in Location
  BY BrowserAssumption DEF Of, Location, Ids, ContestPages
<1>3. QED
  BY <1>1, <1>2 DEF Locations

LEMMA PlaceTyped ==
    /\ At("contests") \in Location /\ At("login") \in Location /\ At("admin") \in Location
    /\ \A c \in Ids : Of("leaderboard", c) \in Location
BY DEF At, Of, Location, Ids, Pages, ContestPages

LEMMA BTypeInit == Init => BType
<1> SUFFICES ASSUME Init PROVE BType
  OBVIOUS
<1>1. loc \in Location
  BY PlaceTyped DEF Init
<1>2. ScreenOk(app)
  BY ScreenTyped, BrowserAssumption DEF Init, Closed, ScreenOk, Ids, Pages
<1>3. CallsOk
  BY IdleOk DEF Init, CallsOk
<1>4. token \in Persons /\ me \in Persons /\ quiz \in QuizType /\ DialogOk
      /\ entry \in [Users -> [Contests -> Part]]
  BY DEF Init, Persons, QuizType, Ids, NoQuiz, NoAnswers, DialogOk, Part
<1>5. QED
  BY <1>1, <1>2, <1>3, <1>4 DEF Init, BType

LEMMA ActingTyped ==
    ASSUME BType, Acting
    PROVE  BType'
<1>1. ASSUME NEW l \in Locations, Load(l) PROVE BType'
  <2>1. CallsOk'
    BY <1>1, IdleOk DEF Load, CallsOk, BType, Boot, CallOk, Persons
  <2>2. ScreenOk(app') /\ app'.view # "closed"
    BY <1>1, ScreenTyped, BrowserAssumption DEF Load, Blank, ScreenOk, Ids, Pages
  <2>3. QED
    BY <1>1, <2>1, <2>2, LocationsTyped
    DEF Load, BType, Persons, QuizType, Ids, NoQuiz, NoAnswers, DialogOk
<1>2. ASSUME NEW l \in Locations, Visit(l) PROVE BType'
  <2>1. l \in Location /\ Slot \in Calls
    BY <1>2, LocationsTyped, SlotIsIdle DEF Visit
  <2>2. PICK s \in Calls, t \in Persons, u \in Persons :
            t = token /\ u = me /\ renderCurrentRoute(l, s, t, u)
    BY <1>2, <2>1 DEF Visit, BType, renderCurrentRoute
  <2>3. QED
    BY <1>2, <2>1, <2>2, RenderTyped DEF Visit, BType, DialogOk
<1>3. CASE doLogout
  <2>1. Slot \in Calls
    BY <1>3, SlotIsIdle DEF doLogout, ActsOnPage, Acts
  <2>2. PICK s \in Calls, l \in Location, t \in Persons :
            t = None /\ renderCurrentRoute(l, s, t, t)
    BY <1>3, <2>1, PlaceTyped DEF doLogout, renderCurrentRoute, Persons
  <2>3. QED
    BY <1>3, <2>2, RenderTyped DEF doLogout, BType, DialogOk
<1>4. ASSUME NEW q, CallOk(q), Clicks, call' = [call EXCEPT ![Slot] = q],
             UNCHANGED <<loc, app, token, me, quiz, dialog, entry>>
      PROVE  BType'
  BY <1>4, SlotIsIdle, PaintTyped DEF BType, DialogOk, Clicks
<1>5. ASSUME NEW u \in Users, SignIn(u) PROVE BType'
  <2>1. CallOk([kind |-> "login", as |-> u])
    BY DEF CallOk
  <2>2. QED
    BY <1>4, <1>5, <2>1 DEF SignIn, ActsOnPage, Acts
<1>6. ASSUME NEW o \in Options, selectOption(o) PROVE BType'
  <2>1. app.id \in Contests /\ app \in ScreenType
    BY <1>6 DEF selectOption, BType, ScreenOk
  <2>2. ScreenOk(app') /\ app'.view # "closed"
    BY <1>6, <2>1 DEF selectOption, ScreenOk, ScreenType
  <2>3. quiz' \in QuizType
    BY <1>6, <2>1 DEF selectOption, BType, QuizType
  <2>4. QED
    BY <1>6, <2>2, <2>3 DEF selectOption, BType, DialogOk, CallsOk
<1>7. CASE saveAnswers
  <2>1. CallOk([kind |-> "save", to |-> quiz.id, of |-> Answer])
    BY DEF CallOk
  <2>2. QED
    BY <1>4, <1>7, <2>1 DEF saveAnswers, ActsOnPage, Acts
<1>8. CASE submitContest
  <2> DEFINE q == [kind |-> "submit", step |-> IF Answer = {} THEN "submit" ELSE "save",
                   id |-> app.id, by |-> token, to |-> quiz.id, as |-> token,
                   of |-> Answer, whole |-> Postable]
  <2>1. Postable \in BOOLEAN /\ Answer \in SUBSET Contests
    BY DEF Postable, Answer
  <2>2. app.id \in Contests /\ quiz.id \in Ids /\ token \in Persons
    BY <1>8 DEF submitContest, BType, ScreenOk, QuizType
  <2>3. CallOk(q)
    BY <2>1, <2>2 DEF CallOk
  <2>4. QED
    BY <1>4, <1>8, <2>3 DEF submitContest, ActsOnPage, Acts
<1>9. QED
  BY <1>1, <1>2, <1>3, <1>5, <1>6, <1>7, <1>8 DEF Acting

LEMMA EntrySet ==
    ASSUME BType, NEW u, NEW c, NEW e \in Part, entry' = [entry EXCEPT ![u][c] = e]
    PROVE  entry' \in [Users -> [Contests -> Part]]
BY DEF BType

LEMMA AnswersTyped ==
    ASSUME BType, NEW s \in Calls, Answers(s)
    PROVE  BType'
<1>1. CallOk(call[s]) /\ CallOk(Idle)
  BY IdleOk DEF BType, CallsOk
<1>2. ASSUME NEW q, CallOk(q), call' = [call EXCEPT ![s] = q], call[s].kind # "idle",
             \/ app' = app
             \/ ScreenOk(app') /\ app'.view # "closed",
             UNCHANGED <<loc, token, me, quiz, dialog>>, entry' \in [Users -> [Contests -> Part]]
      PROVE  BType'
  <2>1. app.view # "closed" /\ DialogOk'
    BY <1>2, AnsweredShows DEF BType, DialogOk
  <2>2. QED
    BY <1>2, <2>1, PaintTyped DEF BType
<1>3. ASSUME NEW k, Answered(s, k), k # "idle", Ends(s), UNCHANGED <<token, me>>,
             entry' \in [Users -> [Contests -> Part]]
      PROVE  BType'
  BY <1>1, <1>2, <1>3 DEF Answered, Ends
<1>4. ASSUME NEW k, Answered(s, k), k # "idle", UNCHANGED <<token, me>>,
             entry' \in [Users -> [Contests -> Part]],
             NEW a, Paints(s, a), ScreenOk(a), a.view # "closed"
      PROVE  BType'
  BY <1>1, <1>2, <1>4 DEF Answered, Paints
<1>5. CASE BootAnswer(s)
  <2>1. PICK l \in Location, t \in Persons, u \in Persons :
            t = token' /\ u = me' /\ renderCurrentRoute(l, s, t, u)
    BY <1>1, <1>5 DEF BootAnswer, Answered, BType, CallOk, Persons, renderCurrentRoute
  <2>2. QED
    BY <1>5, <2>1, RenderTyped DEF BootAnswer, Answered, BType, DialogOk
<1>6. CASE LoginAnswer(s)
  <2>1. CASE Ends(s) /\ UNCHANGED <<token, me>>
    BY <1>3, <1>6, <2>1 DEF LoginAnswer, BType
  <2>2. CASE ~ (Ends(s) /\ UNCHANGED <<token, me>>)
    <3>1. PICK l \in Location, t \in Persons :
              t = token' /\ t = me' /\ renderCurrentRoute(l, s, t, t)
      BY <1>1, <1>6, <2>2, PlaceTyped
      DEF LoginAnswer, Answered, CallOk, Persons, renderCurrentRoute
    <3>2. QED
      BY <1>6, <3>1, RenderTyped DEF LoginAnswer, Answered, BType, DialogOk
  <2>3. QED
    BY <2>1, <2>2
<1>7. CASE ContestsAnswer(s)
  <2>1. app.view # "closed"
    BY <1>7, AnsweredShows DEF ContestsAnswer, Answered
  <2>2. ScreenOk([app EXCEPT !.wait = @ \ {s}]) /\ [app EXCEPT !.wait = @ \ {s}].view = app.view
    BY DEF BType, ScreenOk, ScreenType
  <2>3. QED
    BY <1>4, <1>7, <2>1, <2>2 DEF ContestsAnswer, BType
<1>8. ASSUME NEW c \in Ids, NEW p \in Pages, NEW v \in {"ready", "error", "play"},
             v = "play" \/ p = "adminContest" => c \in Contests
      PROVE  ScreenOk(Screen(p, c, v)) /\ Screen(p, c, v).view # "closed"
  BY <1>8, ScreenTyped DEF ScreenOk
<1>9. CASE LeaderboardAnswer(s)
  <2>1. call[s].id \in Ids /\ "leaderboard" \in Pages
    BY <1>1, <1>9 DEF LeaderboardAnswer, Answered, CallOk, Pages
  <2>2. QED
    BY <1>4, <1>8, <1>9, <2>1 DEF LeaderboardAnswer, BType
<1>10. CASE DashboardAnswer(s)
  <2> DEFINE a == [Screen("dashboard", None, "ready") EXCEPT !.owner = call[s].as]
  <2>1. "dashboard" \in Pages /\ None \in Ids /\ call[s].as \in Persons
    BY <1>1, <1>10 DEF DashboardAnswer, Answered, CallOk, Pages, Ids
  <2>2. ScreenOk(a) /\ a.view # "closed"
    BY <2>1, ScreenTyped DEF ScreenOk, ScreenType
  <2>3. ScreenOk(Screen("dashboard", None, "error")) /\ Screen("dashboard", None, "error").view # "closed"
    BY <1>8, <2>1
  <2> HIDE DEF a
  <2>4. QED
    BY <1>4, <1>10, <2>2, <2>3 DEF DashboardAnswer, BType, a
<1>11. ASSUME call[s].kind = "quiz", UNCHANGED <<token, me, dialog>>,
              entry' \in [Users -> [Contests -> Part]],
              \/ \E v \in {"ready", "error", "play"} : QuizView(s, v)
              \/ \E step \in {"join", "history", "questions"}, part \in Part : Awaits(s, step, part)
              \/ Ends(s)
       PROVE  BType'
  <2>1. /\ call[s].id \in Contests /\ "quiz" \in Pages
        /\ call[s] \in [kind : {"quiz"}, id : Contests, as : Persons, part : Part,
                        step : {"contest", "join", "history", "questions"}]
    BY <1>1, <1>11 DEF CallOk, Pages
  <2>2. ASSUME NEW v \in {"ready", "error", "play"}, QuizView(s, v) PROVE BType'
    <3>1. ScreenOk(Screen("quiz", call[s].id, v)) /\ Screen("quiz", call[s].id, v).view # "closed"
      BY <1>8, <2>1 DEF Ids
    <3>2. QED
      BY <1>1, <1>2, <1>11, <2>2, <3>1 DEF QuizView, Paints
  <2>3. ASSUME NEW step \in {"join", "history", "questions"}, NEW part \in Part,
               Awaits(s, step, part)
        PROVE  BType'
    <3> DEFINE q == [call[s] EXCEPT !.step = step, !.as = token, !.part = part]
    <3>1. CallOk(q)
      BY <2>1 DEF CallOk, BType
    <3>2. call' = [call EXCEPT ![s] = q] /\ UNCHANGED <<loc, app, quiz>>
      BY <2>3 DEF Awaits
    <3> HIDE DEF q
    <3>3. QED
      BY <1>2, <1>11, <3>1, <3>2
  <2>4. CASE Ends(s)
    BY <1>1, <1>2, <1>11, <2>4 DEF Ends
  <2>5. QED
    BY <1>11, <2>2, <2>3, <2>4
<1>12. CASE QuizContest(s)
  BY <1>11, <1>12 DEF QuizContest, AtStep, Answered, BType, Part
<1>13. ASSUME NEW part \in Part, Participates(s, part)
       PROVE  \/ \E v \in {"ready", "error", "play"} : QuizView(s, v)
              \/ \E step \in {"join", "history", "questions"}, p \in Part : Awaits(s, step, p)
  BY <1>13 DEF Participates
<1>14. CASE QuizJoin(s)
  <2>1. entry' \in [Users -> [Contests -> Part]]
    BY <1>14, EntrySet DEF QuizJoin, BType, Part
  <2>2. \/ \E v \in {"ready", "error", "play"} : QuizView(s, v)
        \/ \E step \in {"join", "history", "questions"}, p \in Part : Awaits(s, step, p)
    BY <1>13, <1>14 DEF QuizJoin, Part
  <2>3. QED
    BY <1>11, <1>14, <2>1, <2>2 DEF QuizJoin, AtStep, Answered
<1>15. CASE QuizHistory(s)
  <2>1. call[s].as # None => entry[call[s].as][call[s].id] \in Part
    BY <1>1, <1>15 DEF QuizHistory, AtStep, Answered, CallOk, BType, Persons
  <2>2. \/ \E v \in {"ready", "error", "play"} : QuizView(s, v)
        \/ \E step \in {"join", "history", "questions"}, p \in Part : Awaits(s, step, p)
    BY <1>13, <1>15, <2>1 DEF QuizHistory, Part
  <2>3. QED
    BY <1>11, <1>15, <2>2 DEF QuizHistory, AtStep, Answered, BType
<1>16. CASE QuizQuestions(s)
  BY <1>11, <1>16 DEF QuizQuestions, AtStep, Answered, BType
<1>17. CASE SaveAnswer(s)
  BY <1>3, <1>17 DEF SaveAnswer, BType
<1>18. CASE SubmitSaved(s)
  <2> DEFINE q == [call[s] EXCEPT !.step = "submit", !.to = quiz.id, !.as = token]
  <2>1. CallOk(q)
    BY <1>1, <1>18 DEF SubmitSaved, AtStep, Answered, CallOk, BType, QuizType
  <2>2. CASE Ends(s)
    BY <1>3, <1>18, <2>2 DEF SubmitSaved, AtStep, BType
  <2>3. CASE ~ Ends(s)
    <3>1. /\ call' = [call EXCEPT ![s] = q] /\ call[s].kind = "submit"
          /\ UNCHANGED <<loc, app, quiz, token, me, entry, dialog>>
      BY <1>18, <2>3 DEF SubmitSaved, AtStep, Answered
    <3> HIDE DEF q
    <3>2. QED
      BY <1>2, <2>1, <3>1 DEF BType
  <2>4. QED
    BY <2>2, <2>3
<1>19. CASE SubmitAnswer(s)
  <2>1. entry' \in [Users -> [Contests -> Part]]
    BY <1>19, EntrySet DEF SubmitAnswer, BType, Part
  <2>2. CASE Ends(s)
    BY <1>3, <1>19, <2>1, <2>2 DEF SubmitAnswer, AtStep
  <2>3. CASE ~ Ends(s)
    <3>1. PICK l \in Location, t \in Persons, u \in Persons :
              t = token' /\ u = me' /\ renderCurrentRoute(l, s, t, u)
      <4>1. Of("leaderboard", quiz.id) \in Location
        BY PlaceTyped DEF BType, QuizType
      <4>2. QED
        BY <1>19, <2>3, <4>1 DEF SubmitAnswer, BType, renderCurrentRoute
    <3>2. QED
      BY <1>19, <2>1, <3>1, RenderTyped DEF SubmitAnswer, AtStep, Answered, BType, DialogOk
  <2>4. QED
    BY <2>2, <2>3
<1>20. QED
  BY <1>5, <1>6, <1>7, <1>9, <1>10, <1>12, <1>14, <1>15, <1>16, <1>17, <1>18, <1>19 DEF Answers

-----------------------------------------------------------------------------
(* What the steps of the tab come to.                                      *)

Stays == UNCHANGED <<token, me, dialog, hurry>>

\* The user acts with a free slot, and does not wait for what is in flight.
Clicking(s) ==
    /\ s \in Calls /\ call[s] = Idle
    /\ app.view # "closed"
    /\ hurry \cup Hurries \subseteq hurry'

Going(s) ==
    \E l \in Location, t, u \in Persons :
        /\ renderCurrentRoute(l, s, t, u) /\ token' = t /\ me' = u
        /\ UNCHANGED <<dialog, entry>>
        /\ \/ t = token /\ u = me /\ (dialog # None => "page" \in hurry')
           \/ l = At("contests") /\ t = None /\ u = None /\ dialog = None

Pressing(s) ==
    \E q :
        /\ call' = [call EXCEPT ![s] = q]
        /\ UNCHANGED <<loc, app, token, me, quiz, dialog, entry>>
        /\ dialog = None
        /\ \/ q.kind = "login"
           \/ q.kind = "save"
           \/ /\ q.kind = "submit" /\ app.view = "play"
              /\ q.id = app.id /\ q.by = token /\ q.to = quiz.id /\ q.as = token

LEMMA ActingIs ==
    ASSUME BType, Acting
    PROVE  \/ \E l \in Location : Load(l)
           \/ \E s \in Calls : Clicking(s) /\ (Going(s) \/ Pressing(s))
           \/ \E o \in Options : selectOption(o)
<1>1. ASSUME Acts PROVE Clicking(Slot)
  BY <1>1, SlotIsIdle DEF Acts, Clicks, Clicking
<1>2. ASSUME NEW l \in Locations, Load(l) PROVE \E k \in Location : Load(k)
  BY <1>2, LocationsTyped
<1>3. ASSUME NEW l \in Locations, Visit(l) PROVE \E s \in Calls : Clicking(s) /\ Going(s)
  <2>1. Slot \in Calls /\ call[Slot] = Idle /\ app.view # "closed"
    BY <1>3, SlotIsIdle DEF Visit, Clicks
  <2>2. PICK s \in Calls, k \in Location, t \in Persons, u \in Persons :
            s = Slot /\ k = l /\ t = token /\ u = me /\ renderCurrentRoute(k, s, t, u)
    BY <1>3, <2>1, LocationsTyped DEF Visit, BType, renderCurrentRoute
  <2>3. Clicking(s) /\ (dialog # None => "page" \in hurry')
    BY <1>3, <2>1, <2>2 DEF Visit, Clicking
  <2>4. Going(s)
    BY <1>3, <2>2, <2>3 DEF Visit, Going
  <2>5. QED
    BY <2>3, <2>4
<1>4. CASE doLogout
  <2>1. Slot \in Calls /\ call[Slot] = Idle /\ app.view # "closed"
    BY <1>4, SlotIsIdle DEF doLogout, ActsOnPage, Acts, Clicks
  <2>2. PICK s \in Calls, k \in Location, t \in Persons :
            s = Slot /\ k = At("contests") /\ t = None /\ renderCurrentRoute(k, s, t, t)
    BY <1>4, <2>1, PlaceTyped DEF doLogout, renderCurrentRoute, Persons
  <2>3. Clicking(s)
    BY <1>4, <2>1, <2>2 DEF doLogout, ActsOnPage, Acts, Clicking
  <2>4. Going(s)
    BY <1>4, <2>2 DEF doLogout, ActsOnPage, Going
  <2>5. QED
    BY <2>3, <2>4
<1>5. ASSUME NEW q, ActsOnPage, call' = [call EXCEPT ![Slot] = q],
             UNCHANGED <<loc, app, token, me, quiz, dialog, entry>>,
             \/ q.kind = "login"
             \/ q.kind = "save"
             \/ /\ q.kind = "submit" /\ app.view = "play"
                /\ q.id = app.id /\ q.by = token /\ q.to = quiz.id /\ q.as = token
      PROVE  \E s \in Calls : Clicking(s) /\ Pressing(s)
  <2>1. Slot \in Calls /\ call[Slot] = Idle /\ app.view # "closed" /\ dialog = None
    BY <1>5, SlotIsIdle DEF ActsOnPage, Acts, Clicks
  <2>2. PICK s \in Calls : s = Slot
    BY <2>1
  <2>3. Clicking(s)
    BY <1>5, <2>1, <2>2 DEF ActsOnPage, Acts, Clicking
  <2>4. Pressing(s)
    BY <1>5, <2>1, <2>2 DEF Pressing
  <2>5. QED
    BY <2>3, <2>4
<1>6. ASSUME NEW u \in Users, SignIn(u) PROVE \E s \in Calls : Clicking(s) /\ Pressing(s)
  BY <1>5, <1>6 DEF SignIn
<1>7. CASE saveAnswers
  BY <1>5, <1>7 DEF saveAnswers
<1>8. CASE submitContest
  <2> DEFINE q == [kind |-> "submit", step |-> IF Answer = {} THEN "submit" ELSE "save",
                   id |-> app.id, by |-> token, to |-> quiz.id, as |-> token,
                   of |-> Answer, whole |-> Postable]
  <2>1. /\ ActsOnPage /\ app.view = "play" /\ call' = [call EXCEPT ![Slot] = q]
        /\ UNCHANGED <<loc, app, token, me, quiz, dialog, entry>>
    BY <1>8 DEF submitContest
  <2>2. q.kind = "submit" /\ q.id = app.id /\ q.by = token /\ q.to = quiz.id /\ q.as = token
    OBVIOUS
  <2> HIDE DEF q
  <2>3. QED
    BY <1>5, <2>1, <2>2
<1>9. QED
  BY <1>2, <1>3, <1>4, <1>6, <1>7, <1>8 DEF Acting

\* An answer that renders a location, repaints the screen, goes on with its
\* next call, or ends.
Rerendering(s) ==
    \E l \in Location, t, u \in Persons :
        /\ renderCurrentRoute(l, s, t, u) /\ token' = t /\ me' = u
        /\ UNCHANGED <<dialog, hurry>>
        /\ \/ /\ call[s].kind = "boot" /\ l = loc
              /\ (t = token /\ u = call[s].as) \/ (t = None /\ u = None)
           \/ call[s].kind = "login" /\ l = At("contests") /\ t = u
           \/ call[s].kind = "submit" /\ l.page = "leaderboard" /\ t = token /\ u = me
           \/ call[s].kind = "deleteContest" /\ l = At("admin") /\ t = token /\ u = me

Repainting(s) ==
    \E a :
        /\ Paints(s, a) /\ Stays
        /\ \/ call[s].kind = "contests" /\ a = [app EXCEPT !.wait = @ \ {s}]
           \/ /\ call[s].kind \in {"leaderboard", "dashboard", "quiz", "adminContest"}
              /\ a.page = call[s].kind
              /\ a.id = IF call[s].kind = "dashboard" THEN None ELSE call[s].id
              /\ a.owner \in IF call[s].kind = "dashboard" THEN {None, call[s].as} ELSE {None}
              /\ a.wait = {} /\ a.marked = {}
              /\ a.view = "play" => call[s].kind = "quiz"
              /\ a.view # "closed"

GoingOn(s) ==
    \E q :
        /\ call' = [call EXCEPT ![s] = q] /\ UNCHANGED <<loc, app, quiz>> /\ Stays
        /\ q.kind = call[s].kind /\ q.id = call[s].id
        /\ \/ q.kind = "quiz"
           \/ q.kind = "submit" /\ q.by = call[s].by /\ q.to = quiz.id /\ q.as = token

\* Only a toast: what may end without rendering.
Ending(s) ==
    /\ Ends(s) /\ Stays
    /\ call[s].kind \in {"login", "save", "submit", "role", "dialog", "remove", "deleteContest"}

LEMMA AnswersAre ==
    ASSUME BType, NEW s \in Calls, Answers(s)
    PROVE  /\ call[s].kind # "idle"
           /\ Rerendering(s) \/ Repainting(s) \/ GoingOn(s) \/ Ending(s)
<1>1. CallOk(call[s]) /\ None \in Ids /\ {"leaderboard", "dashboard", "quiz"} \subseteq Pages
  BY DEF BType, CallsOk, Ids, Pages
<1>2. CASE BootAnswer(s)
  <2>1. PICK l \in Location, t \in Persons, u \in Persons :
            l = loc /\ t = token' /\ u = me' /\ renderCurrentRoute(l, s, t, u)
    BY <1>1, <1>2 DEF BootAnswer, Answered, BType, CallOk, Persons, renderCurrentRoute
  <2>2. QED
    BY <1>2, <2>1 DEF BootAnswer, Answered, Rerendering
<1>3. CASE LoginAnswer(s)
  <2>1. CASE Ends(s) /\ UNCHANGED <<token, me>>
    BY <1>3, <2>1 DEF LoginAnswer, Answered, Stays, Ending
  <2>2. CASE ~ (Ends(s) /\ UNCHANGED <<token, me>>)
    <3>1. PICK l \in Location, t \in Persons :
              l = At("contests") /\ t = token' /\ t = me' /\ renderCurrentRoute(l, s, t, t)
      BY <1>1, <1>3, <2>2, PlaceTyped
      DEF LoginAnswer, Answered, CallOk, Persons, renderCurrentRoute
    <3>2. QED
      BY <1>3, <3>1 DEF LoginAnswer, Answered, Rerendering
  <2>3. QED
    BY <2>1, <2>2
<1>4. CASE ContestsAnswer(s)
  BY <1>4 DEF ContestsAnswer, Answered, Stays, Repainting
<1>5. ASSUME NEW p \in {"leaderboard", "quiz"}, call[s].kind = p, Stays,
             NEW v \in {"ready", "error", "play"}, v = "play" => p = "quiz",
             Paints(s, Screen(p, call[s].id, v))
      PROVE  Repainting(s)
  <2> DEFINE a == Screen(p, call[s].id, v)
  <2>1. call[s].id \in Ids
    BY <1>1, <1>5 DEF CallOk, Ids
  <2>2. /\ a.page = p /\ a.id = call[s].id /\ a.view = v /\ a.owner = None
        /\ a.wait = {} /\ a.marked = {}
    BY <1>1, <2>1, ScreenTyped
  <2>3. Paints(s, a)
    BY <1>5
  <2> HIDE DEF a
  <2>4. QED
    BY <1>5, <2>2, <2>3 DEF Repainting
<1>6. CASE LeaderboardAnswer(s)
  BY <1>5, <1>6 DEF LeaderboardAnswer, Answered, Stays
<1>7. CASE DashboardAnswer(s)
  <2> DEFINE a == [Screen("dashboard", None, "ready") EXCEPT !.owner = call[s].as]
             b == Screen("dashboard", None, "error")
  <2>1. /\ a.page = "dashboard" /\ a.id = None /\ a.view = "ready" /\ a.owner = call[s].as
        /\ a.wait = {} /\ a.marked = {}
    BY <1>1, ScreenTyped DEF ScreenType
  <2>2. /\ b.page = "dashboard" /\ b.id = None /\ b.view = "error" /\ b.owner = None
        /\ b.wait = {} /\ b.marked = {}
    BY <1>1, ScreenTyped
  <2>3. PICK c \in {a, b} : Paints(s, c) /\ Stays /\ call[s].kind = "dashboard"
    BY <1>7 DEF DashboardAnswer, Answered, Stays
  <2> HIDE DEF a, b
  <2>4. QED
    BY <2>1, <2>2, <2>3 DEF Repainting
<1>8. ASSUME call[s].kind = "quiz", Stays,
             \/ \E v \in {"ready", "error", "play"} : QuizView(s, v)
             \/ \E step, part : Awaits(s, step, part)
      PROVE  Repainting(s) \/ GoingOn(s)
  <2>1. ASSUME NEW v \in {"ready", "error", "play"}, QuizView(s, v) PROVE Repainting(s)
    BY <1>5, <1>8, <2>1 DEF QuizView
  <2>2. ASSUME NEW step, NEW part, Awaits(s, step, part) PROVE GoingOn(s)
    <3> DEFINE q == [call[s] EXCEPT !.step = step, !.as = token, !.part = part]
    <3>1. q.kind = "quiz" /\ q.id = call[s].id
      BY <1>1, <1>8 DEF CallOk
    <3>2. call' = [call EXCEPT ![s] = q] /\ UNCHANGED <<loc, app, quiz>>
      BY <2>2 DEF Awaits
    <3> HIDE DEF q
    <3>3. QED
      BY <1>8, <3>1, <3>2 DEF GoingOn
  <2>3. QED
    BY <1>8, <2>1, <2>2
<1>9. ASSUME NEW part, Participates(s, part)
      PROVE  \/ \E v \in {"ready", "error", "play"} : QuizView(s, v)
             \/ \E step, p : Awaits(s, step, p)
  BY <1>9 DEF Participates
<1>10. CASE QuizContest(s) \/ QuizQuestions(s)
  BY <1>8, <1>10 DEF QuizContest, QuizQuestions, AtStep, Answered, Stays
<1>11. CASE QuizJoin(s) \/ QuizHistory(s)
  <2>1. \/ \E v \in {"ready", "error", "play"} : QuizView(s, v)
        \/ \E step, p : Awaits(s, step, p)
    BY <1>9, <1>11 DEF QuizJoin, QuizHistory
  <2>2. QED
    BY <1>8, <1>11, <2>1 DEF QuizJoin, QuizHistory, AtStep, Answered, Stays
<1>12. CASE SaveAnswer(s)
  BY <1>12 DEF SaveAnswer, Answered, Stays, Ending
<1>13. CASE SubmitSaved(s)
  <2>1. CASE Ends(s)
    BY <1>13, <2>1 DEF SubmitSaved, AtStep, Answered, Stays, Ending
  <2>2. CASE ~ Ends(s)
    <3> DEFINE q == [call[s] EXCEPT !.step = "submit", !.to = quiz.id, !.as = token]
    <3>1. /\ call' = [call EXCEPT ![s] = q] /\ call[s].kind = "submit"
          /\ UNCHANGED <<loc, app, quiz>> /\ Stays
      BY <1>13, <2>2 DEF SubmitSaved, AtStep, Answered, Stays
    <3>2. q.kind = "submit" /\ q.id = call[s].id /\ q.by = call[s].by /\ q.to = quiz.id /\ q.as = token
      BY <1>1, <3>1 DEF CallOk
    <3> HIDE DEF q
    <3>3. QED
      BY <3>1, <3>2 DEF GoingOn
  <2>3. QED
    BY <2>1, <2>2
<1>14. CASE SubmitAnswer(s)
  <2>1. CASE Ends(s)
    BY <1>14, <2>1 DEF SubmitAnswer, AtStep, Answered, Stays, Ending
  <2>2. CASE ~ Ends(s)
    <3>1. Of("leaderboard", quiz.id) \in Location /\ Of("leaderboard", quiz.id).page = "leaderboard"
      BY PlaceTyped DEF BType, QuizType, Of
    <3>2. PICK l \in Location, t \in Persons, u \in Persons :
              l.page = "leaderboard" /\ t = token /\ u = me /\ renderCurrentRoute(l, s, t, u)
      BY <1>14, <2>2, <3>1 DEF SubmitAnswer, BType, renderCurrentRoute
    <3>3. QED
      BY <1>14, <3>2 DEF SubmitAnswer, AtStep, Answered, Rerendering
  <2>3. QED
    BY <2>1, <2>2
<1>15. QED
  BY <1>2, <1>3, <1>4, <1>6, <1>7, <1>10, <1>11, <1>12, <1>13, <1>14 DEF Answers

\* What a user who acts and is not hurried has waited for.
LEMMA HurriedBy ==
    ASSUME hurry \cup Hurries \subseteq hurry'
    PROVE  /\ "quiz" \notin hurry' =>
                 "quiz" \notin hurry /\ \A s \in Calls : call[s].kind \notin {"quiz", "submit"}
           /\ "page" \notin hurry' =>
                 "page" \notin hurry /\ \A s \in Calls : call[s].kind \notin Painters
           /\ "session" \notin hurry' =>
                 "session" \notin hurry /\ \A s \in Calls : call[s].kind \notin {"boot", "login"}
           /\ "list" \notin hurry' =>
                 "list" \notin hurry /\ \A s \in Calls : call[s].kind # "lists"
BY DEF Hurries, InFlight

LEMMA Selecting ==
    ASSUME BType, NEW o \in Options, selectOption(o)
    PROVE  /\ hurry \cup Hurries \subseteq hurry'
           /\ UNCHANGED <<loc, token, me, dialog, call, entry>>
           /\ app.view = "play" /\ dialog = None
           /\ app' \in ScreenType /\ quiz'.id = quiz.id
           /\ app'.page = app.page /\ app'.id = app.id /\ app'.view = app.view
           /\ app'.owner = app.owner /\ app'.wait = app.wait
BY DEF selectOption, ActsOnPage, Acts, BType, ScreenOk, ScreenType, QuizType

\* A load forgets every handler but its own.
LEMMA Loading ==
    ASSUME BType, NEW l \in Location, Load(l)
    PROVE  /\ hurry' = {} /\ me' = None /\ dialog' = None /\ UNCHANGED <<token, entry>>
           /\ app' = Blank /\ Blank.view = "blank" /\ Blank.page = None
           /\ \E s \in Calls :
                 /\ call'[s] = Boot(token) /\ Boot(token).kind = "boot" /\ Boot(token).as = token
                 /\ \A r \in Calls : r # s => call'[r] = Idle
<1>1. Blank.view = "blank" /\ Blank.page = None
  BY ScreenTyped DEF Blank, Ids
<1>2. PICK s \in Calls : s = CHOOSE x \in Calls : TRUE
  BY BrowserAssumption
<1>3. call'[s] = Boot(token) /\ \A r \in Calls : r # s => call'[r] = Idle
  BY <1>2 DEF Load
<1>4. Boot(token).kind = "boot" /\ Boot(token).as = token
  BY DEF Boot
<1>5. QED
  BY <1>1, <1>3, <1>4 DEF Load

-----------------------------------------------------------------------------
(* The session.                                                            *)

\* Until the start-up check is answered nobody is signed in, and nothing else
\* is under way that could change the token.
SessionInv ==
    "session" \notin hurry =>
        /\ \A s \in Calls : call[s].kind = "boot" =>
              /\ me = None /\ call[s].as = token
              /\ \A r \in Calls : call[r].kind \in {"boot", "login"} => r = s
        /\ ~InFlight({"boot"}) => app.view = "closed" \/ me = token

LEMMA SessionRerendered ==
    ASSUME BType, SessionInv, NEW s \in Calls, call[s].kind # "idle", Rerendering(s)
    PROVE  SessionInv'
<1> USE DEF BType, CallsOk
<1>1. PICK t, u, to, page :
          /\ t \in Persons /\ u \in Persons /\ to \in Location
          /\ token' = t /\ me' = u /\ hurry' = hurry
          /\ \/ call[s].kind = "boot" /\ ((t = token /\ u = call[s].as) \/ (t = None /\ u = None))
             \/ call[s].kind = "login" /\ t = u
             \/ call[s].kind \notin {"boot", "login"} /\ t = token /\ u = me
          /\ Painting(to, page, s, t) /\ call' = [call EXCEPT ![s] = page.call]
  BY Renders DEF Rerendering
<1>2. page.call.kind \notin {"boot", "login"}
  BY <1>1 DEF Painting
<1>3. app.view # "closed"
  BY AnsweredShows
<1>4. QED
  BY <1>1, <1>2, <1>3 DEF SessionInv, InFlight

\* A step on a handler that has nothing to do with the session.
LEMMA SessionKept ==
    ASSUME BType, SessionInv, NEW s \in Calls, call[s].kind \notin {"idle", "boot"}, NEW q,
           call' = [call EXCEPT ![s] = q], q.kind \notin {"boot", "login"},
           UNCHANGED <<token, me, hurry>>
    PROVE  SessionInv'
<1>1. app.view # "closed"
  BY AnsweredShows
<1>2. QED
  BY <1>1 DEF SessionInv, InFlight, BType, CallsOk

LEMMA SessionRepainted ==
    ASSUME BType, SessionInv, NEW s \in Calls, call[s].kind # "idle",
           Repainting(s) \/ GoingOn(s) \/ Ending(s)
    PROVE  SessionInv'
BY IdleOk, SessionKept DEF Repainting, Paints, GoingOn, Ending, Ends, Stays

LEMMA SessionStep ==
    ASSUME BType, SessionInv, [Next]_vars
    PROVE  SessionInv'
<1> USE DEF BType, CallsOk
<1>0. Idle.kind = "idle"
  BY IdleOk
<1>1. ASSUME NEW l \in Location, Load(l) PROVE SessionInv'
  BY <1>0, <1>1, Loading DEF SessionInv, InFlight
<1>2. ASSUME NEW s \in Calls, Clicking(s), Going(s) PROVE SessionInv'
  <2>1. PICK t, u, to, page :
            /\ t \in Persons /\ u \in Persons /\ to \in Location
            /\ token' = t /\ me' = u
            /\ (t = token /\ u = me) \/ (t = None /\ u = None)
            /\ Painting(to, page, s, t) /\ call' = [call EXCEPT ![s] = page.call]
    BY <1>2, Renders DEF Going, Clicking
  <2>2. page.call.kind \notin {"boot", "login"}
    BY <2>1 DEF Painting
  <2>3. QED
    BY <1>0, <1>2, <2>1, <2>2, HurriedBy DEF SessionInv, InFlight, Clicking
<1>3. ASSUME NEW s \in Calls, Clicking(s), Pressing(s) PROVE SessionInv'
  BY <1>0, <1>3, HurriedBy DEF SessionInv, InFlight, Clicking, Pressing
<1>4. ASSUME NEW o \in Options, selectOption(o) PROVE SessionInv'
  BY <1>4, Selecting, HurriedBy DEF SessionInv, InFlight
<1>5. CASE UNCHANGED vars
  BY <1>5 DEF SessionInv, InFlight, vars
<1>6. QED
  BY <1>1, <1>2, <1>3, <1>4, <1>5, SessionRerendered, SessionRepainted, ActingIs, AnswersAre DEF Next

-----------------------------------------------------------------------------
(* The quiz on the screen.                                                 *)

EmptyQuiz(c) == [NoQuiz EXCEPT !.id = c]

Shown ==
    /\ quiz.id = app.id
    /\ \A c \in Contests :
          quiz.answers[c] \in IF c = app.id THEN {None, app.marked} ELSE {None}
    /\ quiz.answers[app.id] = None => app.marked = {}

\* The start-up check may render the quiz of the URL once more while it is
\* still loading: every load of a quiz that is in flight is of that quiz, and
\* finds quizState empty.
QuizInv ==
    "quiz" \notin hurry =>
        /\ \A s \in Calls : call[s].kind = "quiz" =>
              /\ quiz = EmptyQuiz(call[s].id)
              /\ loc.page = "quiz" => loc.id = call[s].id
        /\ app.view = "play" => Shown

LEMMA QuizRerendered ==
    ASSUME BType, QuizInv, NEW s \in Calls, NEW l \in Location, NEW t \in Persons,
           NEW u \in Persons, renderCurrentRoute(l, s, t, u),
           \/ l.page = "quiz" => l = loc
           \/ \A r \in Calls : call[r].kind # "quiz",
           "quiz" \notin hurry' => "quiz" \notin hurry
    PROVE  QuizInv'
<1>1. PICK to, page :
          /\ to \in Location
          /\ to \in {l, At("contests"), At("login")} /\ Painting(to, page, s, t)
          /\ loc' = to /\ app' = page.screen /\ call' = [call EXCEPT ![s] = page.call]
          /\ quiz' = IF to.page = "quiz" THEN EmptyQuiz(to.id) ELSE quiz
  BY Renders DEF EmptyQuiz
<1>2. app'.view # "play" /\ (page.call.kind = "quiz" <=> to.page = "quiz")
      /\ (page.call.kind = "quiz" => page.call.id = to.id)
  BY <1>1 DEF Painting
<1>3. to.page = "quiz" => to = l
  BY <1>1 DEF At
<1>4. SUFFICES ASSUME "quiz" \notin hurry, NEW r \in Calls, call'[r].kind = "quiz"
               PROVE  /\ quiz' = EmptyQuiz(call'[r].id)
                      /\ loc'.page = "quiz" => loc'.id = call'[r].id
  BY <1>2 DEF QuizInv, EmptyQuiz, NoQuiz, NoAnswers
<1>5. CASE r = s
  BY <1>1, <1>2, <1>4, <1>5 DEF BType, CallsOk
<1>6. CASE r # s
  <2>1. call'[r] = call[r]
    BY <1>1, <1>6 DEF BType, CallsOk
  <2>2. quiz = EmptyQuiz(call[r].id) /\ (loc.page = "quiz" => loc.id = call[r].id)
    BY <1>4, <2>1 DEF QuizInv
  <2>3. l.page = "quiz" => l = loc
    BY <1>4, <2>1
  <2>4. to.page = "quiz" => to.id = call[r].id
    BY <1>3, <2>2, <2>3
  <2>5. QED
    BY <1>1, <2>1, <2>2, <2>4
<1>7. QED
  BY <1>5, <1>6

\* A step that leaves the quiz and the location alone.
LEMMA QuizKept ==
    ASSUME BType, QuizInv, NEW s \in Calls, NEW q, call' = [call EXCEPT ![s] = q],
           UNCHANGED <<loc, quiz>>, "quiz" \notin hurry' => "quiz" \notin hurry,
           q.kind = "quiz" => call[s].kind = "quiz" /\ q.id = call[s].id,
           "quiz" \notin hurry /\ app'.view = "play" => Shown'
    PROVE  QuizInv'
BY DEF BType, CallsOk, QuizInv, EmptyQuiz, NoQuiz, NoAnswers

LEMMA QuizSelected ==
    ASSUME BType, QuizInv, NEW o \in Options, selectOption(o)
    PROVE  QuizInv'
<1>1. /\ hurry \cup Hurries \subseteq hurry' /\ call' = call /\ app.view = "play"
      /\ app'.id = app.id /\ quiz'.id = quiz.id
  BY Selecting
<1>2. SUFFICES ASSUME "quiz" \notin hurry' PROVE Shown'
  BY <1>1, HurriedBy DEF QuizInv
<1>3. Shown /\ app.id \in Contests /\ app \in ScreenType /\ quiz \in QuizType
  BY <1>1, <1>2, HurriedBy DEF QuizInv, BType, ScreenOk
<1>4. PICK m \in SUBSET Options : m = app'.marked /\ quiz'.answers = [quiz.answers EXCEPT ![app.id] = m]
  <2> DEFINE c == app.id
             unmark == c \in Multi /\ o \in app.marked
             add(S) == IF unmark THEN S \ {o} ELSE IF c \in Multi THEN S \cup {o} ELSE {o}
             old == IF quiz.answers[c] = None THEN {} ELSE quiz.answers[c]
  <2>1. old = app.marked /\ app.marked \in SUBSET Options
    BY <1>3 DEF Shown, ScreenType
  <2>2. app' = [app EXCEPT !.marked = add(app.marked)] /\ quiz' = [quiz EXCEPT !.answers[c] = add(old)]
    BY DEF selectOption
  <2>3. add(app.marked) \in SUBSET Options
    BY <2>1
  <2>4. app'.marked = add(app.marked)
    BY <1>3, <2>2 DEF ScreenType
  <2>5. quiz'.answers = [quiz.answers EXCEPT ![c] = add(old)]
    BY <1>3, <2>2 DEF QuizType
  <2> HIDE DEF add, old
  <2>6. QED
    BY <2>1, <2>3, <2>4, <2>5
<1>5. QED
  BY <1>1, <1>3, <1>4, BrowserAssumption DEF Shown, QuizType

LEMMA QuizRedrawn ==
    ASSUME BType, QuizInv, NEW s \in Calls, Rerendering(s)
    PROVE  QuizInv'
<1>1. PICK l \in Location, t \in Persons, u \in Persons :
          /\ renderCurrentRoute(l, s, t, u) /\ hurry' = hurry
          /\ l = loc \/ l = At("contests") \/ l.page = "leaderboard" \/ l = At("admin")
  BY DEF Rerendering
<1>2. l.page = "quiz" => l = loc
  BY <1>1 DEF At
<1>3. QED
  BY <1>1, <1>2, QuizRerendered

LEMMA QuizRepainted ==
    ASSUME BType, QuizInv, NEW s \in Calls, Repainting(s)
    PROVE  QuizInv'
<1>1. PICK a : /\ Paints(s, a) /\ Stays
               /\ \/ call[s].kind = "contests" /\ a = [app EXCEPT !.wait = @ \ {s}]
                  \/ /\ a.view = "play" => call[s].kind = "quiz" /\ a.id = call[s].id
                     /\ a.marked = {}
  BY DEF Repainting
<1>2. /\ call' = [call EXCEPT ![s] = Idle] /\ app' = a /\ UNCHANGED <<loc, quiz>>
      /\ hurry' = hurry
  BY <1>1 DEF Paints, Stays
<1>3. CASE call[s].kind = "contests" /\ a = [app EXCEPT !.wait = @ \ {s}]
  <2>1. a.view = app.view /\ a.id = app.id /\ a.marked = app.marked
    BY <1>3 DEF BType, ScreenOk, ScreenType
  <2>2. "quiz" \notin hurry /\ app'.view = "play" => Shown'
    BY <1>2, <2>1 DEF QuizInv, Shown
  <2>3. QED
    BY IdleOk, <1>2, <2>2, QuizKept
<1>4. CASE a.marked = {} /\ (a.view = "play" => call[s].kind = "quiz" /\ a.id = call[s].id)
  <2>1. "quiz" \notin hurry /\ app'.view = "play" => Shown'
    BY <1>2, <1>4 DEF QuizInv, Shown, EmptyQuiz, NoQuiz, NoAnswers
  <2>2. QED
    BY IdleOk, <1>2, <2>1, QuizKept
<1>5. QED
  BY <1>1, <1>3, <1>4

LEMMA QuizStep ==
    ASSUME BType, QuizInv, [Next]_vars
    PROVE  QuizInv'
<1>0. Idle.kind = "idle"
  BY IdleOk
<1>1. ASSUME NEW l \in Location, Load(l) PROVE QuizInv'
  BY <1>0, <1>1, Loading DEF QuizInv
<1>2. ASSUME NEW s \in Calls, Clicking(s), Going(s) PROVE QuizInv'
  <2>1. PICK l \in Location, t \in Persons, u \in Persons :
            renderCurrentRoute(l, s, t, u) /\ (l = At("contests") \/ (t = token /\ u = me))
    BY <1>2 DEF Going
  <2>2. CASE "quiz" \in hurry'
    BY <2>2 DEF QuizInv
  <2>3. CASE "quiz" \notin hurry'
    BY <1>2, <2>1, <2>3, QuizRerendered, HurriedBy DEF Clicking
  <2>4. QED
    BY <2>2, <2>3
<1>3. ASSUME NEW s \in Calls, Clicking(s), Pressing(s) PROVE QuizInv'
  <2>1. PICK q : call' = [call EXCEPT ![s] = q] /\ q.kind # "quiz" /\ UNCHANGED <<loc, app, quiz>>
    BY <1>3 DEF Pressing
  <2>2. "quiz" \notin hurry' => "quiz" \notin hurry
    BY <1>3, HurriedBy DEF Clicking
  <2>3. "quiz" \notin hurry /\ app'.view = "play" => Shown'
    BY <2>1 DEF QuizInv, Shown
  <2>4. QED
    BY <2>1, <2>2, <2>3, QuizKept
<1>4. ASSUME NEW s \in Calls, GoingOn(s) \/ Ending(s) PROVE QuizInv'
  <2>1. PICK q : /\ call' = [call EXCEPT ![s] = q] /\ UNCHANGED <<loc, app, quiz>> /\ hurry' = hurry
                 /\ q.kind = "quiz" => call[s].kind = "quiz" /\ q.id = call[s].id
    BY <1>0, <1>4 DEF GoingOn, Ending, Ends, Stays
  <2>2. "quiz" \notin hurry /\ app'.view = "play" => Shown'
    BY <2>1 DEF QuizInv, Shown
  <2>3. QED
    BY <2>1, <2>2, QuizKept
<1>5. CASE UNCHANGED vars
  BY <1>5 DEF QuizInv, Shown, vars
<1>6. QED
  BY <1>1, <1>2, <1>3, <1>4, <1>5, ActingIs, AnswersAre, QuizSelected, QuizRedrawn,
     QuizRepainted DEF Next

-----------------------------------------------------------------------------
(* Submits.                                                                *)

\* While a submit is under way quizState and the token stay what they were when
\* the button was pressed, since no sign-in and no start-up check is.
SubmitInv ==
    {"quiz", "session"} \cap hurry = {} =>
        \A s \in Calls : call[s].kind = "submit" =>
            /\ call[s].to = call[s].id /\ call[s].as = call[s].by
            /\ quiz.id = call[s].id /\ token = call[s].by
            /\ \A r \in Calls : call[r].kind \notin {"boot", "login"}

\* An answer that leaves the token and quizState alone.
LEMMA SubmitKept ==
    ASSUME BType, SubmitInv, NEW s \in Calls, NEW q, call' = [call EXCEPT ![s] = q],
           quiz'.id = quiz.id, token' = token, hurry' = hurry, q.kind \notin {"boot", "login"},
           q.kind = "submit" =>
               /\ call[s].kind = "submit" /\ q.id = call[s].id /\ q.by = call[s].by
               /\ q.to = quiz.id /\ q.as = token
    PROVE  SubmitInv'
BY DEF BType, CallsOk, SubmitInv

LEMMA NoSubmit ==
    ASSUME BType, NEW s \in Calls, NEW q, call' = [call EXCEPT ![s] = q], q.kind # "submit",
           \A r \in Calls : r # s => call[r].kind # "submit"
    PROVE  SubmitInv'
BY DEF SubmitInv, BType, CallsOk

LEMMA SubmitRerendered ==
    ASSUME BType, SubmitInv, NEW s \in Calls, Rerendering(s)
    PROVE  SubmitInv'
<1>1. PICK l \in Location, t \in Persons, u \in Persons :
          /\ renderCurrentRoute(l, s, t, u) /\ token' = t /\ hurry' = hurry
          /\ \/ call[s].kind \in {"boot", "login"}
             \/ t = token /\ l.page \in {"leaderboard", "admin"}
  BY DEF Rerendering, At
<1>2. PICK to, page :
          /\ to \in Location
          /\ to \in {l, At("contests"), At("login")} /\ Painting(to, page, s, t)
          /\ call' = [call EXCEPT ![s] = page.call]
          /\ quiz' = IF to.page = "quiz" THEN [NoQuiz EXCEPT !.id = to.id] ELSE quiz
  BY <1>1, Renders
<1>3. page.call.kind \notin {"submit", "boot", "login"}
  BY <1>2 DEF Painting
<1>4. CASE call[s].kind \in {"boot", "login"}
  <2>1. CASE {"quiz", "session"} \cap hurry = {}
    <3>1. \A r \in Calls : call[r].kind # "submit"
      BY <1>4, <2>1 DEF SubmitInv
    <3>2. QED
      BY NoSubmit, <1>2, <1>3, <3>1
  <2>2. CASE {"quiz", "session"} \cap hurry # {}
    BY <1>1, <2>2 DEF SubmitInv
  <2>3. QED
    BY <2>1, <2>2
<1>5. CASE t = token /\ l.page \in {"leaderboard", "admin"}
  <2>1. to.page # "quiz"
    BY <1>2, <1>5 DEF At
  <2>2. QED
    BY <1>1, <1>2, <1>3, <1>5, <2>1, SubmitKept
<1>6. QED
  BY <1>1, <1>4, <1>5

LEMMA SubmitRepainted ==
    ASSUME BType, SubmitInv, NEW s \in Calls, Repainting(s) \/ Ending(s)
    PROVE  SubmitInv'
BY IdleOk, SubmitKept DEF Repainting, Paints, Ending, Ends, Stays

LEMMA SubmitStep ==
    ASSUME BType, QuizInv, SubmitInv, [Next]_vars
    PROVE  SubmitInv'
<1>0. Idle.kind = "idle"
  BY IdleOk
<1>1. ASSUME NEW l \in Location, Load(l) PROVE SubmitInv'
  BY <1>0, <1>1, Loading DEF SubmitInv
<1>2. ASSUME NEW s \in Calls, Clicking(s), Going(s) PROVE SubmitInv'
  <2>1. PICK page : call' = [call EXCEPT ![s] = page.call] /\ page.call.kind # "submit"
    BY <1>2, Renders DEF Going, Painting
  <2>2. QED
    BY <1>2, <2>1, HurriedBy, NoSubmit DEF Clicking, SubmitInv
<1>3. ASSUME NEW s \in Calls, Clicking(s), Pressing(s) PROVE SubmitInv'
  <2>1. PICK q : /\ call' = [call EXCEPT ![s] = q] /\ UNCHANGED <<token, quiz>>
                 /\ q.kind \in {"login", "save", "submit"}
                 /\ q.kind = "submit" =>
                       /\ app.view = "play" /\ q.id = app.id /\ q.by = token
                       /\ q.to = quiz.id /\ q.as = token
    BY <1>3 DEF Pressing
  <2>2. SUFFICES ASSUME "quiz" \notin hurry', "session" \notin hurry' PROVE SubmitInv'
    BY DEF SubmitInv
  <2>3. /\ "quiz" \notin hurry
        /\ \A r \in Calls : call[r].kind \notin {"quiz", "submit", "boot", "login"}
    BY <1>3, <2>2, HurriedBy DEF Clicking
  <2>4. q.kind = "submit" => quiz.id = q.id
    BY <2>1, <2>3 DEF QuizInv, Shown
  <2>5. QED
    BY <2>1, <2>3, <2>4 DEF SubmitInv, BType, CallsOk
<1>4. ASSUME NEW o \in Options, selectOption(o) PROVE SubmitInv'
  <2>1. /\ hurry \cup Hurries \subseteq hurry' /\ call' = call
    BY <1>4, Selecting
  <2>2. QED
    BY <2>1, HurriedBy DEF SubmitInv
<1>5. ASSUME NEW s \in Calls, GoingOn(s) PROVE SubmitInv'
  <2>1. PICK q : /\ call' = [call EXCEPT ![s] = q] /\ UNCHANGED <<quiz, token, hurry>>
                 /\ q.kind \in {"quiz", "submit"}
                 /\ q.kind = "submit" =>
                        /\ call[s].kind = "submit" /\ q.id = call[s].id /\ q.by = call[s].by
                        /\ q.to = quiz.id /\ q.as = token
    BY <1>5 DEF GoingOn, Stays
  <2>2. QED
    BY <2>1, SubmitKept
<1>6. CASE UNCHANGED vars
  BY <1>6 DEF SubmitInv, vars
<1>7. QED
  BY <1>1, <1>2, <1>3, <1>4, <1>5, <1>6, ActingIs, AnswersAre, SubmitRerendered,
     SubmitRepainted DEF Next

PressedIt(u, c) ==
    entry[u][c] # "submitted" /\ entry'[u][c] = "submitted"
    /\ {"quiz", "session"} \cap hurry = {} =>
        \E s \in Calls : call[s].kind = "submit" /\ call[s].id = c /\ call[s].by = u

LEMMA PressedStep ==
    ASSUME BType, SubmitInv, Next, NEW u \in Users, NEW c \in Contests
    PROVE  PressedIt(u, c)
<1>1. CASE entry' = entry
  BY <1>1 DEF PressedIt
<1>2. ASSUME NEW s \in Calls, QuizJoin(s), entry' # entry PROVE PressedIt(u, c)
  <2>1. entry' = [entry EXCEPT ![call[s].as][call[s].id] = "started"]
    BY <1>2 DEF QuizJoin
  <2>2. QED
    BY <2>1 DEF PressedIt, BType
<1>3. ASSUME NEW s \in Calls, SubmitAnswer(s), entry' # entry PROVE PressedIt(u, c)
  <2>1. /\ entry' = [entry EXCEPT ![call[s].as][call[s].to] = "submitted"]
        /\ call[s].kind = "submit"
    BY <1>3 DEF SubmitAnswer, AtStep, Answered
  <2>2. entry[u][c] # "submitted" /\ entry'[u][c] = "submitted" => call[s].as = u /\ call[s].to = c
    BY <2>1 DEF BType
  <2>3. QED
    BY <2>1, <2>2 DEF PressedIt, SubmitInv
<1>4. ASSUME Acting PROVE entry' = entry
  BY <1>4
  DEF Acting, Load, Visit, doLogout, SignIn, selectOption, saveAnswers, submitContest
<1>5. ASSUME NEW s \in Calls, Answers(s), ~ QuizJoin(s), ~ SubmitAnswer(s) PROVE entry' = entry
  BY <1>5
  DEF Answers, BootAnswer, LoginAnswer, ContestsAnswer, LeaderboardAnswer, DashboardAnswer,
      QuizContest, QuizHistory, QuizQuestions, SaveAnswer, SubmitSaved
<1>6. QED
  BY <1>1, <1>2, <1>3, <1>4, <1>5 DEF Next

-----------------------------------------------------------------------------
(* The screen and the location.                                            *)

\* The screen and the location agree.
Matches ==
    /\ app.page = loc.page /\ app.id = loc.id
    /\ canAccess(loc, token, me)
    /\ app.owner \in {None, token}

\* What is known of a handler in flight that is going to write #app.
Due(q) ==
    /\ q.kind # "boot" => canAccess(loc, token, me)
    /\ q.kind \in {"quiz", "leaderboard", "adminContest"} => loc.page = q.kind /\ loc.id = q.id
    /\ q.kind = "dashboard" => loc.page = "dashboard" /\ loc.id = None /\ q.as = token
    /\ q.kind = "remove" \/ (q.kind = "dialog" /\ q.op # "createContest") =>
          loc.page = "adminContest" /\ loc.id = q.id
    /\ q.kind \in {"login", "submit", "dialog", "remove", "deleteContest"} => Matches

\* A user who waits has one such handler in flight at most, and it is about the
\* location; when there is none the screen is the page of the location.
PageInv ==
    "page" \notin hurry =>
        /\ \A s \in Calls : call[s].kind \in Painters =>
              /\ Due(call[s])
              /\ \A r \in Calls : call[r].kind \in Painters => r = s
        /\ app.view # "closed" /\ ~InFlight(Painters) => Matches

\* A step on call s that moves nothing but what a painter leaves to others.
LEMMA PageKept ==
    ASSUME BType, PageInv, NEW s \in Calls, NEW q, call' = [call EXCEPT ![s] = q],
           UNCHANGED <<loc, token, me>>, app.view # "closed",
           "page" \notin hurry' => "page" \notin hurry,
           app'.page = app.page, app'.id = app.id, app'.owner = app.owner,
           "page" \notin hurry /\ q.kind \in Painters =>
               Due(q) /\ \A r \in Calls : r # s => call[r].kind \notin Painters,
           "page" \notin hurry /\ q.kind \notin Painters /\ call[s].kind \in Painters => Matches
    PROVE  PageInv'
<1>1. SUFFICES ASSUME "page" \notin hurry
               PROVE  /\ \A r \in Calls : call'[r].kind \in Painters =>
                            /\ Due(call[r])'
                            /\ \A x \in Calls : call'[x].kind \in Painters => x = r
                      /\ app'.view # "closed" /\ ~InFlight(Painters)' => Matches'
  BY DEF PageInv
<1>2. \A r \in Calls : call'[r] = IF r = s THEN q ELSE call[r]
  BY DEF BType, CallsOk
<1>3. Matches' <=> Matches
  BY DEF Matches, canAccess
<1>4. ASSUME NEW r \in Calls, Due(call'[r]) PROVE Due(call[r])'
  BY <1>3, <1>4 DEF Due, canAccess
<1>5. ASSUME NEW r \in Calls, call'[r].kind \in Painters
      PROVE  Due(call[r])' /\ \A x \in Calls : call'[x].kind \in Painters => x = r
  BY <1>1, <1>2, <1>4, <1>5 DEF PageInv
<1>6. ASSUME ~InFlight(Painters)' PROVE Matches
  <2>1. \A r \in Calls : call'[r].kind \notin Painters
    BY <1>6 DEF InFlight
  <2>2. q.kind \notin Painters /\ \A r \in Calls : r # s => call[r].kind \notin Painters
    BY <1>2, <2>1
  <2>3. QED
    BY <1>1, <2>2 DEF PageInv, InFlight
<1>7. QED
  BY <1>3, <1>5, <1>6

\* The only painter renders a location.
LEMMA PageRendered ==
    ASSUME BType, NEW s \in Calls, NEW l \in Location, NEW t \in Persons,
           NEW u \in Persons, renderCurrentRoute(l, s, t, u), token' = t, me' = u,
           "page" \notin hurry' => \A r \in Calls : r # s => call[r].kind \notin Painters
    PROVE  PageInv'
<1>1. SUFFICES ASSUME "page" \notin hurry'
               PROVE  /\ \A r \in Calls : call'[r].kind \in Painters =>
                            /\ Due(call[r])'
                            /\ \A x \in Calls : call'[x].kind \in Painters => x = r
                      /\ ~InFlight(Painters)' => Matches'
  BY DEF PageInv
<1>2. PICK to, page :
          /\ to \in Location
          /\ canAccess(to, t, u) /\ Painting(to, page, s, t)
          /\ loc' = to /\ app' = page.screen /\ call' = [call EXCEPT ![s] = page.call]
  BY Renders
<1>3. \A r \in Calls : call'[r] = IF r = s THEN page.call ELSE call[r]
  BY <1>2 DEF BType, CallsOk
<1>4. canAccess(loc, token, me)'
  BY <1>2 DEF canAccess
<1>5. ASSUME NEW r \in Calls, call'[r].kind \in Painters
      PROVE  r = s /\ Due(call[r])'
  <2>1. r = s /\ call'[r] = page.call
    BY <1>1, <1>3, <1>5
  <2>2. page.call.kind = "dashboard" => to.page = "dashboard" /\ to.id = None /\ page.call.as = t
    BY <1>2 DEF Painting, Location, ContestPages
  <2>3. QED
    BY <1>2, <1>4, <2>1, <2>2 DEF Painting, Due
<1>6. ASSUME ~InFlight(Painters)' PROVE Matches'
  BY <1>2, <1>3, <1>4, <1>6 DEF InFlight, Painting, Matches
<1>7. QED
  BY <1>5, <1>6

LEMMA PageActing ==
    ASSUME BType, PageInv, Acting
    PROVE  PageInv'
<1>1. ASSUME NEW l \in Location, Load(l) PROVE PageInv'
  <2>1. PICK s \in Calls : call'[s].kind = "boot" /\ \A r \in Calls : r # s => call'[r] = Idle
    BY <1>1, Loading
  <2>2. \A r \in Calls : call'[r].kind \in Painters => r = s
    BY <2>1, IdleOk DEF Painters
  <2>3. \A r \in Calls : call'[r].kind \in Painters => Due(call[r])'
    BY <2>1, <2>2 DEF Due
  <2>4. InFlight(Painters)'
    BY <2>1 DEF InFlight, Painters
  <2>5. QED
    BY <2>2, <2>3, <2>4 DEF PageInv
<1>2. ASSUME NEW s \in Calls, Clicking(s), Going(s) PROVE PageInv'
  <2>1. PICK l \in Location, t \in Persons, u \in Persons :
            renderCurrentRoute(l, s, t, u) /\ token' = t /\ me' = u
    BY <1>2 DEF Going
  <2>2. "page" \notin hurry' => \A r \in Calls : r # s => call[r].kind \notin Painters
    BY <1>2, HurriedBy DEF Clicking
  <2>3. QED
    BY <2>1, <2>2, PageRendered
<1>3. ASSUME NEW s \in Calls, Clicking(s), Pressing(s) PROVE PageInv'
  <2>1. PICK q : /\ call' = [call EXCEPT ![s] = q] /\ UNCHANGED <<loc, app, token, me>>
                 /\ q.kind \in {"login", "save", "submit"}
    BY <1>3 DEF Pressing
  <2>2. SUFFICES ASSUME "page" \notin hurry' PROVE PageInv'
    BY DEF PageInv
  <2>3. "page" \notin hurry /\ \A r \in Calls : call[r].kind \notin Painters
    BY <1>3, <2>2, HurriedBy DEF Clicking
  <2>4. Matches /\ app.view # "closed"
    BY <1>3, <2>3 DEF PageInv, InFlight, Clicking
  <2>5. Due(q)
    BY <2>1, <2>4 DEF Due, Matches
  <2>6. QED
    BY <2>1, <2>2, <2>3, <2>4, <2>5, PageKept
<1>4. ASSUME NEW o \in Options, selectOption(o) PROVE PageInv'
  <2>1. SUFFICES ASSUME "page" \notin hurry' PROVE PageInv'
    BY DEF PageInv
  <2>2. /\ UNCHANGED <<loc, token, me, call>>
        /\ app'.page = app.page /\ app'.id = app.id /\ app'.owner = app.owner
        /\ "page" \notin hurry /\ \A r \in Calls : call[r].kind \notin Painters
        /\ app.view = "play"
    BY <1>4, <2>1, Selecting, HurriedBy
  <2>3. Matches
    BY <2>2 DEF PageInv, InFlight
  <2>4. Matches'
    BY <2>2, <2>3 DEF Matches, canAccess
  <2>5. QED
    BY <2>2, <2>4 DEF PageInv
<1>5. QED
  BY <1>1, <1>2, <1>3, <1>4, ActingIs

\* An answer that renders: its handler is the only painter.
LEMMA PageRerendered ==
    ASSUME BType, PageInv, NEW s \in Calls, Rerendering(s)
    PROVE  PageInv'
<1>1. PICK l \in Location, t \in Persons, u \in Persons :
          renderCurrentRoute(l, s, t, u) /\ token' = t /\ me' = u /\ hurry' = hurry
  BY DEF Rerendering
<1>2. call[s].kind \in Painters
  BY DEF Rerendering, Painters
<1>3. "page" \notin hurry' => \A r \in Calls : r # s => call[r].kind \notin Painters
  BY <1>1, <1>2 DEF PageInv
<1>4. QED
  BY <1>1, <1>3, PageRendered

LEMMA PageRepainted ==
    ASSUME BType, PageInv, NEW s \in Calls, call[s].kind # "idle", Repainting(s)
    PROVE  PageInv'
<1>1. PICK a : /\ Paints(s, a) /\ Stays
               /\ \/ call[s].kind = "contests" /\ a = [app EXCEPT !.wait = @ \ {s}]
                  \/ /\ call[s].kind \in {"leaderboard", "dashboard", "quiz", "adminContest"}
                     /\ a.page = call[s].kind
                     /\ a.id = IF call[s].kind = "dashboard" THEN None ELSE call[s].id
                     /\ a.owner \in IF call[s].kind = "dashboard" THEN {None, call[s].as} ELSE {None}
  BY DEF Repainting
<1>2. /\ call' = [call EXCEPT ![s] = Idle] /\ app' = a /\ UNCHANGED <<loc, token, me, hurry>>
      /\ app.view # "closed" /\ Idle.kind \notin Painters
  BY <1>1, AnsweredShows, IdleOk DEF Paints, Stays, Painters
<1>3. CASE call[s].kind = "contests" /\ a = [app EXCEPT !.wait = @ \ {s}]
  <2>1. a.page = app.page /\ a.id = app.id /\ a.owner = app.owner
    BY <1>3 DEF BType, ScreenOk, ScreenType
  <2>2. QED
    BY <1>2, <1>3, <2>1, PageKept DEF Painters
<1>4. CASE ~ (call[s].kind = "contests" /\ a = [app EXCEPT !.wait = @ \ {s}])
  <2>1. SUFFICES ASSUME "page" \notin hurry PROVE PageInv'
    BY <1>2 DEF PageInv
  <2>2. call[s].kind \in Painters
    BY <1>1, <1>4 DEF Painters
  <2>3. Due(call[s]) /\ \A r \in Calls : r # s => call[r].kind \notin Painters
    BY <2>1, <2>2 DEF PageInv
  <2>4. \A r \in Calls : call'[r].kind \notin Painters
    BY <1>2, <2>3 DEF BType, CallsOk
  <2>5. a.page = loc.page /\ a.id = loc.id /\ a.owner \in {None, token} /\ canAccess(loc, token, me)
    BY <1>1, <1>4, <2>3 DEF Due
  <2>6. Matches'
    BY <1>2, <2>5 DEF Matches, canAccess
  <2>7. QED
    BY <2>4, <2>6 DEF PageInv
<1>5. QED
  BY <1>3, <1>4

LEMMA PageGoesOn ==
    ASSUME BType, PageInv, NEW s \in Calls, call[s].kind # "idle", GoingOn(s) \/ Ending(s)
    PROVE  PageInv'
<1>1. app.view # "closed" /\ Idle.kind = "idle"
  BY AnsweredShows, IdleOk
<1>2. CASE GoingOn(s)
  <2>1. PICK q : /\ call' = [call EXCEPT ![s] = q] /\ UNCHANGED <<loc, app, token, me, hurry>>
                 /\ q.kind = call[s].kind /\ q.id = call[s].id /\ q.kind \in {"quiz", "submit"}
    BY <1>2 DEF GoingOn, Stays
  <2>2. q.kind \in Painters
    BY <2>1 DEF Painters
  <2>3. "page" \notin hurry =>
            Due(q) /\ \A r \in Calls : r # s => call[r].kind \notin Painters
    BY <2>1, <2>2 DEF PageInv, Due
  <2>4. QED
    BY <1>1, <2>1, <2>2, <2>3, PageKept
<1>3. CASE Ending(s)
  <2>1. /\ call' = [call EXCEPT ![s] = Idle] /\ UNCHANGED <<loc, app, token, me, hurry>>
        /\ call[s].kind \in {"login", "save", "submit", "role", "dialog", "remove", "deleteContest"}
    BY <1>3 DEF Ending, Ends, Stays
  <2>2. "page" \notin hurry /\ call[s].kind \in Painters => Matches
    BY <2>1 DEF PageInv, Due, Painters
  <2>3. QED
    BY <1>1, <2>1, <2>2, PageKept DEF Painters
<1>4. QED
  BY <1>2, <1>3

LEMMA PageAnswers ==
    ASSUME BType, PageInv, NEW s \in Calls, Answers(s)
    PROVE  PageInv'
BY AnswersAre, PageRerendered, PageRepainted, PageGoesOn

-----------------------------------------------------------------------------
(* Theorems about the tab.                                                 *)

LEMMA BTypeStep ==
    ASSUME BType, [Next]_vars
    PROVE  BType'
<1>1. CASE UNCHANGED vars
  BY <1>1 DEF vars, BType, DialogOk, CallsOk
<1>2. QED
  BY <1>1, ActingTyped, AnswersTyped DEF Next

TabInv == BType /\ SessionInv /\ QuizInv /\ SubmitInv /\ PageInv

LEMMA TabInit == Init => TabInv
<1> SUFFICES ASSUME Init PROVE TabInv
  OBVIOUS
<1>1. app.view = "closed" /\ \A s \in Calls : call[s].kind = "idle"
  BY ScreenTyped, IdleOk DEF Init, Closed, Ids
<1>2. PageInv
  BY <1>1 DEF PageInv, Painters
<1>3. QED
  BY <1>1, <1>2, BTypeInit DEF TabInv, SessionInv, QuizInv, SubmitInv

LEMMA TabStep == TabInv /\ [Next]_vars => TabInv'
<1> SUFFICES ASSUME TabInv, [Next]_vars PROVE TabInv'
  OBVIOUS
<1>1. BType' /\ SessionInv' /\ QuizInv' /\ SubmitInv'
  BY BTypeStep, SessionStep, QuizStep, SubmitStep DEF TabInv
<1>2. PageInv'
  <2>1. CASE UNCHANGED vars
    BY <2>1 DEF TabInv, PageInv, Matches, Due, canAccess, InFlight, vars
  <2>2. QED
    BY <2>1, PageActing, PageAnswers DEF TabInv, Next
<1>3. QED
  BY <1>1, <1>2 DEF TabInv

LEMMA TabAlways == Spec => []TabInv
BY TabInit, TabStep, PTL DEF Spec

\* Every state of the tab is of its types: the screen that plays a quiz is of a
\* contest, each handler in flight remembers what its kind needs.
THEOREM TabTypes == Spec => []BType
<1>1. TabInv => BType
  BY DEF TabInv
<1>2. QED
  BY <1>1, TabAlways, PTL

\* currentUser of state.js is the user of the token in localStorage, however
\* many sign-ins, sign-outs, loads and Backs there were before.
THEOREM OneSessionHolds == Spec => []OneSession
<1>1. TabInv => OneSession
  BY DEF TabInv, SessionInv, OneSession
<1>2. QED
  BY <1>1, TabAlways, PTL

\* The quiz on the screen is the one quizState is about, with its answers.
THEOREM QuizIsOnScreen == Spec => []QuizOnScreen
<1>1. TabInv => QuizOnScreen
  BY DEF TabInv, QuizInv, Shown, QuizOnScreen
<1>2. QED
  BY <1>1, TabAlways, PTL

\* The page on the screen is the page of the URL, and the user may see it.
THEOREM ScreenIsOfTheUrl == Spec => []ScreenMatchesUrl
<1>1. TabInv => ScreenMatchesUrl
  BY DEF TabInv, PageInv, Matches, ScreenMatchesUrl, InFlight
<1>2. QED
  BY <1>1, TabAlways, PTL

\* A contest is submitted by its own Submit button, for the user who pressed it.
THEOREM PressedIsSubmitted == Spec => SubmitsWhatWasPressed
<1>1. TabInv /\ [Next]_vars => [\A u \in Users, c \in Contests : PressedIt(u, c)]_vars
  BY PressedStep DEF TabInv
<1>2. [][\A u \in Users, c \in Contests : PressedIt(u, c)]_vars => SubmitsWhatWasPressed
  BY DEF PressedIt, SubmitsWhatWasPressed
<1>3. QED
  BY <1>1, <1>2, TabAlways, PTL DEF Spec

-----------------------------------------------------------------------------
(* What the steps of the console come to.                                  *)

CType == BType /\ made \in Nat /\ kept \in Nat \cup {None} /\ listed \in Nat \cup {None}

\* A button of the console, or of the open dialog.
Commanding(s) ==
    \E q :
        /\ call' = [call EXCEPT ![s] = q]
        /\ UNCHANGED <<loc, app, token, me, quiz, dialog, entry>>
        /\ \/ q.kind = "role"
           \/ /\ q.kind \in {"remove", "deleteContest"}
              /\ app.page = "adminContest" /\ q.id = app.id /\ dialog = None
           \/ q.kind = "dialog" /\ dialog # None /\ q.op = dialog.kind /\ q.id = dialog.id

\* A dialog is opened over its page, or closed.
Toggling ==
    /\ UNCHANGED <<loc, app, token, me, quiz, call, entry>>
    /\ \/ dialog' = None
       \/ /\ dialog = None
          /\ \/ app.page = "admin" /\ dialog'.kind = "createContest"
             \/ /\ app.page = "adminContest" /\ dialog'.id = app.id
                /\ dialog'.kind \in Editors \cup Adders

LEMMA AdministersIs ==
    ASSUME BType, Administers
    PROVE  \E s \in Calls : Clicking(s) /\ (Commanding(s) \/ Toggling)
<1>1. ASSUME Acts PROVE Clicking(Slot) /\ Slot \in Calls
  BY <1>1, SlotIsIdle DEF Acts, Clicks, Clicking
<1>2. ASSUME NEW k \in Editors \cup Adders, OnContestPage, Opens(k, app.id)
      PROVE  Acts /\ Toggling
  BY <1>2 DEF OnContestPage, Opens, ActsOnPage, Toggling
<1>3. CASE showModal
  <2>1. ASSUME app.page = "admin", Opens("createContest", None) PROVE Acts /\ Toggling
    BY <2>1 DEF Opens, ActsOnPage, Toggling
  <2>2. QED
    BY <1>1, <1>2, <1>3, <2>1 DEF showModal
<1>4. CASE openEditContestModal \/ openEditQuestionModal \/ openEditOptionModal \/ openAddOptionModal
  BY <1>1, <1>2, <1>4
  DEF openEditContestModal, openEditQuestionModal, openEditOptionModal, openAddOptionModal, Editors
<1>5. CASE closeModal
  BY <1>1, <1>5 DEF closeModal, Toggling
<1>6. ASSUME NEW q, Acts, call' = [call EXCEPT ![Slot] = q],
             UNCHANGED <<loc, app, token, me, quiz, dialog, entry>>,
             \/ q.kind = "role"
             \/ /\ q.kind \in {"remove", "deleteContest"}
                /\ app.page = "adminContest" /\ q.id = app.id /\ dialog = None
             \/ q.kind = "dialog" /\ dialog # None /\ q.op = dialog.kind /\ q.id = dialog.id
      PROVE  \E s \in Calls : Clicking(s) /\ (Commanding(s) \/ Toggling)
  <2>1. PICK s \in Calls : s = Slot
    BY <1>1, <1>6
  <2>2. Commanding(s)
    BY <1>6, <2>1 DEF Commanding
  <2>3. QED
    BY <1>1, <1>6, <2>1, <2>2
<1>7. CASE updateUserRole
  BY <1>6, <1>7 DEF updateUserRole, ActsOnPage
<1>8. CASE deletePart \/ deleteContest
  BY <1>6, <1>8 DEF deletePart, deleteContest, OnContestPage, ActsOnPage
<1>9. CASE SaveDialog
  BY <1>6, <1>9 DEF SaveDialog
<1>10. QED
  BY <1>3, <1>4, <1>5, <1>7, <1>8, <1>9 DEF Administers

LEMMA AdministersTyped ==
    ASSUME BType, Administers
    PROVE  BType'
<1>1. PICK s \in Calls : Clicking(s) /\ (Commanding(s) \/ Toggling)
  BY AdministersIs
<1>2. CASE Commanding(s)
  <2>1. PICK q : /\ call' = [call EXCEPT ![s] = q]
                 /\ UNCHANGED <<loc, app, token, me, quiz, dialog, entry>>
                 /\ \/ q.kind = "role"
                    \/ /\ q.kind \in {"remove", "deleteContest"}
                       /\ app.page = "adminContest" /\ q.id = app.id
                    \/ q.kind = "dialog" /\ dialog # None /\ q.op = dialog.kind /\ q.id = dialog.id
    BY <1>2 DEF Commanding
  <2>2. CallOk(q)
    BY <2>1 DEF CallOk, BType, ScreenOk, DialogOk
  <2>3. QED
    BY <1>1, <2>1, <2>2, PaintTyped DEF BType, DialogOk, Clicking
<1>3. CASE Toggling
  <2>1. DialogOk'
    BY <1>3 DEF Toggling, DialogOk, BType, ScreenOk, Editors, Adders
  <2>2. QED
    BY <1>3, <2>1 DEF Toggling, BType, CallsOk
<1>4. QED
  BY <1>1, <1>2, <1>3

\* The answers to the handlers of the console.
ConsoleAnswers(s) ==
    \/ ListsRead(s) \/ ListsAnswer(s) \/ RoleAnswer(s)
    \/ EditorAnswer(s) \/ AdderAnswer(s) \/ CreateAnswer(s)
    \/ AdminContestAnswer(s) \/ DeletePartAnswer(s) \/ DeleteContestAnswer(s)

Listing(s) ==
    \E q :
        /\ call[s].kind = "lists" /\ call' = [call EXCEPT ![s] = q]
        /\ q.kind \in {"idle", "lists"}
        /\ app' = app \/ app' = [app EXCEPT !.wait = @ \ {s}]
        /\ UNCHANGED <<loc, token, me, quiz, entry, dialog, hurry, made, lapses>>
        /\ CallOk(q)

Reloading(s, part) ==
    /\ Reload(s, part)
    /\ UNCHANGED <<token, me, entry, hurry, listed>>
    /\ \/ call[s].kind = "role" /\ part = "users" /\ UNCHANGED <<dialog, made, kept, lapses>>
       \/ /\ Saved(s, {"createContest"}) /\ part = "contests" /\ dialog' \in {dialog, None}
          /\ CreateFailed

Rendering(s) ==
    \E q, a :
        /\ call' = [call EXCEPT ![s] = q] /\ app' = a
        /\ UNCHANGED <<loc, quiz, token, me, entry, hurry, made, kept, listed, lapses>>
        /\ \/ call[s].kind = "remove" /\ dialog' = dialog
           \/ Saved(s, Editors \cup Adders) /\ dialog' = None
        /\ \/ q.kind = "adminContest" /\ q.id = call[s].id /\ a = app
           \/ /\ q = Idle /\ a.page = "adminContest" /\ a.id = call[s].id /\ a.owner = None
              /\ a.view = "error" /\ ScreenOk(a)

Closing(s) ==
    /\ Ends(s)
    /\ UNCHANGED <<token, me, entry, hurry, made, kept, listed, lapses>>
    /\ dialog' = dialog \/ dialog' = None
    /\ call[s].kind \in {"role", "dialog", "remove", "deleteContest"}

LEMMA ContestRenders ==
    ASSUME BType, NEW s \in Calls, RenderContest(s), call[s].id \in Contests,
           UNCHANGED <<token, me, entry, hurry, made, kept, listed, lapses>>,
           \/ call[s].kind = "remove" /\ dialog' = dialog
           \/ Saved(s, Editors \cup Adders) /\ dialog' = None
    PROVE  Rendering(s)
<1> DEFINE page == renderAdminContestPage(call[s].id, me)
<1>1. /\ call' = [call EXCEPT ![s] = page.call] /\ UNCHANGED <<loc, quiz>>
      /\ app' = IF page.call = Idle THEN page.screen ELSE app
  BY DEF RenderContest
<1>2. CASE me \in Admins
  <2>1. page.call = [kind |-> "adminContest", id |-> call[s].id]
    BY <1>2 DEF renderAdminContestPage
  <2>2. PICK q : q = page.call /\ q.kind = "adminContest" /\ q.id = call[s].id
    BY <2>1
  <2>3. q # Idle
    BY <2>2, IdleOk
  <2>4. call' = [call EXCEPT ![s] = q] /\ app' = app
    BY <1>1, <2>2, <2>3
  <2>5. QED
    BY <1>1, <2>2, <2>4 DEF Rendering
<1>3. CASE me \notin Admins
  <2> DEFINE a == Screen("adminContest", call[s].id, "error")
  <2>1. page.call = Idle /\ page.screen = a
    BY <1>3 DEF renderAdminContestPage
  <2>2. call[s].id \in Ids /\ "adminContest" \in Pages
    BY DEF Ids, Pages
  <2>3. /\ a.page = "adminContest" /\ a.id = call[s].id /\ a.owner = None
        /\ a.view = "error" /\ ScreenOk(a)
    BY <2>2, ScreenTyped DEF ScreenOk
  <2>4. call' = [call EXCEPT ![s] = Idle] /\ app' = a
    BY <1>1, <2>1
  <2> HIDE DEF a
  <2>5. QED
    BY <1>1, <2>3, <2>4 DEF Rendering
<1>4. QED
  BY <1>2, <1>3

LEMMA ListsTyped ==
    ASSUME CType, NEW s \in Calls, ListsRead(s) \/ ListsAnswer(s)
    PROVE  Listing(s)
<1>1. call[s] \in [kind : {"lists"}, parts : SUBSET {"contests", "users"}, seen : Nat \cup {None}]
  BY DEF ListsRead, ListsAnswer, Answered, CType, BType, CallsOk, CallOk
<1>2. CASE ListsRead(s)
  <2> DEFINE q == [call[s] EXCEPT !.seen = Served]
  <2>1. q \in [kind : {"lists"}, parts : SUBSET {"contests", "users"}, seen : Nat \cup {None}]
    BY <1>1 DEF CType, Served
  <2>2. call' = [call EXCEPT ![s] = q]
    BY <1>2 DEF ListsRead
  <2> HIDE DEF q
  <2>3. CallOk(q) /\ q.kind = "lists"
    BY <2>1 DEF CallOk
  <2>4. QED
    BY <1>2, <2>2, <2>3 DEF ListsRead, Answered, Listing
<1>3. CASE ListsAnswer(s)
  <2>1. PICK p \in call[s].parts :
            /\ call' = [call EXCEPT ![s] =
                   IF call[s].parts \ {p} = {} THEN Idle
                   ELSE [@ EXCEPT !.parts = call[s].parts \ {p}]]
            /\ app' = IF call[s].parts \ {p} = {} THEN [app EXCEPT !.wait = @ \ {s}] ELSE app
    BY <1>3 DEF ListsAnswer
  <2> DEFINE r == [call[s] EXCEPT !.parts = call[s].parts \ {p}]
             q == IF call[s].parts \ {p} = {} THEN Idle ELSE r
  <2>2. r \in [kind : {"lists"}, parts : SUBSET {"contests", "users"}, seen : Nat \cup {None}]
    BY <1>1
  <2>3. CallOk(r) /\ r.kind = "lists"
    BY <2>2 DEF CallOk
  <2>4. call' = [call EXCEPT ![s] = q]
    BY <2>1
  <2> HIDE DEF r
  <2>5. CallOk(q) /\ q.kind \in {"idle", "lists"}
    BY <2>3, IdleOk
  <2> HIDE DEF q
  <2>6. app' = app \/ app' = [app EXCEPT !.wait = @ \ {s}]
    BY <2>1
  <2>7. QED
    BY <1>3, <2>4, <2>5, <2>6 DEF ListsAnswer, Answered, Listing
<1>4. QED
  BY <1>2, <1>3

LEMMA ConsoleAnswersAre ==
    ASSUME CType, NEW s \in Calls, ConsoleAnswers(s)
    PROVE  /\ call[s].kind # "idle"
           /\ \/ Listing(s) \/ Rendering(s) \/ Closing(s)
              \/ \E part \in {"contests", "users"} : Reloading(s, part)
              \/ (Repainting(s) \/ Rerendering(s)) /\ UNCHANGED <<made, kept, listed, lapses, entry>>
<1>1. CallOk(call[s]) /\ BType
  BY DEF CType, BType, CallsOk
<1>2. CASE ListsRead(s) \/ ListsAnswer(s)
  BY <1>2, ListsTyped DEF ListsRead, ListsAnswer, Answered
<1>3. CASE RoleAnswer(s)
  BY <1>3 DEF RoleAnswer, Answered, Closing, Reloading
<1>4. CASE EditorAnswer(s)
  <2>1. call[s].id \in Contests /\ Saved(s, Editors \cup Adders) /\ call[s].kind = "dialog"
    BY <1>1, <1>4 DEF EditorAnswer, Saved, CallOk
  <2>2. QED
    BY <1>1, <1>4, <2>1, ContestRenders DEF EditorAnswer, Refused, Closing
<1>5. CASE AdderAnswer(s)
  <2>1. call[s].id \in Contests /\ Saved(s, Editors \cup Adders) /\ call[s].kind = "dialog"
    BY <1>1, <1>5 DEF AdderAnswer, Saved, CallOk
  <2>2. QED
    BY <1>1, <1>5, <2>1, ContestRenders DEF AdderAnswer, Refused, Closing
<1>6. CASE CreateAnswer(s)
  BY <1>6 DEF CreateAnswer, CreateFailed, Saved, Reloading
<1>7. CASE AdminContestAnswer(s)
  <2>1. PICK v \in {"ready", "error"} : Paints(s, Screen("adminContest", call[s].id, v))
    BY <1>7 DEF AdminContestAnswer
  <2> DEFINE a == Screen("adminContest", call[s].id, v)
  <2>2. call[s].kind = "adminContest" /\ Stays /\ UNCHANGED <<made, kept, listed, lapses, entry>>
    BY <1>7 DEF AdminContestAnswer, Answered, Stays
  <2>3. call[s].id \in Ids /\ "adminContest" \in Pages
    BY <1>1, <2>2 DEF CallOk, Ids, Pages
  <2>4. /\ a.page = "adminContest" /\ a.id = call[s].id /\ a.view = v /\ a.owner = None
        /\ a.wait = {} /\ a.marked = {}
    BY <2>3, ScreenTyped
  <2>5. Paints(s, a)
    BY <2>1
  <2> HIDE DEF a
  <2>6. QED
    BY <2>2, <2>4, <2>5 DEF Repainting
<1>8. CASE DeletePartAnswer(s)
  <2>1. call[s].id \in Contests /\ call[s].kind = "remove"
    BY <1>1, <1>8 DEF DeletePartAnswer, Answered, CallOk
  <2>2. QED
    BY <1>1, <1>8, <2>1, ContestRenders DEF DeletePartAnswer, Answered, Closing
<1>9. CASE DeleteContestAnswer(s)
  <2>1. CASE Ends(s)
    BY <1>9, <2>1 DEF DeleteContestAnswer, Answered, Closing
  <2>2. CASE ~ Ends(s)
    <3>1. PICK l \in Location, t \in Persons, u \in Persons :
              l = At("admin") /\ t = token /\ u = me /\ renderCurrentRoute(l, s, t, u)
      BY <1>1, <1>9, <2>2, PlaceTyped DEF DeleteContestAnswer, BType, renderCurrentRoute
    <3>2. Rerendering(s)
      BY <1>9, <3>1 DEF DeleteContestAnswer, Answered, Rerendering
    <3>3. QED
      BY <1>9, <3>2 DEF DeleteContestAnswer, Answered
  <2>3. QED
    BY <2>1, <2>2
<1>10. QED
  BY <1>2, <1>3, <1>4, <1>5, <1>6, <1>7, <1>8, <1>9 DEF ConsoleAnswers

LEMMA ConsoleTyped ==
    ASSUME CType, NEW s \in Calls, ConsoleAnswers(s)
    PROVE  CType'
<1>1. BType /\ CallOk(call[s]) /\ CallOk(Idle) /\ app.view # "closed"
  BY ConsoleAnswersAre, AnsweredShows, IdleOk DEF CType, BType, CallsOk
<1>2. made' \in Nat /\ kept' \in Nat \cup {None} /\ listed' \in Nat \cup {None}
  <2>1. CASE ListsAnswer(s)
    <3>1. call[s].seen \in Nat \cup {None}
      BY <1>1, <2>1 DEF ListsAnswer, Answered, CallOk
    <3>2. QED
      BY <2>1, <3>1 DEF ListsAnswer, CType
  <2>2. CASE CreateAnswer(s)
    BY <2>2 DEF CreateAnswer, Created, CreateFailed, CType
  <2>3. CASE ListsRead(s)
    BY <2>3 DEF ListsRead, Served, CType
  <2>4. CASE UNCHANGED <<made, kept, listed, lapses>>
    BY <2>4 DEF CType
  <2>5. QED
    BY <2>1, <2>2, <2>3, <2>4
    DEF ConsoleAnswers, RoleAnswer, EditorAnswer, AdderAnswer, AdminContestAnswer,
        DeletePartAnswer, DeleteContestAnswer
<1>3. SUFFICES BType'
  BY <1>2 DEF CType
<1>4. ASSUME NEW x \in SUBSET Calls
      PROVE  ScreenOk([app EXCEPT !.wait = x]) /\ [app EXCEPT !.wait = x].view # "closed"
  BY <1>1, <1>4 DEF BType, ScreenOk, ScreenType
<1>5. ASSUME NEW q, CallOk(q), call' = [call EXCEPT ![s] = q], ScreenOk(app'),
             app'.view # "closed", UNCHANGED <<loc, token, me, quiz, entry>>,
             dialog' = dialog \/ dialog' = None
      PROVE  BType'
  BY <1>1, <1>5, PaintTyped DEF BType, DialogOk
<1>6. ScreenOk(app) /\ app.wait \in SUBSET Calls
  BY <1>1 DEF BType, ScreenOk, ScreenType
<1>7. CASE Listing(s)
  BY <1>1, <1>4, <1>5, <1>6, <1>7 DEF Listing
<1>8. CASE Closing(s)
  BY <1>1, <1>5, <1>6, <1>8 DEF Closing, Ends
<1>9. ASSUME NEW part \in {"contests", "users"}, Reloading(s, part) PROVE BType'
  <2> DEFINE q == [kind |-> "lists", parts |-> {part}, seen |-> None]
  <2>1. CallOk(q)
    BY <1>9 DEF CallOk
  <2>2. /\ call' = [call EXCEPT ![s] = q] /\ UNCHANGED <<loc, quiz, token, me, entry>>
        /\ app' = app \/ app' = [app EXCEPT !.wait = app.wait \cup {s}]
        /\ dialog' = dialog \/ dialog' = None
    BY <1>9 DEF Reloading, Reload
  <2> HIDE DEF q
  <2>3. QED
    BY <1>1, <1>4, <1>5, <1>6, <2>1, <2>2
<1>10. CASE Rendering(s)
  <2>1. PICK q, a : /\ call' = [call EXCEPT ![s] = q] /\ app' = a
                    /\ UNCHANGED <<loc, quiz, token, me, entry>>
                    /\ dialog' = dialog \/ dialog' = None
                    /\ \/ q.kind = "adminContest" /\ q.id = call[s].id /\ a = app
                       \/ q = Idle /\ a.view = "error" /\ ScreenOk(a)
    BY <1>10 DEF Rendering
  <2>2. call[s].id \in Contests
    BY <1>1, <1>10 DEF Rendering, Saved, CallOk
  <2>3. CallOk(q)
    BY <1>1, <2>1, <2>2 DEF CallOk
  <2>4. QED
    BY <1>1, <1>5, <1>6, <2>1, <2>3
<1>11. CASE AdminContestAnswer(s)
  <2>1. PICK v \in {"ready", "error"} : Paints(s, Screen("adminContest", call[s].id, v))
    BY <1>11 DEF AdminContestAnswer
  <2>2. call[s].id \in Contests /\ "adminContest" \in Pages
    BY <1>1, <1>11 DEF AdminContestAnswer, Answered, CallOk, Pages
  <2>3. /\ ScreenOk(Screen("adminContest", call[s].id, v))
        /\ Screen("adminContest", call[s].id, v).view # "closed"
    BY <2>2, ScreenTyped DEF ScreenOk, Ids
  <2>4. QED
    BY <1>1, <1>5, <1>11, <2>1, <2>3 DEF AdminContestAnswer, Answered, Paints
<1>12. CASE Rerendering(s) /\ UNCHANGED entry
  BY <1>1, <1>12, RenderTyped DEF Rerendering, BType, DialogOk
<1>13. Repainting(s) => AdminContestAnswer(s)
  BY DEF Repainting, ConsoleAnswers, ListsRead, ListsAnswer, RoleAnswer, EditorAnswer, AdderAnswer,
         CreateAnswer, DeletePartAnswer, DeleteContestAnswer, Answered, Saved
<1>14. QED
  BY <1>7, <1>8, <1>9, <1>10, <1>11, <1>12, <1>13, ConsoleAnswersAre

-----------------------------------------------------------------------------
(* Dialogs, and the screen under them.                                     *)

\* Under an open dialog only the answer to a save may write #app.
DialogInv ==
    "page" \notin hurry /\ dialog # None =>
        /\ \A s \in Calls : call[s].kind \in Painters => call[s].kind = "dialog"
        /\ IF dialog.kind = "createContest" THEN app.page = "admin"
           ELSE app.page = "adminContest" /\ app.id = dialog.id

LEMMA PageAdministers ==
    ASSUME BType, PageInv, DialogInv, Administers
    PROVE  PageInv'
<1>1. PICK s \in Calls : Clicking(s) /\ (Commanding(s) \/ Toggling)
  BY AdministersIs
<1>2. SUFFICES ASSUME "page" \notin hurry' PROVE PageInv'
  BY DEF PageInv
<1>3. /\ "page" \notin hurry /\ \A r \in Calls : call[r].kind \notin Painters
      /\ app.view # "closed"
  BY <1>1, <1>2, HurriedBy DEF Clicking
<1>4. Matches
  BY <1>3 DEF PageInv, InFlight
<1>5. CASE Commanding(s)
  <2>1. PICK q : /\ call' = [call EXCEPT ![s] = q]
                 /\ UNCHANGED <<loc, app, token, me>>
                 /\ \/ q.kind = "role"
                    \/ /\ q.kind \in {"remove", "deleteContest"}
                       /\ app.page = "adminContest" /\ q.id = app.id
                    \/ q.kind = "dialog" /\ dialog # None /\ q.op = dialog.kind /\ q.id = dialog.id
    BY <1>5 DEF Commanding
  <2>2. Due(q)
    BY <1>3, <1>4, <2>1 DEF Due, DialogInv, Matches
  <2>3. QED
    BY <1>1, <1>2, <1>3, <1>4, <2>1, <2>2, PageKept
<1>6. CASE Toggling
  BY <1>2, <1>3, <1>4, <1>6 DEF Toggling, PageInv, Matches, canAccess
<1>7. QED
  BY <1>1, <1>5, <1>6

LEMMA PageConsole ==
    ASSUME CType, PageInv, NEW s \in Calls, ConsoleAnswers(s)
    PROVE  PageInv'
<1>1. BType /\ call[s].kind # "idle" /\ app.view # "closed" /\ Idle.kind = "idle"
  BY ConsoleAnswersAre, AnsweredShows, IdleOk DEF CType
<1>2. ASSUME NEW x \in SUBSET Calls
      PROVE  /\ [app EXCEPT !.wait = x].page = app.page /\ [app EXCEPT !.wait = x].id = app.id
             /\ [app EXCEPT !.wait = x].owner = app.owner
  BY <1>1 DEF BType, ScreenOk, ScreenType
<1>3. app.wait \in SUBSET Calls
  BY <1>1 DEF BType, ScreenOk, ScreenType
<1>4. CASE Listing(s)
  <2>1. PICK q : /\ call[s].kind = "lists" /\ call' = [call EXCEPT ![s] = q]
                 /\ q.kind \in {"idle", "lists"}
                 /\ app' = app \/ app' = [app EXCEPT !.wait = app.wait \ {s}]
                 /\ UNCHANGED <<loc, token, me, hurry>>
    BY <1>4 DEF Listing
  <2>2. app'.page = app.page /\ app'.id = app.id /\ app'.owner = app.owner
    <3>1. app.wait \ {s} \in SUBSET Calls
      BY <1>3
    <3>2. QED
      BY <1>2, <2>1, <3>1
  <2>3. QED
    BY <1>1, <2>1, <2>2, PageKept DEF Painters
<1>5. ASSUME NEW part \in {"contests", "users"}, Reloading(s, part) PROVE PageInv'
  <2>1. PICK q : /\ call' = [call EXCEPT ![s] = q] /\ q.kind = "lists"
                 /\ app' = app \/ app' = [app EXCEPT !.wait = app.wait \cup {s}]
                 /\ UNCHANGED <<loc, token, me, hurry>>
                 /\ call[s].kind \in {"role", "dialog"}
    BY <1>5 DEF Reloading, Reload, Saved
  <2>2. app'.page = app.page /\ app'.id = app.id /\ app'.owner = app.owner
    BY <1>2, <1>3, <2>1
  <2>3. "page" \notin hurry /\ call[s].kind \in Painters => Matches
    BY <2>1 DEF PageInv, Due, Painters
  <2>4. QED
    BY <1>1, <2>1, <2>2, <2>3, PageKept DEF Painters
<1>6. CASE Closing(s)
  <2>1. /\ call' = [call EXCEPT ![s] = Idle] /\ UNCHANGED <<loc, app, token, me, hurry>>
        /\ call[s].kind \in {"role", "dialog", "remove", "deleteContest"}
    BY <1>6 DEF Closing, Ends
  <2>2. "page" \notin hurry /\ call[s].kind \in Painters => Matches
    BY <2>1 DEF PageInv, Due, Painters
  <2>3. QED
    BY <1>1, <2>1, <2>2, PageKept DEF Painters
<1>7. CASE Rendering(s)
  <2>1. PICK q, a :
            /\ call' = [call EXCEPT ![s] = q] /\ app' = a
            /\ UNCHANGED <<loc, token, me, hurry>>
            /\ \/ q.kind = "adminContest" /\ q.id = call[s].id /\ a = app
               \/ /\ q = Idle /\ a.page = "adminContest" /\ a.id = call[s].id /\ a.owner = None
    BY <1>7 DEF Rendering
  <2>2. call[s].kind = "remove" \/ (call[s].kind = "dialog" /\ call[s].op # "createContest")
    BY <1>7 DEF Rendering, Saved, Editors, Adders
  <2>3. SUFFICES ASSUME "page" \notin hurry PROVE PageInv'
    BY <2>1 DEF PageInv
  <2>4. Due(call[s]) /\ \A r \in Calls : r # s => call[r].kind \notin Painters
    BY <2>2, <2>3 DEF PageInv, Painters
  <2>5. canAccess(loc, token, me) /\ loc.page = "adminContest" /\ loc.id = call[s].id /\ Matches
    BY <2>2, <2>4 DEF Due
  <2>6. CASE q.kind = "adminContest" /\ q.id = call[s].id /\ a = app
    <3>1. Due(q)
      BY <2>5, <2>6 DEF Due
    <3>2. QED
      BY <1>1, <2>1, <2>4, <2>5, <2>6, <3>1, PageKept
  <2>7. CASE q = Idle /\ a.page = "adminContest" /\ a.id = call[s].id /\ a.owner = None
    <3>1. \A r \in Calls : call'[r].kind \notin Painters
      BY <1>1, <2>1, <2>4, <2>7 DEF BType, CallsOk, Painters
    <3>2. Matches'
      BY <2>1, <2>5, <2>7 DEF Matches, canAccess
    <3>3. QED
      BY <3>1, <3>2 DEF PageInv
  <2>8. QED
    BY <2>1, <2>6, <2>7
<1>8. QED
  BY <1>1, <1>4, <1>5, <1>6, <1>7, ConsoleAnswersAre, PageRerendered, PageRepainted

\* A step that leaves the dialog and the page alone.
LEMMA DialogKept ==
    ASSUME BType, DialogInv, NEW s \in Calls, NEW q, call' = [call EXCEPT ![s] = q],
           dialog' = dialog \/ dialog' = None, "page" \notin hurry' => "page" \notin hurry,
           app'.page = app.page, app'.id = app.id,
           q.kind \in Painters => q.kind = "dialog" \/ dialog = None
    PROVE  DialogInv'
BY DEF BType, CallsOk, DialogInv

LEMMA DialogActing ==
    ASSUME BType, DialogInv, Acting
    PROVE  DialogInv'
<1>1. ASSUME NEW l \in Location, Load(l) PROVE DialogInv'
  BY <1>1, Loading DEF DialogInv
<1>2. ASSUME NEW s \in Calls, Going(s) PROVE DialogInv'
  BY <1>2 DEF Going, DialogInv
<1>3. ASSUME NEW s \in Calls, Pressing(s) PROVE DialogInv'
  BY <1>3 DEF Pressing, DialogInv
<1>4. ASSUME NEW o \in Options, selectOption(o) PROVE DialogInv'
  BY <1>4, Selecting DEF DialogInv
<1>5. QED
  BY <1>1, <1>2, <1>3, <1>4, ActingIs

LEMMA DialogRendered ==
    ASSUME BType, DialogInv, NEW s \in Calls, Rerendering(s) \/ Repainting(s)
    PROVE  DialogInv'
<1>1. dialog' = dialog /\ hurry' = hurry
  BY DEF Rerendering, Repainting, Stays
<1>2. CASE call[s].kind \in Painters \ {"dialog"}
  BY <1>1, <1>2 DEF DialogInv
<1>3. CASE call[s].kind \notin Painters \ {"dialog"}
  <2>1. call' = [call EXCEPT ![s] = Idle] /\ app' = [app EXCEPT !.wait = @ \ {s}]
    BY <1>3 DEF Rerendering, Repainting, Paints, Painters
  <2>2. app'.page = app.page /\ app'.id = app.id
    BY <2>1 DEF BType, ScreenOk, ScreenType
  <2>3. Idle.kind \notin Painters
    BY IdleOk DEF Painters
  <2>4. QED
    BY <1>1, <2>1, <2>2, <2>3, DialogKept
<1>4. QED
  BY <1>2, <1>3

LEMMA DialogAnswers ==
    ASSUME BType, DialogInv, NEW s \in Calls, Answers(s)
    PROVE  DialogInv'
<1>1. CASE GoingOn(s)
  BY <1>1 DEF GoingOn, Stays, DialogInv, Painters
<1>2. CASE Ending(s)
  <2>1. call' = [call EXCEPT ![s] = Idle] /\ UNCHANGED <<app, dialog, hurry>>
    BY <1>2 DEF Ending, Ends, Stays
  <2>2. Idle.kind \notin Painters
    BY IdleOk DEF Painters
  <2>3. QED
    BY <2>1, <2>2, DialogKept
<1>3. QED
  BY <1>1, <1>2, AnswersAre, DialogRendered

LEMMA DialogAdministers ==
    ASSUME BType, DialogInv, Administers
    PROVE  DialogInv'
<1>1. PICK s \in Calls : Clicking(s) /\ (Commanding(s) \/ Toggling)
  BY AdministersIs
<1>2. SUFFICES ASSUME "page" \notin hurry' PROVE DialogInv'
  BY DEF DialogInv
<1>3. "page" \notin hurry /\ \A r \in Calls : call[r].kind \notin Painters
  BY <1>1, <1>2, HurriedBy DEF Clicking
<1>4. CASE Commanding(s)
  <2>1. PICK q : /\ call' = [call EXCEPT ![s] = q] /\ UNCHANGED <<app, dialog>>
                 /\ q.kind = "role" \/ dialog = None \/ q.kind = "dialog"
    BY <1>4 DEF Commanding
  <2>2. QED
    BY <1>1, <1>3, <2>1, DialogKept DEF Painters
<1>5. CASE Toggling
  BY <1>3, <1>5 DEF Toggling, DialogInv, Editors, Adders
<1>6. QED
  BY <1>1, <1>4, <1>5

LEMMA DialogConsole ==
    ASSUME CType, DialogInv, NEW s \in Calls, ConsoleAnswers(s)
    PROVE  DialogInv'
<1>1. BType /\ Idle.kind \notin Painters
  BY IdleOk DEF CType, Painters
<1>2. ASSUME NEW x \in SUBSET Calls
      PROVE  [app EXCEPT !.wait = x].page = app.page /\ [app EXCEPT !.wait = x].id = app.id
  BY <1>1 DEF BType, ScreenOk, ScreenType
<1>3. app.wait \in SUBSET Calls
  BY <1>1 DEF BType, ScreenOk, ScreenType
<1>4. CASE Listing(s)
  <2>1. PICK q : /\ call' = [call EXCEPT ![s] = q] /\ q.kind \in {"idle", "lists"}
                 /\ app' = app \/ app' = [app EXCEPT !.wait = app.wait \ {s}]
                 /\ UNCHANGED <<dialog, hurry>>
    BY <1>4 DEF Listing
  <2>2. app'.page = app.page /\ app'.id = app.id
    <3>1. app.wait \ {s} \in SUBSET Calls
      BY <1>3
    <3>2. QED
      BY <1>2, <2>1, <3>1
  <2>3. QED
    BY <1>1, <2>1, <2>2, DialogKept DEF Painters
<1>5. ASSUME NEW part \in {"contests", "users"}, Reloading(s, part) PROVE DialogInv'
  <2>1. PICK q : /\ call' = [call EXCEPT ![s] = q] /\ q.kind = "lists"
                 /\ app' = app \/ app' = [app EXCEPT !.wait = app.wait \cup {s}]
                 /\ dialog' = dialog \/ dialog' = None
                 /\ hurry' = hurry
    BY <1>5 DEF Reloading, Reload
  <2>2. app'.page = app.page /\ app'.id = app.id
    BY <1>2, <1>3, <2>1
  <2>3. QED
    BY <1>1, <2>1, <2>2, DialogKept DEF Painters
<1>6. CASE Closing(s)
  BY <1>1, <1>6, DialogKept DEF Closing, Ends
<1>7. CASE Rendering(s)
  BY <1>7 DEF Rendering, DialogInv, Painters
<1>8. QED
  BY <1>1, <1>4, <1>5, <1>6, <1>7, ConsoleAnswersAre, DialogRendered

-----------------------------------------------------------------------------
(* The list of contests.                                                   *)

\* The contests of the admin panel are still to come, from which slot.
Expected(s) == call[s].kind = "lists" /\ "contests" \in call[s].parts

\* No list is on its way while a contest is being created.  Unless the cache
\* fell behind, it holds every contest or nothing, and a list that is on its way
\* is not older than the last creation.
ListInv ==
    /\ lapses = {} => kept \in {made, None}
    /\ {"page", "list"} \cap hurry = {} =>
          /\ \A s \in Calls : Saved(s, {"createContest"}) => \A r \in Calls : ~Expected(r)
          /\ lapses = {} =>
                /\ \A s \in Calls : Expected(s) => call[s].seen \in {None, made}
                /\ app.page = "admin" => listed \in {made, None} \/ \E s \in app.wait : Expected(s)

\* A step that neither starts nor ends a list or a creation.
LEMMA ListKept ==
    ASSUME BType, ListInv, NEW s \in Calls, NEW q, call' = [call EXCEPT ![s] = q],
           UNCHANGED <<made, kept, listed, lapses>>,
           {"page", "list"} \cap hurry' = {} => {"page", "list"} \cap hurry = {},
           app'.page = "admin" => app.page = "admin" /\ app.wait \ {s} \subseteq app'.wait,
           q.kind \notin {"lists", "dialog"}, call[s].kind # "lists"
    PROVE  ListInv'
<1>1. SUFFICES ASSUME {"page", "list"} \cap hurry' = {} PROVE ListInv'
  BY DEF ListInv
<1>2. \A r \in Calls : call'[r] = IF r = s THEN q ELSE call[r]
  BY DEF BType, CallsOk
<1>3. \A r \in Calls : Expected(r)' => Expected(r)
  BY <1>2 DEF Expected
<1>4. \A r \in Calls : Saved(r, {"createContest"})' => Saved(r, {"createContest"})
  BY <1>2 DEF Saved
<1>5. ASSUME lapses = {}
      PROVE  \A r \in Calls : Expected(r)' => call'[r].seen \in {None, made'}
  BY <1>1, <1>2, <1>3, <1>5 DEF ListInv, Expected
<1>6. ASSUME app'.page = "admin", lapses = {}
      PROVE  listed' \in {made', None} \/ \E r \in app'.wait : Expected(r)'
  <2>1. listed \in {made, None} \/ \E r \in app.wait : Expected(r)
    BY <1>1, <1>6 DEF ListInv
  <2>2. CASE listed \in {made, None}
    BY <2>2
  <2>3. ASSUME NEW r \in app.wait, Expected(r) PROVE \E x \in app'.wait : Expected(x)'
    <3>1. r # s /\ r \in Calls
      BY <2>3 DEF Expected, BType, ScreenOk, ScreenType
    <3>2. Expected(r)' /\ r \in app'.wait
      BY <1>2, <1>6, <2>3, <3>1 DEF Expected
    <3>3. QED
      BY <3>2
  <2>4. QED
    BY <2>1, <2>2, <2>3
<1>7. QED
  BY <1>1, <1>3, <1>4, <1>5, <1>6 DEF ListInv

\* A location is rendered while no contest is being created.
LEMMA ListRendered ==
    ASSUME BType, ListInv, NEW s \in Calls, NEW l \in Location, NEW t \in Persons,
           NEW u \in Persons, renderCurrentRoute(l, s, t, u), UNCHANGED <<made, kept, listed, lapses>>,
           {"page", "list"} \cap hurry' = {} =>
               /\ {"page", "list"} \cap hurry = {}
               /\ \A r \in Calls : r # s => call[r].kind # "dialog"
    PROVE  ListInv'
<1>1. SUFFICES ASSUME {"page", "list"} \cap hurry' = {} PROVE ListInv'
  BY DEF ListInv
<1>2. PICK to, page :
          /\ to \in Location
          /\ Painting(to, page, s, t)
          /\ app' = page.screen /\ call' = [call EXCEPT ![s] = page.call]
  BY Renders
<1>3. \A r \in Calls : call'[r] = IF r = s THEN page.call ELSE call[r]
  BY <1>2 DEF BType, CallsOk
<1>4. \A r \in Calls : ~Saved(r, {"createContest"})'
  BY <1>1, <1>2, <1>3 DEF Saved, Painting
<1>5. page.call.kind = "lists" \/ page.screen.page = "admin" =>
          /\ page.call = [kind |-> "lists", parts |-> {"contests", "users"}, seen |-> None]
          /\ s \in page.screen.wait
  BY <1>2 DEF Painting
<1>6. ASSUME NEW r \in Calls, Expected(r)', lapses = {} PROVE call'[r].seen \in {None, made'}
  <2>1. CASE r = s
    BY <1>3, <1>5, <1>6, <2>1 DEF Expected
  <2>2. CASE r # s
    BY <1>1, <1>3, <1>6, <2>2 DEF Expected, ListInv
  <2>3. QED
    BY <2>1, <2>2
<1>7. ASSUME app'.page = "admin" PROVE s \in app'.wait /\ Expected(s)'
  BY <1>2, <1>3, <1>5, <1>7 DEF Expected
<1>8. QED
  BY <1>4, <1>6, <1>7 DEF ListInv

LEMMA ListHurried ==
    ASSUME NEW s, Clicking(s), {"page", "list"} \cap hurry' = {}
    PROVE  /\ "page" \notin hurry' /\ {"page", "list"} \cap hurry = {}
           /\ \A r \in Calls : call[r].kind \notin Painters \cup {"lists"}
BY HurriedBy DEF Clicking

LEMMA ListActing ==
    ASSUME BType, ListInv, Acting, UNCHANGED <<made, kept, listed, lapses>>
    PROVE  ListInv'
<1>1. ASSUME NEW l \in Location, Load(l) PROVE ListInv'
  <2>1. app'.page # "admin" /\ hurry' = {}
    BY <1>1, Loading, BrowserAssumption DEF Pages
  <2>2. \A r \in Calls : call'[r].kind \in {"boot", "idle"}
    BY <1>1, Loading, IdleOk
  <2>3. QED
    BY <2>1, <2>2 DEF ListInv, Saved, Expected
<1>2. ASSUME NEW s \in Calls, Clicking(s), Going(s) PROVE ListInv'
  <2>1. PICK l \in Location, t \in Persons, u \in Persons : renderCurrentRoute(l, s, t, u)
    BY <1>2 DEF Going
  <2>2. {"page", "list"} \cap hurry' = {} =>
            /\ {"page", "list"} \cap hurry = {}
            /\ \A r \in Calls : call[r].kind # "dialog"
    BY <1>2, ListHurried DEF Painters
  <2>3. QED
    BY <2>1, <2>2, ListRendered
<1>3. ASSUME NEW s \in Calls, Clicking(s), Pressing(s) PROVE ListInv'
  <2>1. PICK q : /\ call' = [call EXCEPT ![s] = q] /\ app' = app
                 /\ q.kind \notin {"lists", "dialog"} /\ call[s].kind = "idle"
    BY <1>3, IdleOk DEF Pressing, Clicking
  <2>2. QED
    BY <1>3, <2>1, ListKept, ListHurried
<1>4. ASSUME NEW o \in Options, selectOption(o) PROVE ListInv'
  <2>1. /\ UNCHANGED <<call>> /\ app'.page = app.page /\ app'.wait = app.wait
        /\ hurry \subseteq hurry'
    BY <1>4, Selecting
  <2>2. QED
    BY <2>1 DEF ListInv, Saved, Expected
<1>5. QED
  BY <1>1, <1>2, <1>3, <1>4, ActingIs

LEMMA ListPainted ==
    ASSUME BType, PageInv, ListInv, NEW s \in Calls, Rerendering(s) \/ Repainting(s),
           UNCHANGED <<made, kept, listed, lapses>>
    PROVE  ListInv'
<1>1. CASE Rerendering(s)
  <2>1. PICK l \in Location, t \in Persons, u \in Persons :
            renderCurrentRoute(l, s, t, u) /\ hurry' = hurry
    BY <1>1 DEF Rerendering
  <2>2. call[s].kind \in Painters
    BY <1>1 DEF Rerendering, Painters
  <2>3. "page" \notin hurry => \A r \in Calls : r # s => call[r].kind # "dialog"
    BY <2>2 DEF PageInv, Painters
  <2>4. QED
    BY <2>1, <2>3, ListRendered
<1>2. CASE Repainting(s)
  <2>1. PICK a : /\ Paints(s, a) /\ hurry' = hurry /\ call[s].kind # "lists"
                 /\ a.page # "admin" \/ a = [app EXCEPT !.wait = @ \ {s}]
    BY <1>2 DEF Repainting, Stays
  <2>2. /\ call' = [call EXCEPT ![s] = Idle] /\ app' = a
        /\ Idle.kind \notin {"lists", "dialog"}
    BY <2>1, IdleOk DEF Paints
  <2>3. app'.page = "admin" => app.page = "admin" /\ app.wait \ {s} \subseteq app'.wait
    BY <2>1, <2>2 DEF BType, ScreenOk, ScreenType
  <2>4. QED
    BY <2>1, <2>2, <2>3, ListKept
<1>3. QED
  BY <1>1, <1>2

LEMMA ListAnswers ==
    ASSUME BType, PageInv, ListInv, NEW s \in Calls, Answers(s), UNCHANGED <<made, kept, listed, lapses>>
    PROVE  ListInv'
<1>1. CASE GoingOn(s) \/ Ending(s)
  <2>1. PICK q : /\ call' = [call EXCEPT ![s] = q] /\ UNCHANGED <<app, hurry>>
                 /\ q.kind \notin {"lists", "dialog"} /\ call[s].kind # "lists"
    BY <1>1, IdleOk DEF GoingOn, Ending, Ends, Stays
  <2>2. QED
    BY <2>1, ListKept
<1>2. QED
  BY <1>1, AnswersAre, ListPainted

LEMMA ListAdministers ==
    ASSUME BType, ListInv, Administers, UNCHANGED <<made, kept, listed, lapses>>
    PROVE  ListInv'
<1>1. PICK s \in Calls : Clicking(s) /\ (Commanding(s) \/ Toggling)
  BY AdministersIs
<1>2. SUFFICES ASSUME {"page", "list"} \cap hurry' = {} PROVE ListInv'
  BY DEF ListInv
<1>3. /\ {"page", "list"} \cap hurry = {} /\ call[s].kind = "idle"
      /\ \A r \in Calls : call[r].kind # "lists"
  BY <1>1, <1>2, ListHurried, IdleOk DEF Clicking
<1>4. CASE Commanding(s)
  <2>1. PICK q : /\ call' = [call EXCEPT ![s] = q] /\ app' = app
                 /\ q.kind \in {"role", "remove", "deleteContest", "dialog"}
    BY <1>4 DEF Commanding
  <2>2. \A r \in Calls : call'[r].kind # "lists"
    BY <1>3, <2>1 DEF BType, CallsOk
  <2>3. lapses = {} /\ app.page = "admin" => listed \in {made, None}
    BY <1>3 DEF ListInv, Expected, BType, ScreenOk, ScreenType
  <2>4. QED
    BY <2>1, <2>2, <2>3 DEF ListInv, Expected
<1>5. CASE Toggling
  BY <1>3, <1>5 DEF Toggling, ListInv, Expected, Saved
<1>6. QED
  BY <1>1, <1>4, <1>5

\* A read, or one of the two answers, of a list.
LEMMA ListListed ==
    ASSUME CType, ListInv, NEW s \in Calls, ListsRead(s) \/ ListsAnswer(s)
    PROVE  ListInv'
<1>1. BType /\ app \in ScreenType /\ call[s].kind = "lists" /\ Idle.kind = "idle"
      /\ UNCHANGED <<made, hurry, lapses>> /\ kept' \in {kept, Served}
  BY IdleOk DEF CType, BType, ScreenOk, ListsRead, ListsAnswer, Answered
<1>2. call[s] \in [kind : {"lists"}, parts : SUBSET {"contests", "users"}, seen : Nat \cup {None}]
  BY <1>1 DEF BType, CallsOk, CallOk
<1>3. lapses = {} => Served = made /\ kept' \in {made, None}
  BY <1>1 DEF ListInv, Served
<1>4. SUFFICES ASSUME {"page", "list"} \cap hurry = {} PROVE ListInv'
  BY <1>1, <1>3 DEF ListInv
<1>5. ASSUME NEW q, call' = [call EXCEPT ![s] = q], q.kind \in {"idle", "lists"},
             q.kind = "lists" => q.parts \subseteq call[s].parts
                                /\ (lapses = {} => q.seen \in {call[s].seen, made}),
             app'.page = app.page,
             \/ /\ listed' = listed /\ app.wait \ {s} \subseteq app'.wait
                /\ "contests" \in call[s].parts /\ s \in app.wait =>
                      s \in app'.wait /\ q.kind = "lists" /\ "contests" \in q.parts
             \/ lapses = {} => listed' \in {made, None}
      PROVE  ListInv'
  <2>1. \A r \in Calls : call'[r] = IF r = s THEN q ELSE call[r]
    BY <1>1, <1>5 DEF BType, CallsOk
  <2>2. \A r \in Calls : Expected(r)' => Expected(r)
    BY <1>1, <1>5, <2>1 DEF Expected
  <2>3. \A r \in Calls : Saved(r, {"createContest"})' => Saved(r, {"createContest"})
    BY <1>5, <2>1 DEF Saved
  <2>4. ASSUME NEW r \in Calls, Expected(r)', lapses = {} PROVE call'[r].seen \in {None, made'}
    <3>1. call[r].seen \in {None, made}
      BY <1>4, <2>2, <2>4 DEF ListInv
    <3>2. QED
      BY <1>1, <1>5, <2>1, <2>4, <3>1 DEF Expected
  <2>5. ASSUME lapses = {}, app'.page = "admin", listed' \notin {made', None}
        PROVE  \E r \in app'.wait : Expected(r)'
    <3>1. PICK r \in app.wait : Expected(r)
      BY <1>1, <1>4, <1>5, <2>5 DEF ListInv
    <3>2. r \in Calls /\ r \in app'.wait
      BY <1>1, <1>5, <2>5, <3>1 DEF Expected, ScreenType
    <3>3. Expected(r)'
      BY <1>1, <1>5, <2>1, <2>5, <3>1, <3>2 DEF Expected
    <3>4. QED
      BY <3>2, <3>3
  <2>6. QED
    BY <1>1, <1>3, <1>4, <2>2, <2>3, <2>4, <2>5 DEF ListInv
<1>6. CASE ListsRead(s)
  <2> DEFINE q == [call[s] EXCEPT !.seen = Served]
  <2>1. q.kind = "lists" /\ q.parts = call[s].parts /\ q.seen = Served
    BY <1>2
  <2>2. call' = [call EXCEPT ![s] = q] /\ app' = app /\ listed' = listed
    BY <1>6 DEF ListsRead
  <2> HIDE DEF q
  <2>3. QED
    BY <1>3, <1>5, <2>1, <2>2
<1>7. CASE ListsAnswer(s)
  <2>1. PICK p \in call[s].parts :
            /\ p = "contests" => call[s].seen # None
            /\ call' = [call EXCEPT ![s] =
                   IF call[s].parts \ {p} = {} THEN Idle
                   ELSE [@ EXCEPT !.parts = call[s].parts \ {p}]]
            /\ app' = IF call[s].parts \ {p} = {} THEN [app EXCEPT !.wait = @ \ {s}] ELSE app
            /\ listed' \in IF p = "contests" /\ s \in app.wait THEN {call[s].seen, None} ELSE {listed}
    BY <1>7 DEF ListsAnswer
  <2> DEFINE rest == call[s].parts \ {p}
             r == [call[s] EXCEPT !.parts = rest]
             q == IF rest = {} THEN Idle ELSE r
  <2>2. r.kind = "lists" /\ r.parts = rest /\ r.seen = call[s].seen
    BY <1>2
  <2>3. call' = [call EXCEPT ![s] = q]
    BY <2>1
  <2> HIDE DEF r
  <2>4. /\ q.kind \in {"idle", "lists"}
        /\ q.kind = "lists" => q.parts = rest /\ q.seen = call[s].seen
        /\ rest # {} => q.kind = "lists"
    BY <1>1, <2>2
  <2> HIDE DEF q
  <2>5. /\ app'.page = app.page /\ app.wait \ {s} \subseteq app'.wait
        /\ rest # {} => app'.wait = app.wait
    BY <1>1, <2>1 DEF ScreenType
  <2>6. CASE p = "contests"
    <3>1. lapses = {} => call[s].seen = made
      BY <1>1, <1>4, <2>1, <2>6 DEF ListInv, Expected
    <3>2. (lapses = {} => listed' \in {made, None}) \/ (listed' = listed /\ s \notin app.wait)
      BY <2>1, <2>6, <3>1
    <3>3. QED
      BY <1>5, <2>3, <2>4, <2>5, <3>1, <3>2
  <2>7. CASE p # "contests"
    <3>1. listed' = listed /\ ("contests" \in call[s].parts => "contests" \in rest)
      BY <2>1, <2>7
    <3>2. QED
      BY <1>5, <2>3, <2>4, <2>5, <3>1
  <2>8. QED
    BY <2>6, <2>7
<1>8. QED
  BY <1>6, <1>7

\* The list is loaded again after a creation, or the users are.
LEMMA ListReloaded ==
    ASSUME CType, PageInv, ListInv, NEW s \in Calls, NEW part \in {"contests", "users"},
           Reloading(s, part)
    PROVE  ListInv'
<1> DEFINE q == [kind |-> "lists", parts |-> {part}, seen |-> None]
<1>1. BType /\ app \in ScreenType
  BY DEF CType, BType, ScreenOk
<1>2. q.kind = "lists" /\ q.parts = {part} /\ q.seen = None
  OBVIOUS
<1>3. /\ call' = [call EXCEPT ![s] = q] /\ UNCHANGED <<hurry, listed>>
      /\ app' = IF app.page = "admin" THEN [app EXCEPT !.wait = app.wait \cup {s}] ELSE app
      /\ \/ call[s].kind = "role" /\ part = "users" /\ UNCHANGED <<made, kept, lapses>>
         \/ call[s].kind = "dialog" /\ Saved(s, {"createContest"}) /\ part = "contests"
      /\ lapses' = {} => kept' \in {made', None}
  BY DEF Reloading, Reload, Saved, CreateFailed, Created, ListInv
<1> HIDE DEF q
<1>4. \A r \in Calls : call'[r] = IF r = s THEN q ELSE call[r]
  BY <1>1, <1>3 DEF BType, CallsOk
<1>5. SUFFICES ASSUME {"page", "list"} \cap hurry = {} PROVE ListInv'
  BY <1>3 DEF ListInv
<1>6. app'.page = "admin" => app.page = "admin" /\ app'.wait = app.wait \cup {s}
  BY <1>1, <1>3 DEF ScreenType
<1>7. CASE call[s].kind = "role" /\ part = "users" /\ UNCHANGED <<made, kept, lapses>>
  <2>1. \A r \in Calls : Expected(r)' <=> (r # s /\ Expected(r))
    BY <1>2, <1>4, <1>7 DEF Expected
  <2>2. \A r \in Calls : Saved(r, {"createContest"})' => Saved(r, {"createContest"})
    BY <1>2, <1>4 DEF Saved
  <2>3. lapses = {} => \A r \in Calls : Expected(r)' => call'[r].seen \in {None, made'}
    BY <1>4, <1>5, <1>7, <2>1 DEF ListInv
  <2>4. ASSUME lapses = {}, app'.page = "admin", listed' \notin {made', None}
        PROVE  \E r \in app'.wait : Expected(r)'
    <3>1. PICK r \in app.wait : Expected(r)
      BY <1>3, <1>5, <1>6, <1>7, <2>4 DEF ListInv
    <3>2. r \in Calls /\ r # s
      BY <1>1, <1>7, <3>1 DEF ScreenType, Expected
    <3>3. QED
      BY <1>6, <2>1, <2>4, <3>1, <3>2
  <2>5. QED
    BY <1>3, <1>5, <1>7, <2>1, <2>2, <2>3, <2>4 DEF ListInv
<1>8. CASE call[s].kind = "dialog" /\ Saved(s, {"createContest"}) /\ part = "contests"
  <2>1. \A r \in Calls : r # s => call[r].kind # "dialog"
    BY <1>5, <1>8 DEF PageInv, Painters
  <2>2. \A r \in Calls : ~Saved(r, {"createContest"})'
    BY <1>2, <1>4, <2>1 DEF Saved
  <2>3. \A r \in Calls : Expected(r)' => r = s
    BY <1>4, <1>5, <1>8 DEF ListInv, Expected
  <2>4. Expected(s)' /\ call'[s].seen = None
    BY <1>2, <1>4, <1>8 DEF Expected
  <2>5. QED
    BY <1>3, <1>6, <2>2, <2>3, <2>4 DEF ListInv
<1>9. QED
  BY <1>3, <1>7, <1>8

LEMMA ListConsole ==
    ASSUME CType, PageInv, ListInv, NEW s \in Calls, ConsoleAnswers(s)
    PROVE  ListInv'
<1>1. BType /\ Idle.kind = "idle"
  BY IdleOk DEF CType
<1>2. ASSUME Rendering(s) \/ Closing(s) PROVE ListInv'
  <2>1. PICK q : /\ call' = [call EXCEPT ![s] = q]
                 /\ app' = app \/ app'.page = "adminContest"
                 /\ q.kind \notin {"lists", "dialog"} /\ call[s].kind # "lists"
                 /\ UNCHANGED <<made, kept, listed, lapses, hurry>>
    BY <1>1, <1>2 DEF Rendering, Closing, Ends, Saved
  <2>2. app'.page = "admin" => app.page = "admin" /\ app.wait \ {s} \subseteq app'.wait
    BY <2>1
  <2>3. QED
    BY <1>1, <2>1, <2>2, ListKept
<1>3. Listing(s) => ListsRead(s) \/ ListsAnswer(s)
  BY DEF Listing, ConsoleAnswers, RoleAnswer, EditorAnswer, AdderAnswer, CreateAnswer,
         AdminContestAnswer, DeletePartAnswer, DeleteContestAnswer, Answered, Saved
<1>4. QED
  BY <1>1, <1>2, <1>3, ConsoleAnswersAre, ListListed, ListReloaded, ListPainted

-----------------------------------------------------------------------------
(* The session, quizzes and submits in the company of the console.         *)

LEMMA SessionConsole ==
    ASSUME CType, SessionInv, NEW s \in Calls, ConsoleAnswers(s)
    PROVE  SessionInv'
<1>1. BType /\ call[s].kind # "idle" /\ Idle.kind = "idle"
  BY ConsoleAnswersAre, IdleOk DEF CType
<1>2. CASE Listing(s)
  BY <1>1, <1>2, SessionKept DEF Listing
<1>3. CASE Rendering(s)
  BY <1>1, <1>3, SessionKept DEF Rendering, Saved
<1>4. CASE Closing(s)
  BY <1>1, <1>4, SessionKept DEF Closing, Ends
<1>5. ASSUME NEW part \in {"contests", "users"}, Reloading(s, part) PROVE SessionInv'
  <2>1. PICK q : /\ call' = [call EXCEPT ![s] = q] /\ q.kind = "lists"
                 /\ UNCHANGED <<token, me, hurry>> /\ call[s].kind \in {"role", "dialog"}
    BY <1>5 DEF Reloading, Reload, Saved
  <2>2. QED
    BY <1>1, <2>1, SessionKept
<1>6. QED
  BY <1>1, <1>2, <1>3, <1>4, <1>5, ConsoleAnswersAre, SessionRerendered, SessionRepainted

LEMMA QuizConsole ==
    ASSUME CType, QuizInv, NEW s \in Calls, ConsoleAnswers(s)
    PROVE  QuizInv'
<1>1. BType /\ Idle.kind = "idle"
  BY IdleOk DEF CType
<1>2. ASSUME NEW q, call' = [call EXCEPT ![s] = q], q.kind # "quiz",
             UNCHANGED <<loc, quiz, hurry>>,
             app'.view = "play" => app'.view = app.view /\ app'.id = app.id /\ app'.marked = app.marked
      PROVE  QuizInv'
  <2>1. "quiz" \notin hurry /\ app'.view = "play" => Shown'
    BY <1>2 DEF QuizInv, Shown
  <2>2. QED
    BY <1>1, <1>2, <2>1, QuizKept
<1>3. ASSUME NEW x \in SUBSET Calls
      PROVE  /\ [app EXCEPT !.wait = x].view = app.view /\ [app EXCEPT !.wait = x].id = app.id
             /\ [app EXCEPT !.wait = x].marked = app.marked
  BY <1>1 DEF BType, ScreenOk, ScreenType
<1>4. app.wait \in SUBSET Calls
  BY <1>1 DEF BType, ScreenOk, ScreenType
<1>5. CASE Listing(s)
  <2>1. PICK q : /\ call' = [call EXCEPT ![s] = q] /\ q.kind \in {"idle", "lists"}
                 /\ app' = app \/ app' = [app EXCEPT !.wait = app.wait \ {s}]
                 /\ UNCHANGED <<loc, quiz, hurry>>
    BY <1>5 DEF Listing
  <2>2. app.wait \ {s} \in SUBSET Calls
    BY <1>4
  <2>3. QED
    BY <1>2, <1>3, <2>1, <2>2
<1>6. CASE Rendering(s)
  <2>1. PICK q, a : /\ call' = [call EXCEPT ![s] = q] /\ app' = a
                    /\ UNCHANGED <<loc, quiz, hurry>>
                    /\ \/ q.kind = "adminContest" /\ a = app
                       \/ q = Idle /\ a.view = "error"
    BY <1>6 DEF Rendering
  <2>2. QED
    BY <1>1, <1>2, <2>1
<1>7. CASE Closing(s)
  BY <1>1, <1>2, <1>7 DEF Closing, Ends
<1>8. ASSUME NEW part \in {"contests", "users"}, Reloading(s, part) PROVE QuizInv'
  <2>1. PICK q : /\ call' = [call EXCEPT ![s] = q] /\ q.kind = "lists"
                 /\ app' = app \/ app' = [app EXCEPT !.wait = app.wait \cup {s}]
                 /\ UNCHANGED <<loc, quiz, hurry>>
    BY <1>8 DEF Reloading, Reload
  <2>2. app.wait \cup {s} \in SUBSET Calls
    BY <1>4
  <2>3. QED
    BY <1>2, <1>3, <2>1, <2>2
<1>9. QED
  BY <1>1, <1>5, <1>6, <1>7, <1>8, ConsoleAnswersAre, QuizRedrawn, QuizRepainted

LEMMA SubmitConsole ==
    ASSUME CType, SubmitInv, NEW s \in Calls, ConsoleAnswers(s)
    PROVE  SubmitInv'
<1>1. BType /\ Idle.kind = "idle"
  BY IdleOk DEF CType
<1>2. CASE Listing(s)
  BY <1>1, <1>2, SubmitKept DEF Listing
<1>3. CASE Rendering(s)
  BY <1>1, <1>3, SubmitKept DEF Rendering
<1>4. CASE Closing(s)
  BY <1>1, <1>4, SubmitKept DEF Closing, Ends
<1>5. ASSUME NEW part \in {"contests", "users"}, Reloading(s, part) PROVE SubmitInv'
  <2>1. PICK q : /\ call' = [call EXCEPT ![s] = q] /\ q.kind = "lists"
                 /\ UNCHANGED <<token, quiz, hurry>>
    BY <1>5 DEF Reloading, Reload
  <2>2. QED
    BY <1>1, <2>1, SubmitKept
<1>6. QED
  BY <1>1, <1>2, <1>3, <1>4, <1>5, ConsoleAnswersAre, SubmitRerendered, SubmitRepainted

\* The buttons of the console touch neither the session nor a quiz.
LEMMA TabAdministers ==
    ASSUME BType, SessionInv, QuizInv, SubmitInv, Administers
    PROVE  SessionInv' /\ QuizInv' /\ SubmitInv'
<1>1. PICK s \in Calls : Clicking(s) /\ (Commanding(s) \/ Toggling)
  BY AdministersIs
<1>2. /\ call[s].kind = "idle" /\ UNCHANGED <<loc, app, token, me, quiz>>
      /\ hurry \cup Hurries \subseteq hurry'
  BY <1>1, IdleOk DEF Clicking, Commanding, Toggling
<1>3. PICK q : /\ call' = [call EXCEPT ![s] = q]
               /\ q.kind \in {"idle", "role", "remove", "deleteContest", "dialog"}
  <2>1. CASE Commanding(s)
    BY <2>1 DEF Commanding
  <2>2. CASE Toggling
    <3>1. call' = [call EXCEPT ![s] = call[s]]
      BY <2>2 DEF Toggling, BType, CallsOk
    <3>2. QED
      BY <1>2, <3>1
  <2>3. QED
    BY <1>1, <2>1, <2>2
<1>4. SessionInv'
  BY <1>2, <1>3, HurriedBy DEF SessionInv, InFlight, BType, CallsOk
<1>5. QuizInv'
  <2>1. "quiz" \notin hurry /\ app'.view = "play" => Shown'
    BY <1>2 DEF QuizInv, Shown
  <2>2. QED
    BY <1>2, <1>3, <2>1, HurriedBy, QuizKept
<1>6. SubmitInv'
  BY <1>2, <1>3, HurriedBy DEF SubmitInv, BType, CallsOk
<1>7. QED
  BY <1>4, <1>5, <1>6

-----------------------------------------------------------------------------
(* Theorems about the console.                                             *)

ConsoleInv ==
    CType /\ SessionInv /\ QuizInv /\ SubmitInv /\ PageInv /\ DialogInv /\ ListInv

LEMMA ConsoleInit == AInit => ConsoleInv
<1> SUFFICES ASSUME AInit PROVE ConsoleInv
  OBVIOUS
<1>1. BType /\ SessionInv /\ QuizInv /\ SubmitInv /\ PageInv
  BY TabInit DEF AInit, TabInv
<1>2. CType
  BY <1>1 DEF AInit, CType
<1>3. app.page # "admin" /\ dialog = None /\ \A s \in Calls : call[s].kind = "idle"
  BY ScreenTyped, IdleOk, BrowserAssumption DEF AInit, Init, Closed, Ids, Pages
<1>4. DialogInv /\ ListInv
  BY <1>3 DEF AInit, DialogInv, ListInv, Saved, Expected
<1>5. QED
  BY <1>1, <1>2, <1>4 DEF ConsoleInv

LEMMA ConsoleStep == ConsoleInv /\ [ANext]_avars => ConsoleInv'
<1> SUFFICES ASSUME ConsoleInv, [ANext]_avars PROVE ConsoleInv'
  OBVIOUS
<1>1. /\ BType /\ CType /\ SessionInv /\ QuizInv /\ SubmitInv
      /\ PageInv /\ DialogInv /\ ListInv
  BY DEF ConsoleInv, CType
<1>2. CASE Acting /\ Unrelated
  <2>1. BType' /\ UNCHANGED <<made, kept, listed, lapses>>
    BY <1>1, <1>2, ActingTyped DEF Unrelated
  <2>2. PageInv' /\ DialogInv' /\ ListInv'
    BY <1>1, <1>2, <2>1, PageActing, DialogActing, ListActing
  <2>3. SessionInv' /\ QuizInv' /\ SubmitInv'
    BY <1>1, <1>2, SessionStep, QuizStep, SubmitStep DEF Next
  <2>4. QED
    BY <1>1, <2>1, <2>2, <2>3 DEF ConsoleInv, CType
<1>3. CASE Administers /\ Unrelated
  <2>1. BType' /\ UNCHANGED <<made, kept, listed, lapses>>
    BY <1>1, <1>3, AdministersTyped DEF Unrelated
  <2>2. PageInv' /\ DialogInv' /\ ListInv'
    BY <1>1, <1>3, <2>1, PageAdministers, DialogAdministers, ListAdministers
  <2>3. SessionInv' /\ QuizInv' /\ SubmitInv'
    BY <1>1, <1>3, TabAdministers
  <2>4. QED
    BY <1>1, <2>1, <2>2, <2>3 DEF ConsoleInv, CType
<1>4. ASSUME NEW s \in Calls, Answers(s), Unrelated PROVE ConsoleInv'
  <2>1. BType' /\ UNCHANGED <<made, kept, listed, lapses>>
    BY <1>1, <1>4, AnswersTyped DEF Unrelated
  <2>2. PageInv' /\ DialogInv' /\ ListInv'
    BY <1>1, <1>4, <2>1, PageAnswers, DialogAnswers, ListAnswers
  <2>3. SessionInv' /\ QuizInv' /\ SubmitInv'
    BY <1>1, <1>4, SessionStep, QuizStep, SubmitStep DEF Next
  <2>4. QED
    BY <1>1, <2>1, <2>2, <2>3 DEF ConsoleInv, CType
<1>5. ASSUME NEW s \in Calls, ConsoleAnswers(s) PROVE ConsoleInv'
  <2>1. CType' /\ PageInv' /\ DialogInv' /\ ListInv'
    BY <1>1, <1>5, ConsoleTyped, PageConsole, DialogConsole, ListConsole
  <2>2. SessionInv' /\ QuizInv' /\ SubmitInv'
    BY <1>1, <1>5, SessionConsole, QuizConsole, SubmitConsole
  <2>3. QED
    BY <2>1, <2>2 DEF ConsoleInv
<1>6. CASE UNCHANGED avars
  <2>1. UNCHANGED vars /\ UNCHANGED <<made, kept, listed, lapses>>
    BY <1>6 DEF avars
  <2>2. BType'
    BY <1>1, <2>1, BTypeStep
  <2>3. PageInv' /\ DialogInv' /\ ListInv'
    BY <1>1, <2>1
    DEF vars, PageInv, Matches, Due, canAccess, InFlight, DialogInv, ListInv, Expected, Saved
  <2>4. SessionInv' /\ QuizInv' /\ SubmitInv'
    BY <1>1, <2>1, SessionStep, QuizStep, SubmitStep
  <2>5. QED
    BY <1>1, <2>1, <2>2, <2>3, <2>4 DEF ConsoleInv, CType
<1>7. CASE CacheMoves
  <2>1. UNCHANGED vars /\ UNCHANGED <<made, listed>>
    BY <1>7 DEF CacheMoves
  <2>2. /\ kept' \in 0..made \cup {None}
        /\ lapses' = {} => lapses = {} /\ kept' \in {made, None}
    BY <1>7 DEF CacheMoves
  <2>3. CType'
    BY <1>1, <2>1, <2>2, BTypeStep DEF CType
  <2>4. PageInv' /\ DialogInv'
    BY <1>1, <2>1 DEF vars, PageInv, Matches, Due, canAccess, InFlight, DialogInv
  <2>5. ListInv'
    BY <1>1, <2>1, <2>2 DEF vars, ListInv, Expected, Saved
  <2>6. SessionInv' /\ QuizInv' /\ SubmitInv'
    BY <1>1, <2>1, SessionStep, QuizStep, SubmitStep
  <2>7. QED
    BY <2>3, <2>4, <2>5, <2>6 DEF ConsoleInv
<1>8. QED
  BY <1>2, <1>3, <1>4, <1>5, <1>6, <1>7 DEF ANext, AAnswers, ConsoleAnswers

LEMMA ConsoleAlways == ASpec => []ConsoleInv
BY ConsoleInit, ConsoleStep, PTL DEF ASpec

\* The page on the screen is the page of the URL also in the console, whose
\* handlers render the page of a contest without a look at the location.
THEOREM ConsoleIsOfTheUrl == ASpec => []ScreenMatchesUrl
<1>1. ConsoleInv => ScreenMatchesUrl
  BY DEF ConsoleInv, PageInv, Matches, ScreenMatchesUrl, InFlight
<1>2. QED
  BY <1>1, ConsoleAlways, PTL

\* A dialog edits the contest on the screen.
THEOREM DialogStaysOverItsPage == ASpec => []DialogOverItsPage
<1>1. ConsoleInv => DialogOverItsPage
  BY DEF ConsoleInv, DialogInv, DialogOverItsPage
<1>2. QED
  BY <1>1, ConsoleAlways, PTL

\* When no list is on its way, and the cached list did not fall behind by a failed
\* clearing or a late store, the admin panel shows the contests there are.
THEOREM ListStaysCurrent == ASpec => []ListIsCurrent
<1>1. ConsoleInv => ListIsCurrent
  BY DEF ConsoleInv, ListInv, ListIsCurrent
<1>2. QED
  BY <1>1, ConsoleAlways, PTL

\* What holds for a participant holds for an administrator, who may also play,
\* and for whoever signs in at the same tab: one session, the quiz of quizState
\* on the screen, and submits by their own buttons.
THEOREM ConsoleKeepsTheTab == ASpec => [](OneSession /\ QuizOnScreen) /\ SubmitsWhatWasPressed
<1>1. ConsoleInv => OneSession /\ QuizOnScreen
  BY DEF ConsoleInv, SessionInv, OneSession, QuizInv, Shown, QuizOnScreen
<1>2. ASSUME ConsoleInv, [ANext]_avars, ~ UNCHANGED vars, NEW u \in Users, NEW c \in Contests
      PROVE  PressedIt(u, c)
  <2>1. CASE entry' = entry
    BY <2>1 DEF PressedIt
  <2>2. CASE Acting \/ \E s \in Calls : Answers(s)
    BY <1>2, <2>2, PressedStep DEF ConsoleInv, CType, Next
  <2>3. Administers => entry' = entry
    BY DEF Administers, updateUserRole, showModal, Opens, openEditContestModal, openEditQuestionModal,
           openEditOptionModal, openAddOptionModal, closeModal, SaveDialog, deletePart, deleteContest
  <2>4. ASSUME NEW s \in Calls, ConsoleAnswers(s) PROVE entry' = entry
    BY <2>4
    DEF ConsoleAnswers, ListsRead, ListsAnswer, RoleAnswer, EditorAnswer, AdderAnswer, CreateAnswer,
        AdminContestAnswer, DeletePartAnswer, DeleteContestAnswer
  <2>5. ~ CacheMoves
    BY <1>2 DEF CacheMoves
  <2>6. QED
    BY <1>2, <2>1, <2>2, <2>3, <2>4, <2>5 DEF ANext, AAnswers, ConsoleAnswers, avars, vars
<1>3. ConsoleInv /\ [ANext]_avars => [\A u \in Users, c \in Contests : PressedIt(u, c)]_vars
  BY <1>2
<1>4. [][\A u \in Users, c \in Contests : PressedIt(u, c)]_vars => SubmitsWhatWasPressed
  BY DEF PressedIt, SubmitsWhatWasPressed
<1>5. QED
  BY <1>1, <1>3, <1>4, ConsoleAlways, PTL DEF ASpec
=============================================================================
