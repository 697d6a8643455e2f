---------------------------- MODULE Participation ----------------------------
(***************************************************************************)
(* The participation service for one contest: users join, save draft       *)
(* answers and submit, while administrators edit the contest and its quiz. *)
(*                                                                         *)
(* A request is a chain of database and cache calls; another request, in   *)
(* this server process or in another one, can run wherever the code awaits *)
(* such a call.  req[r].pc names the call a request is suspended at, so    *)
(* each action below is the code between two awaits together with the      *)
(* effect of the call that ends it.  A transaction is visible to others    *)
(* only at its commit and is one step; the submit transaction reads its    *)
(* snapshot (REPEATABLE READ) in a step of its own.                        *)
(***************************************************************************)
EXTENDS Scoring, ContestRules

CONSTANTS
    Users,      \* accounts; a request carries the role of its token
    Role,       \* role of each user
    Requests,   \* slots for requests that are being served
    Bodies,     \* answer lists that clients post
    Quizzes,    \* quizzes the administrators may leave behind
    Contests,   \* contest rows the administrators may leave behind
    Hasty,      \* users who may have several requests in flight
    MaxTime     \* bound on the clock

Times == 0..MaxTime

IsBody(b) ==
    /\ DOMAIN b \in SUBSET Questions \ {{}}
    /\ \A q \in DOMAIN b : b[q] \in SUBSET Picks \ {{}}

ASSUME ConstantsAssumption ==
    /\ Role \in [Users -> {"NORMAL", "VIP", "ADMIN"}]
    /\ \A b \in Bodies : IsBody(b)
    /\ Quizzes \subseteq Quiz
    /\ Contests \subseteq Contest(Nat)
    /\ Hasty \subseteq Users
    /\ MaxTime \in Nat

VARIABLES
    now,      \* the clock of the servers
    contest,  \* the row of table contests, None once deleted
    served,   \* the contest rows getById may return: all that ever existed,
              \* since a cache entry can outlive the row it was read from
    quiz,     \* tables questions and options
    rows,     \* table participations, unique on (contest_id, user_id)
    answers,  \* tables participant_answers and participant_answer_options
    req       \* the requests being served

vars == <<now, contest, served, quiz, rows, answers, req>>

Scores == {scoreSubmission(z, a) : z \in Quizzes \cup {NoQuiz}, a \in Answers}

Row == [status : {"IN_PROGRESS", "SUBMITTED"}, score : Scores \cup {None},
        startedAt : Times, submittedAt : Times \cup {None}]

\* Mutant: the participation is created without its start.
NewRowUndated(t) == [status |-> "IN_PROGRESS", score |-> None,
                     startedAt |-> None, submittedAt |-> None]

NewRow(t) == [status |-> "IN_PROGRESS", score |-> None,
              startedAt |-> t, submittedAt |-> None]

\* What a request remembers between two awaits: the posted answers, the quiz
\* it read, the row it inserts or found in its snapshot, and the values of
\* its UPDATE.
Idle == [pc |-> "idle", user |-> None, body |-> None, quiz |-> None,
         row |-> None, score |-> None, at |-> None]

Request == [pc : {"idle", "lookup", "insert", "validate", "replace",
                  "questions", "snapshot", "update", "bust"},
            user : Users \cup {None}, body : Bodies \cup {None},
            quiz : Quizzes \cup {NoQuiz, None}, row : Row \cup {None},
            score : Scores \cup {None}, at : Times \cup {None}]

ASSUME NoneAssumption ==
    /\ None \notin Row \cup Users \cup Bodies \cup Quizzes \cup Contests
    /\ None \notin Scores \cup Times
    /\ None # NoQuiz

TypeOK ==
    /\ now \in Times
    /\ contest \in Contests \cup {None}
    /\ served \in SUBSET Contests
    /\ quiz \in Quizzes \cup {NoQuiz}
    /\ rows \in [Users -> Row \cup {None}]
    /\ answers \in [Users -> Answers]
    /\ req \in [Requests -> Request]

Init ==
    /\ now = 0
    /\ contest \in Contests
    /\ served = {contest}
    /\ quiz \in Quizzes
    /\ rows = [u \in Users |-> None]
    /\ answers = [u \in Users |-> NoAnswers]
    /\ req = [r \in Requests |-> Idle]

-----------------------------------------------------------------------------
\* Mutant: requireInProgress forgets the status.
InProgressOrSubmitted(u) == rows[u] # None

InProgress(u) == rows[u] # None /\ rows[u].status = "IN_PROGRESS"

Submitted(u) == rows[u] # None /\ rows[u].status = "SUBMITTED"

InFlight(r) == req[r].pc # "idle"

\* Every response, successful or not, frees the slot.
Answer(r) == req' = [req EXCEPT ![r] = Idle]

Begin(r, u, pc, body) ==
    /\ req[r].pc = "idle"
    /\ u \in Hasty \/ \A s \in Requests : req[s].user # u
    /\ req' = [req EXCEPT ![r] = [Idle EXCEPT !.pc = pc, !.user = u, !.body = body]]

\* A request refused before it awaits anything but its first read: a rate
\* limit, CONTEST_NOT_ACTIVE, ACCESS_DENIED_LEVEL, NOT_JOINED or
\* ALREADY_SUBMITTED.
Refuse(r) ==
    /\ req[r].pc = "idle"
    /\ UNCHANGED vars

\* Mutant: the access level is not checked.
JoinAnyLevel(r, u) ==
    /\ \E c \in served : deriveContestStatus(c, now) = "ACTIVE"
    /\ Begin(r, u, "lookup", None)
    /\ UNCHANGED <<now, contest, served, quiz, rows, answers>>

Join(r, u) ==
    /\ \E c \in served : deriveContestStatus(c, now) = "ACTIVE" /\ hasAccess(c, Role[u])
    /\ Begin(r, u, "lookup", None)
    /\ UNCHANGED <<now, contest, served, quiz, rows, answers>>

\* startedAt is taken before the INSERT is sent.
JoinLookup(r) ==
    /\ req[r].pc = "lookup"
    /\ IF rows[req[r].user] = None
       THEN req' = [req EXCEPT ![r].pc = "insert", ![r].row = NewRow(now)]
       ELSE Answer(r)
    /\ UNCHANGED <<now, contest, served, quiz, rows, answers>>

\* Mutant: the row is upserted.
JoinUpsert(r) ==
    /\ req[r].pc = "insert"
    /\ rows' = IF contest # None THEN [rows EXCEPT ![req[r].user] = req[r].row] ELSE rows
    /\ Answer(r)
    /\ UNCHANGED <<now, contest, served, quiz, answers>>

\* The unique key and the foreign key on the contest decide at the INSERT.
JoinInsert(r) ==
    /\ req[r].pc = "insert"
    /\ rows' = IF rows[req[r].user] = None /\ contest # None
               THEN [rows EXCEPT ![req[r].user] = req[r].row]
               ELSE rows
    /\ Answer(r)
    /\ UNCHANGED <<now, contest, served, quiz, answers>>

\* Mutant: a save only asks for a participation.
SaveAnswersJoined(r, u, b) ==
    /\ rows[u] # None
    /\ Begin(r, u, "validate", b)
    /\ UNCHANGED <<now, contest, served, quiz, rows, answers>>

SaveAnswers(r, u, b) ==
    /\ InProgress(u)
    /\ Begin(r, u, "validate", b)
    /\ UNCHANGED <<now, contest, served, quiz, rows, answers>>

\* Every posted question and option exists in z.
References(b, z) ==
    \A q \in DOMAIN b : z[q] # None /\ \A p \in b[q] : p[1] \in z[q].options

SaveValidate(r) ==
    /\ req[r].pc = "validate"
    /\ IF References(req[r].body, quiz)
       THEN req' = [req EXCEPT ![r].pc = "replace"]
       ELSE Answer(r)
    /\ UNCHANGED <<now, contest, served, quiz, rows, answers>>

\* Mutant: the DELETE is not restricted to the posted questions.
replaceAllAnswers(a, b) ==
    [q \in Questions |-> IF q \in DOMAIN b THEN b[q] ELSE {}]

replaceAnswers(a, b) ==
    [q \in Questions |-> IF q \in DOMAIN b THEN b[q] ELSE a[q]]

\* Mutant: no foreign key to questions and options.
SaveReplaceUnchecked(r) ==
    LET u == req[r].user IN
    /\ req[r].pc = "replace"
    /\ answers' = IF rows[u] # None
                  THEN [answers EXCEPT ![u] = replaceAnswers(@, req[r].body)]
                  ELSE answers
    /\ Answer(r)
    /\ UNCHANGED <<now, contest, served, quiz, rows>>

\* The transaction neither reads the status again nor checks the quiz; its
\* foreign keys roll it back when a row it points to is gone.
SaveReplace(r) ==
    LET u == req[r].user IN
    /\ req[r].pc = "replace"
    /\ answers' = IF rows[u] # None /\ References(req[r].body, quiz)
                  THEN [answers EXCEPT ![u] = replaceAnswers(@, req[r].body)]
                  ELSE answers
    /\ Answer(r)
    /\ UNCHANGED <<now, contest, served, quiz, rows>>

Submit(r, u) ==
    /\ InProgress(u)
    /\ Begin(r, u, "questions", None)
    /\ UNCHANGED <<now, contest, served, quiz, rows, answers>>

\* Mutant: the questions come from a cache entry that may be old.
SubmitCachedQuestions(r) ==
    /\ req[r].pc = "questions"
    /\ \E z \in Quizzes : req' = [req EXCEPT ![r].pc = "snapshot", ![r].quiz = z]
    /\ UNCHANGED <<now, contest, served, quiz, rows, answers>>

\* The questions are read outside the transaction.
SubmitQuestions(r) ==
    /\ req[r].pc = "questions"
    /\ req' = [req EXCEPT ![r].pc = "snapshot", ![r].quiz = quiz]
    /\ UNCHANGED <<now, contest, served, quiz, rows, answers>>

\* The first read of the transaction fixes its snapshot; the score and
\* submittedAt are computed before the UPDATE is sent.
SubmitSnapshot(r) ==
    LET u == req[r].user IN
    /\ req[r].pc = "snapshot"
    /\ req' = [req EXCEPT ![r].pc = "update",
                          ![r].row = rows[u],
                          ![r].score = scoreSubmission(req[r].quiz, answers[u]),
                          ![r].at = now]
    /\ UNCHANGED <<now, contest, served, quiz, rows, answers>>

\* Mutant: the UPDATE leaves submittedAt out.
WrittenUndated(current, q) ==
    [current EXCEPT
        !.status = "SUBMITTED",
        !.score = IF q.row.score # q.score THEN q.score ELSE @]

\* entity.update writes the fields that differ from the snapshot to the row
\* as it is now, whatever its status; no row is touched if it was deleted.
Written(current, q) ==
    [current EXCEPT
        !.status = IF q.row.status # "SUBMITTED" THEN "SUBMITTED" ELSE @,
        !.score = IF q.row.score # q.score THEN q.score ELSE @,
        !.submittedAt = IF q.row.submittedAt # q.at THEN q.at ELSE @]

SubmitUpdate(r) ==
    LET u == req[r].user IN
    /\ req[r].pc = "update"
    /\ IF req[r].row = None
       THEN Answer(r) /\ UNCHANGED rows
       ELSE /\ rows' = IF rows[u] = None THEN rows
                       ELSE [rows EXCEPT ![u] = Written(@, req[r])]
            /\ req' = [req EXCEPT ![r] = [Idle EXCEPT !.pc = "bust", !.user = u]]
    /\ UNCHANGED <<now, contest, served, quiz, answers>>

\* The leaderboard cache is cleared after the commit, then the response sent.
SubmitBust(r) ==
    /\ req[r].pc = "bust"
    /\ Answer(r)
    /\ UNCHANGED <<now, contest, served, quiz, rows, answers>>

\* A failing call, a deadlock victim, a duplicate question in the posted list
\* or a crash of the process: the open transaction is rolled back.
Abort(r) ==
    /\ InFlight(r)
    /\ Answer(r)
    /\ UNCHANGED <<now, contest, served, quiz, rows, answers>>

-----------------------------------------------------------------------------
\* What other components do to the tables this one reads.

Tick ==
    /\ now < MaxTime
    /\ now' = now + 1
    /\ UNCHANGED <<contest, served, quiz, rows, answers, req>>

EditContest(c) ==
    /\ contest # None
    /\ contest' = c
    /\ served' = served \cup {c}
    /\ UNCHANGED <<now, quiz, rows, answers, req>>

\* Deleting the contest cascades to its questions and participations.
RemoveContest ==
    /\ contest # None
    /\ contest' = None
    /\ quiz' = NoQuiz
    /\ rows' = [u \in Users |-> None]
    /\ answers' = [u \in Users |-> NoAnswers]
    /\ UNCHANGED <<now, served, req>>

\* A deleted question or option never comes back under its id.
IsEdit(z) ==
    \A q \in Questions :
        z[q] # None => quiz[q] # None /\ z[q].options \subseteq quiz[q].options

EditQuiz(z) ==
    /\ contest # None
    /\ IsEdit(z)
    /\ quiz' = z
    /\ answers' = [u \in Users |-> Cascade(answers[u], z)]
    /\ UNCHANGED <<now, contest, served, rows, req>>

-----------------------------------------------------------------------------
Serve(r) ==
    \/ JoinLookup(r) \/ JoinInsert(r)
    \/ SaveValidate(r) \/ SaveReplace(r)
    \/ SubmitQuestions(r) \/ SubmitSnapshot(r) \/ SubmitUpdate(r) \/ SubmitBust(r)
    \/ Abort(r)

Arrive(r) ==
    \/ \E u \in Users :
          \/ Join(r, u)
          \/ \E b \in Bodies : SaveAnswers(r, u, b)
          \/ Submit(r, u)
    \/ Refuse(r)

Next ==
    \/ \E r \in Requests : Arrive(r) \/ Serve(r)
    \/ Tick
    \/ \E c \in Contests : EditContest(c)
    \/ RemoveContest
    \/ \E z \in Quizzes : EditQuiz(z)

Spec == Init /\ [][Next]_vars

-----------------------------------------------------------------------------
(***************************************************************************)
(* Properties that hold however requests overlap.                          *)
(***************************************************************************)

\* A participation is never lost, restarted or reopened while its contest
\* exists: a racing second join cannot reset it, a late submit cannot put it
\* back in progress.
RowsOnlyAdvance ==
    [][\A u \in Users : rows[u] # None /\ contest' # None =>
          /\ rows'[u] # None
          /\ rows'[u].startedAt = rows[u].startedAt
          /\ Submitted(u) => Submitted(u)']_vars

\* The partial UPDATE of a submit never leaves a half submitted row: status,
\* score and submittedAt are set together, and in the order of the clock, as
\* the ranking query (score, then submittedAt) takes for granted.
WholeRow(row) ==
    /\ row.status = "SUBMITTED" <=> row.score # None
    /\ row.status = "SUBMITTED" <=> row.submittedAt # None
    /\ row.status = "SUBMITTED" => row.startedAt <= row.submittedAt

RowsAreWhole ==
    \A u \in Users : rows[u] # None => WholeRow(rows[u]) /\ rows[u].startedAt <= now

LetIn(u, t) == \E c \in served : c.start <= t /\ hasAccess(c, Role[u])

\* Whoever participates was let in by a contest row that existed, had
\* started by the time recorded as startedAt and admitted the user's role.
JoinedThroughTheGate == \A u \in Users : rows[u] # None => LetIn(u, rows[u].startedAt)

\* Stored answers never point to a question or option that is gone, even when
\* the quiz changes between the validation of a save and its transaction.
NoDanglingAnswers ==
    \A u \in Users :
        /\ answers[u] = Cascade(answers[u], quiz)
        /\ rows[u] = None => answers[u] = NoAnswers

(***************************************************************************)
(* Properties of patient users: they wait for each answer, whatever hasty  *)
(* users and administrators do meanwhile.                                  *)
(***************************************************************************)

Patient == Users \ Hasty

\* A submission is final: its score and time never change again.
SubmittedIsFinal ==
    [][\A u \in Patient : Submitted(u) /\ contest' # None => rows'[u] = rows[u]]_vars

\* Answers change only while the participation is in progress, except for
\* what a deleted question or option takes with it.
DraftsOnlyInProgress ==
    [][\A u \in Patient : Submitted(u) /\ contest' # None =>
          answers'[u] = Cascade(answers[u], quiz')]_vars

\* As long as no option is deleted, the requests of patient users implement
\* the lifecycle in which every request is one step: what overlaps with them,
\* corrections of the quiz included, does not show.
Lifecycle == INSTANCE ParticipationLifecycle WITH
    Users <- Patient,
    stage <- [u \in Patient |-> IF rows[u] = None THEN "none"
                                ELSE IF rows[u].status = "SUBMITTED" THEN "submitted"
                                ELSE "joined"],
    score <- [u \in Patient |-> IF rows[u] = None THEN None ELSE rows[u].score],
    answers <- [u \in Patient |-> answers[u]]

ImplementsLifecycle == Lifecycle!LSpec

(***************************************************************************)
(* What the documentation says and the code does not do.                   *)
(***************************************************************************)

\* A second submit is refused, however quickly it follows the first.
SecondSubmitIsRefused ==
    [][\A u \in Users : Submitted(u) /\ contest' # None => rows'[u] = rows[u]]_vars
=============================================================================
