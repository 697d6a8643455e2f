----------------------------- MODULE SubmitProofs -----------------------------
(***************************************************************************)
(* Theorems about what a submit is graded by.                              *)
(***************************************************************************)
EXTENDS SubmitHistory, ParticipationProofs, FiniteSetTheorems

-----------------------------------------------------------------------------
(* The history restricts no step.                                          *)

LEMMA HistoryOnly == HSpec => Spec
<1>1. HInit => Init
  BY DEF HInit
<1>2. [HNext]_hvars => [Next]_vars
  BY DEF HNext, hvars
<1>3. QED
  BY <1>1, <1>2, PTL DEF HSpec, Spec

-----------------------------------------------------------------------------
(* The comparison of a selection with the key.                             *)

\* A list as long as the key that holds every option of the key holds each of
\* them once and nothing else, although an option may be listed twice.
LEMMA SameSet ==
    ASSUME IsFiniteSet(Options), IsFiniteSet(Copies),
           NEW key \in SUBSET Options, NEW picks \in SUBSET Picks, isSameSet(key, picks)
    PROVE  /\ {p[1] : p \in picks} = key
           /\ \A p, o \in picks : p[1] = o[1] => p = o
<1> DEFINE f == [o \in key |-> CHOOSE p \in picks : p[1] = o]
<1>1. IsFiniteSet(picks)
  BY FS_Product, FS_Subset DEF Picks
<1>2. \A o \in key : f[o] \in picks /\ f[o][1] = o
  BY DEF isSameSet
<1>3. f \in Injection(key, picks)
  <2>1. f \in [key -> picks]
    BY <1>2
  <2>2. \A o, n \in key : f[o] = f[n] => o = n
    BY <1>2
  <2>3. QED
    BY <2>1, <2>2 DEF Injection, IsInjective
<1>4. f \in Surjection(key, picks)
  BY <1>1, <1>3, FS_Injection DEF isSameSet
<1>5. \A p \in picks : \E o \in key : f[o] = p
  BY <1>4 DEF Surjection
<1>6. \A p \in picks : p[1] \in key /\ p = f[p[1]]
  BY <1>2, <1>5
<1>7. {p[1] : p \in picks} = key
  <2>1. \A p \in picks : p[1] \in key
    BY <1>6
  <2>2. \A o \in key : \E p \in picks : p[1] = o
    BY <1>2
  <2>3. QED
    BY <2>1, <2>2
<1>8. \A p, o \in picks : p[1] = o[1] => p = o
  BY <1>6
<1>9. QED
  BY <1>7, <1>8

\* A question pays only for the options of its key, each chosen once, whatever
\* is posted, saved and corrected.
THEOREM OnlyTheKeyPays ==
    ASSUME IsFiniteSet(Options), IsFiniteSet(Copies)
    PROVE  HSpec => []PaysOnlyTheKey
<1>1. TInv => PaysOnlyTheKey
  <2> SUFFICES ASSUME TInv, NEW u \in Users, NEW q \in Questions, quiz[q] # None,
                      isSameSet(quiz[q].correct, answers[u][q])
               PROVE  /\ {p[1] : p \in answers[u][q]} = quiz[q].correct
                      /\ \A p, o \in answers[u][q] : p[1] = o[1] => p = o
    BY DEF PaysOnlyTheKey
  <2>1. answers[u][q] \in SUBSET Picks
    BY DEF TInv, TypeOK, Answers
  <2>2. quiz \in Quiz
    BY ConstantsAssumption DEF TInv, TypeOK, Quiz, NoQuiz
  <2>3. quiz[q].correct \in SUBSET Options
    BY <2>2 DEF Quiz, QuestionRow
  <2>4. QED
    BY <2>1, <2>3, SameSet
<1>2. QED
  BY HistoryOnly, TInvCorrect, <1>1, PTL

-----------------------------------------------------------------------------
(* The instant of a grade.                                                 *)

\* Corrections leave the questions and their options as they are.
Corrections ==
    \A y, z \in Quizzes, q \in Questions :
        /\ y[q] = None <=> z[q] = None
        /\ y[q] # None => y[q].options = z[q].options

Graded(r) ==
    contest # None /\ req[r].user \in Patient =>
        /\ req[r].pc = "snapshot" =>
            scoreSubmission(req[r].quiz, answers[req[r].user]) \in instants[r]
        /\ req[r].pc = "update" => req[r].score \in instants[r]

GradedInv == \A r \in Requests : Graded(r)

\* A correction takes nothing from the stored answers.
LEMMA NothingCascades ==
    ASSUME TInv, DInv, Corrections, NEW z \in Quizzes, IsEdit(z), NEW u \in Users
    PROVE  Cascade(answers[u], z) = answers[u]
<1>1. answers[u] \in Answers /\ answers[u] = Cascade(answers[u], quiz)
  BY DEF TInv, TypeOK, DInv, NoDanglingAnswers
<1>2. ASSUME NEW q \in Questions PROVE Cascade(answers[u], z)[q] = answers[u][q]
  <2>1. CASE quiz[q] = None
    <3>1. z[q] = None
      BY <2>1 DEF IsEdit
    <3>2. answers[u][q] = {}
      BY <1>1, <2>1 DEF Cascade
    <3>3. QED
      BY <3>1, <3>2 DEF Cascade
  <2>2. CASE quiz[q] # None
    <3>1. quiz \in Quizzes
      BY <2>2 DEF TInv, TypeOK, NoQuiz
    <3>2. z[q] # None /\ z[q].options = quiz[q].options
      BY <2>2, <3>1 DEF Corrections
    <3>3. \A p \in answers[u][q] : p[1] \in quiz[q].options
      BY <1>1, <2>2 DEF Cascade
    <3>4. QED
      BY <3>2, <3>3 DEF Cascade
  <2>3. QED
    BY <2>1, <2>2
<1>3. QED
  BY <1>1, <1>2 DEF Cascade, Answers

\* While a patient user is being graded nothing changes the answers.
LEMMA AnswersStand ==
    ASSUME TInv, DInv, SInv, Corrections, [Next]_vars, contest' # None,
           NEW r \in Requests, req[r].pc \in {"snapshot", "update"}, req[r].user \in Patient
    PROVE  answers'[req[r].user] = answers[req[r].user]
<1> DEFINE u == req[r].user
<1>1. u \in Users
  BY DEF Patient
<1>2. ASSUME NEW s \in Requests, SaveReplace(s) PROVE answers'[u] = answers[u]
  <2>1. s # r /\ InFlight(s) /\ InFlight(r)
    BY <1>2 DEF SaveReplace, InFlight
  <2>2. req[s].user # u
    BY <1>1, <2>1 DEF SInv
  <2>3. QED
    BY <1>2, <2>2 DEF SaveReplace, TInv, TypeOK
<1>3. ASSUME NEW z \in Quizzes, EditQuiz(z) PROVE answers'[u] = answers[u]
  BY <1>1, <1>3, NothingCascades DEF EditQuiz
<1>4. ~ RemoveContest
  BY DEF RemoveContest
<1>5. CASE answers' = answers
  BY <1>5
<1>6. QED
  BY <1>2, <1>3, <1>4, <1>5
  DEF Next, vars, Arrive, Serve, Refuse, Join, SaveAnswers, Submit, JoinLookup, JoinInsert,
      SaveValidate, SubmitQuestions, SubmitSnapshot, SubmitUpdate, SubmitBust, Abort, Tick,
      EditContest

\* How a request comes to be at one of the last two steps of a submit.
LEMMA Coming ==
    ASSUME TInv, [Next]_vars, NEW r \in Requests, req'[r].pc \in {"snapshot", "update"}
    PROVE  \/ req'[r] = req[r]
           \/ SubmitQuestions(r)
           \/ SubmitSnapshot(r)
<1>0. req \in [Requests -> Request]
  BY DEF TInv, TypeOK
<1>1. ASSUME NEW s \in Requests, NEW q, req' = [req EXCEPT ![s] = q],
             q.pc \notin {"snapshot", "update"}
      PROVE  req'[r] = req[r]
  BY <1>0, <1>1
<1>2. ASSUME NEW s \in Requests, Answer(s) PROVE req'[r] = req[r]
  BY <1>1, <1>2 DEF Answer, Idle
<1>3. ASSUME NEW s \in Requests, NEW u, NEW b, NEW pc \in {"lookup", "validate", "questions"},
             Begin(s, u, pc, b)
      PROVE  req'[r] = req[r]
  <2>1. [Idle EXCEPT !.pc = pc, !.user = u, !.body = b].pc = pc
    BY DEF Idle
  <2>2. QED
    BY <1>1, <1>3, <2>1 DEF Begin
<1>4. ASSUME NEW s \in Requests, NEW u \in Users,
             Join(s, u) \/ Submit(s, u) \/ \E b \in Bodies : SaveAnswers(s, u, b)
      PROVE  req'[r] = req[r]
  BY <1>3, <1>4 DEF Join, Submit, SaveAnswers
<1>5. ASSUME NEW s \in Requests, JoinLookup(s) PROVE req'[r] = req[r]
  <2>1. [req[s] EXCEPT !.pc = "insert", !.row = NewRow(now)].pc = "insert"
    BY <1>0 DEF Request
  <2>2. QED
    BY <1>1, <1>2, <1>5, <2>1 DEF JoinLookup
<1>6. ASSUME NEW s \in Requests, SaveValidate(s) PROVE req'[r] = req[r]
  <2>1. [req[s] EXCEPT !.pc = "replace"].pc = "replace"
    BY <1>0 DEF Request
  <2>2. QED
    BY <1>1, <1>2, <1>6, <2>1 DEF SaveValidate
<1>7. ASSUME NEW s \in Requests, JoinInsert(s) \/ SaveReplace(s) \/ SubmitBust(s) \/ Abort(s)
      PROVE  req'[r] = req[r]
  BY <1>2, <1>7 DEF JoinInsert, SaveReplace, SubmitBust, Abort
<1>8. ASSUME NEW s \in Requests, SubmitUpdate(s) PROVE req'[r] = req[r]
  <2>1. [Idle EXCEPT !.pc = "bust", !.user = req[s].user].pc = "bust"
    BY DEF Idle
  <2>2. QED
    BY <1>1, <1>2, <1>8, <2>1 DEF SubmitUpdate
<1>9. ASSUME NEW s \in Requests, SubmitQuestions(s) \/ SubmitSnapshot(s)
      PROVE  req'[r] = req[r] \/ s = r
  BY <1>0, <1>9 DEF SubmitQuestions, SubmitSnapshot
<1>10. CASE req' = req
  BY <1>10
<1>11. QED
  BY <1>4, <1>5, <1>6, <1>7, <1>8, <1>9, <1>10
  DEF Next, vars, Arrive, Serve, Refuse, Tick, EditContest, RemoveContest, EditQuiz

LEMMA GradedStep ==
    ASSUME Corrections, TInv, DInv, SInv, GradedInv, [HNext]_hvars
    PROVE  GradedInv'
<1>0. [Next]_vars
  BY DEF HNext, hvars
<1>1. SUFFICES ASSUME NEW r \in Requests, contest' # None, req'[r].user \in Patient,
                      req'[r].pc \in {"snapshot", "update"}
               PROVE  /\ req'[r].pc = "snapshot" =>
                          scoreSubmission(req'[r].quiz, answers'[req'[r].user]) \in instants'[r]
                      /\ req'[r].pc = "update" => req'[r].score \in instants'[r]
  BY DEF GradedInv, Graded
<1>2. contest # None
  BY <1>0, <1>1
  DEF Next, vars, Arrive, Serve, Refuse, Join, SaveAnswers, Submit, JoinLookup, JoinInsert,
      SaveValidate, SaveReplace, SubmitQuestions, SubmitSnapshot, SubmitUpdate, SubmitBust,
      Abort, Tick, EditContest, RemoveContest, EditQuiz
<1>3. Graded(r) /\ req \in [Requests -> Request]
  BY DEF GradedInv, TInv, TypeOK
<1>4. CASE UNCHANGED hvars
  BY <1>1, <1>2, <1>3, <1>4 DEF hvars, vars, Graded
<1>5. CASE HNext
  <2>1. req'[r].pc \in {"questions", "snapshot", "update"}
    BY <1>1
  <2>2. instants'[r] = (IF Submitting(r) THEN instants[r] ELSE {}) \cup {Earned(r)'}
    BY <1>5, <2>1 DEF HNext, Submitting
  <2>3. CASE req'[r] = req[r]
    <3>1. instants[r] \subseteq instants'[r]
      BY <1>1, <2>2, <2>3 DEF Submitting
    <3>2. req[r].pc = "snapshot" => answers'[req[r].user] = answers[req[r].user]
      BY <1>0, <1>1, <2>3, AnswersStand
    <3>3. QED
      BY <1>1, <1>2, <1>3, <2>3, <3>1, <3>2 DEF Graded
  <2>4. CASE SubmitQuestions(r)
    <3>1. req'[r].pc = "snapshot" /\ req'[r].quiz = quiz' /\ quiz' = quiz
      BY <1>3, <2>4 DEF SubmitQuestions, Request
    <3>2. Earned(r)' = scoreSubmission(req'[r].quiz, answers'[req'[r].user])
      BY <3>1 DEF Earned
    <3>3. QED
      BY <2>2, <3>1, <3>2
  <2>5. CASE SubmitSnapshot(r)
    <3>1. /\ req[r].pc = "snapshot" /\ req'[r].pc = "update" /\ req'[r].user = req[r].user
          /\ req'[r].score = scoreSubmission(req[r].quiz, answers[req[r].user])
      BY <1>3, <2>5 DEF SubmitSnapshot, Request
    <3>2. instants[r] \subseteq instants'[r]
      BY <2>2, <3>1 DEF Submitting
    <3>3. QED
      BY <1>1, <1>2, <1>3, <3>1, <3>2 DEF Graded
  <2>6. QED
    BY <1>0, <1>1, <2>3, <2>4, <2>5, Coming
<1>6. QED
  BY <1>4, <1>5

\* The submit of a user who waits for each answer is graded as if it were one
\* transaction: where only keys and points are corrected, the score is what the
\* answers were worth at one instant, although the quiz is read before the
\* transaction, whatever users who do not wait do meanwhile.
THEOREM GradedAtOnce ==
    ASSUME Corrections
    PROVE  HSpec => []GradedAtAnInstant
<1>1. HInit => GradedInv
  BY DEF HInit, Init, GradedInv, Graded, Idle
<1>2. TInv /\ DInv /\ SInv /\ GradedInv /\ [HNext]_hvars => GradedInv'
  BY GradedStep
<1>3. GradedInv => GradedAtAnInstant
  BY DEF GradedInv, Graded, GradedAtAnInstant
<1>4. QED
  BY HistoryOnly, SInvCorrect, <1>1, <1>2, <1>3, PTL DEF HSpec
-----------------------------------------------------------------------------
(* The requests of patient users implement the lifecycle.                  *)

\* The quiz a submit read is one that stood, and the score it is about to write
\* is what such a quiz gives for the answers as they are stored now.
Gradable(r) ==
    contest # None =>
        /\ req[r].pc = "snapshot" => req[r].quiz \in Quizzes
        /\ req[r].pc = "update" /\ req[r].user \in Patient =>
            \E z \in Quizzes : req[r].score = scoreSubmission(z, answers[req[r].user])

RInv ==
    /\ contest # None => quiz \in Quizzes
    /\ \A r \in Requests : Gradable(r)

LEMMA ContestStays == [Next]_vars /\ contest' # None => contest # None
BY DEF Next, vars, Arrive, Serve, Refuse, Join, SaveAnswers, Submit, JoinLookup, JoinInsert,
       SaveValidate, SaveReplace, SubmitQuestions, SubmitSnapshot, SubmitUpdate, SubmitBust,
       Abort, Tick, EditContest, RemoveContest, EditQuiz

LEMMA RInvInit == Init => RInv
BY DEF Init, RInv, Gradable, Idle

LEMMA RInvStep ==
    ASSUME Corrections, TInv, DInv, SInv, RInv, [Next]_vars
    PROVE  RInv'
<1>1. CASE contest' = None
  BY <1>1 DEF RInv, Gradable
<1>2. CASE contest' # None
  <2>1. contest # None /\ quiz \in Quizzes
    BY <1>2, ContestStays DEF RInv
  <2>2. quiz' \in Quizzes
    BY <1>2, <2>1
    DEF Next, vars, Arrive, Serve, Refuse, Join, SaveAnswers, Submit, JoinLookup, JoinInsert,
        SaveValidate, SaveReplace, SubmitQuestions, SubmitSnapshot, SubmitUpdate, SubmitBust,
        Abort, Tick, EditContest, RemoveContest, EditQuiz
  <2>3. ASSUME NEW r \in Requests, req'[r].pc \in {"snapshot", "update"} PROVE Gradable(r)'
    <3>1. Gradable(r) /\ req \in [Requests -> Request]
      BY DEF RInv, TInv, TypeOK
    <3>2. CASE req'[r] = req[r]
      <4>1. req[r].user \in Patient => answers'[req[r].user] = answers[req[r].user]
        BY <1>2, <2>3, <3>2, AnswersStand
      <4>2. Patient' = Patient
        BY DEF Patient
      <4>3. QED
        BY <2>1, <3>1, <3>2, <4>1, <4>2 DEF Gradable
    <3>3. CASE SubmitQuestions(r)
      BY <2>1, <3>1, <3>3 DEF SubmitQuestions, Request, Gradable
    <3>4. CASE SubmitSnapshot(r)
      <4>1. /\ req'[r].pc = "update" /\ req'[r].user = req[r].user /\ answers' = answers
            /\ req'[r].score = scoreSubmission(req[r].quiz, answers[req[r].user])
        BY <3>1, <3>4 DEF SubmitSnapshot, Request
      <4>2. req[r].quiz \in Quizzes
        BY <2>1, <3>1, <3>4 DEF SubmitSnapshot, Gradable
      <4>3. QED
        BY <4>1, <4>2 DEF Gradable
    <3>5. QED
      BY <2>3, <3>2, <3>3, <3>4, Coming
  <2>4. QED
    BY <2>2, <2>3 DEF RInv, Gradable
<1>3. QED
  BY <1>1, <1>2

\* What touches no patient user is a stutter of the lifecycle.
LEMMA MapsToStutter ==
    ASSUME \A u \in Patient : rows'[u] = rows[u] /\ answers'[u] = answers[u]
    PROVE  UNCHANGED Lifecycle!lvars
BY DEF Lifecycle!lvars, Patient

\* The lifecycle grades as the service does.
LEMMA SameScore ==
    ASSUME NEW z, NEW a
    PROVE  Lifecycle!scoreSubmission(z, a) = scoreSubmission(z, a)
<1>1. ASSUME NEW S PROVE Lifecycle!Cardinality(S) = Cardinality(S)
  BY DEF Lifecycle!Cardinality, Cardinality
<1>2. ASSUME NEW f PROVE Lifecycle!SumFunction(f) = SumFunction(f)
  BY DEF Lifecycle!SumFunction, Lifecycle!SumFunctionOnSet, Lifecycle!FoldFunctionOnSet,
         Lifecycle!MapThenFoldSet, SumFunction, SumFunctionOnSet, FoldFunctionOnSet, MapThenFoldSet
<1>3. ASSUME NEW c, NEW p PROVE Lifecycle!isSameSet(c, p) = isSameSet(c, p)
  BY <1>1 DEF Lifecycle!isSameSet, isSameSet
<1>4. Lifecycle!buildGradables(z, a) = buildGradables(z, a)
  BY DEF Lifecycle!buildGradables, buildGradables
<1>5. QED
  BY <1>2, <1>3, <1>4 DEF Lifecycle!scoreSubmission, scoreSubmission

LEMMA JoinImplements ==
    ASSUME TInv, WInv, NEW r \in Requests, NEW u \in Users, u = req[r].user,
           JoinInsert(r)
    PROVE  [Lifecycle!LNext]_(Lifecycle!lvars)
<1>1. CASE rows[u] = None /\ contest # None /\ u \in Patient
  <2>1. /\ rows' = [rows EXCEPT ![u] = req[r].row] /\ answers' = answers
        /\ rows \in [Users -> Row \cup {None}] /\ u \in Users
    BY <1>1 DEF JoinInsert, TInv, TypeOK, Patient
  <2>2. /\ req[r].row # None
        /\ req[r].row.status = "IN_PROGRESS" /\ req[r].row.score = None
    BY NoneAssumption DEF JoinInsert, TInv, Phase, WInv, Pending
  <2>3. /\ \A v \in Patient : v # u => rows'[v] = rows[v]
        /\ rows'[u] = req[r].row
    BY <2>1 DEF Patient
  <2>4. Lifecycle!LJoin(u)
    BY <1>1, <2>1, <2>2, <2>3 DEF Lifecycle!LJoin
  <2>5. QED
    BY <1>1, <2>4 DEF Lifecycle!LNext
<1>2. CASE ~ (rows[u] = None /\ contest # None /\ u \in Patient)
  BY <1>2, MapsToStutter DEF JoinInsert, TInv, TypeOK, Patient
<1>3. QED
  BY <1>1, <1>2

LEMMA SaveImplements ==
    ASSUME TInv, SInv, NEW r \in Requests, NEW u \in Users, u = req[r].user,
           NEW b \in Bodies, b = req[r].body, SaveReplace(r)
    PROVE  [Lifecycle!LNext]_(Lifecycle!lvars)
<1>1. CASE rows[u] # None /\ References(b, quiz) /\ u \in Patient
  <2>1. /\ answers' = [answers EXCEPT ![u] = replaceAnswers(answers[u], b)] /\ rows' = rows
        /\ answers \in [Users -> Answers] /\ u \in Users
    BY <1>1 DEF SaveReplace, TInv, TypeOK, Patient
  <2>2. rows[u].status = "IN_PROGRESS" /\ b \in Bodies
    BY <1>1 DEF SaveReplace, TInv, Phase, SInv, Found, Changing
  <2>3. /\ \A v \in Patient : v # u => answers'[v] = answers[v]
        /\ answers'[u] = replaceAnswers(answers[u], b)
    BY <2>1 DEF Patient
  <2>4. Lifecycle!LSave(u, b)
    <3> DEFINE old == [v \in Patient |-> answers[v]]
               new == [q \in Questions |-> IF q \in DOMAIN b THEN b[q] ELSE old[u][q]]
    <3>1. new = replaceAnswers(answers[u], b)
      BY <1>1 DEF replaceAnswers
    <3>2. [v \in Patient |-> answers'[v]] = [old EXCEPT ![u] = new]
      <4> HIDE DEF new
      <4> QED
        BY <1>1, <2>3, <3>1
    <3>3. QED
      BY <1>1, <2>1, <2>2, <3>2 DEF Lifecycle!LSave
  <2>5. QED
    BY <1>1, <2>2, <2>4 DEF Lifecycle!LNext
<1>2. CASE ~ (rows[u] # None /\ References(b, quiz) /\ u \in Patient)
  BY <1>2, MapsToStutter DEF SaveReplace, TInv, TypeOK, Patient
<1>3. QED
  BY <1>1, <1>2

LEMMA SubmitImplements ==
    ASSUME TInv, WInv, SInv, RInv, NEW r \in Requests, NEW u \in Users, u = req[r].user,
           SubmitUpdate(r)
    PROVE  [Lifecycle!LNext]_(Lifecycle!lvars)
<1> DEFINE w == Written(rows[u], req[r])
<1>1. CASE req[r].row # None /\ rows[u] # None /\ u \in Patient
  <2>1. /\ rows' = [rows EXCEPT ![u] = w] /\ answers' = answers
        /\ rows \in [Users -> Row \cup {None}] /\ u \in Users
    BY <1>1 DEF SubmitUpdate, TInv, TypeOK, Patient
  <2>2. contest # None
    BY <1>1, <2>1 DEF WInv
  <2>3. /\ req[r].row = rows[u] /\ rows[u].status = "IN_PROGRESS"
        /\ rows[u] \in Row /\ WholeRow(rows[u])
    BY <1>1, <2>1 DEF SubmitUpdate, SInv, Found, Changing, WInv, RowsAreWhole
  <2>4. req[r].score \in Scores /\ req[r].at \in Times /\ req[r].score # None
    BY NoneAssumption DEF SubmitUpdate, TInv, Phase
  <2>5. w \in Row /\ w.status = "SUBMITTED" /\ w.score = req[r].score
    BY <2>3, <2>4 DEF Written, WholeRow, Row
  <2>6. \E z \in Quizzes : w.score = scoreSubmission(z, answers[u])
    BY <1>1, <2>2, <2>5 DEF RInv, Gradable, SubmitUpdate
  <2>7. /\ \A v \in Patient : v # u => rows'[v] = rows[v]
        /\ rows'[u] = w /\ w # None
    BY <2>1, <2>5, NoneAssumption DEF Patient
  <2>8. Lifecycle!LSubmit(u)
    <3>1. PICK z \in Quizzes : w.score = scoreSubmission(z, answers[u])
      BY <2>6
    <3>2. Lifecycle!scoreSubmission(z, answers[u]) = w.score
      BY <3>1, SameScore
    <3> DEFINE stage == [v \in Patient |-> IF rows[v] = None THEN "none"
                                           ELSE IF rows[v].status = "SUBMITTED" THEN "submitted"
                                           ELSE "joined"]
               score == [v \in Patient |-> IF rows[v] = None THEN None ELSE rows[v].score]
    <3>3. stage[u] = "joined" /\ stage' = [stage EXCEPT ![u] = "submitted"]
      BY <1>1, <2>3, <2>5, <2>7
    <3>4. score' = [score EXCEPT ![u] = Lifecycle!scoreSubmission(z, [v \in Patient |-> answers[v]][u])]
      BY <1>1, <2>7, <3>2
    <3>5. QED
      BY <2>1, <3>3, <3>4 DEF Lifecycle!LSubmit
  <2>9. QED
    BY <1>1, <2>8 DEF Lifecycle!LNext
<1>2. CASE ~ (req[r].row # None /\ rows[u] # None /\ u \in Patient)
  BY <1>2, MapsToStutter DEF SubmitUpdate, TInv, TypeOK, Patient
<1>3. QED
  BY <1>1, <1>2

LEMMA RefinementStep ==
    ASSUME Corrections, TInv, DInv, WInv, SInv, RInv, [Next]_vars
    PROVE  [Lifecycle!LNext]_(Lifecycle!lvars)
<1>1. CASE UNCHANGED <<rows, answers>>
  BY <1>1, MapsToStutter
<1>2. ASSUME NEW r \in Requests, JoinInsert(r) \/ SaveReplace(r) \/ SubmitUpdate(r)
      PROVE  [Lifecycle!LNext]_(Lifecycle!lvars)
  <2>1. req[r].user \in Users /\ (SaveReplace(r) => req[r].body \in Bodies)
    BY <1>2 DEF JoinInsert, SaveReplace, SubmitUpdate, TInv, Phase
  <2>2. QED
    BY <1>2, <2>1, JoinImplements, SaveImplements, SubmitImplements
<1>3. ASSUME NEW z \in Quizzes, EditQuiz(z) PROVE [Lifecycle!LNext]_(Lifecycle!lvars)
  <2>1. \A u \in Patient : rows'[u] = rows[u] /\ answers'[u] = answers[u]
    BY <1>3, NothingCascades DEF EditQuiz, Patient
  <2>2. QED
    BY <2>1, MapsToStutter
<1>4. ASSUME RemoveContest PROVE Lifecycle!LRemoveContest
  BY <1>4 DEF RemoveContest, Lifecycle!LRemoveContest, Lifecycle!NoAnswers, NoAnswers, Patient
<1>5. QED
  BY <1>1, <1>2, <1>3, <1>4
  DEF Next, vars, Arrive, Serve, Refuse, Join, SaveAnswers, Submit, JoinLookup, SaveValidate,
      SubmitQuestions, SubmitSnapshot, SubmitBust, Abort, Tick, EditContest, Lifecycle!LNext

\* However the requests of everybody overlap with each other and with
\* corrections of the quiz, a user who waits for each answer sees what
\* ParticipationLifecycle promises: requests that take effect in one step each,
\* one submission, graded on exactly the answers that are stored.
THEOREM LifecycleImplemented ==
    ASSUME Corrections
    PROVE  Spec => ImplementsLifecycle
<1>1. Init => Lifecycle!LInit
  BY DEF Init, Lifecycle!LInit, Lifecycle!NoAnswers, NoAnswers, Patient
<1>2. TInv /\ DInv /\ SInv /\ RInv /\ [Next]_vars => RInv'
  BY RInvStep
<1>3. TInv /\ DInv /\ WInv /\ SInv /\ RInv /\ [Next]_vars => [Lifecycle!LNext]_(Lifecycle!lvars)
  BY RefinementStep
<1>4. Spec => [](TInv /\ DInv /\ SInv) /\ []WInv
  BY SInvCorrect, WInvCorrect, PTL
<1>5. QED
  BY RInvInit, <1>1, <1>2, <1>3, <1>4, PTL DEF Spec, ImplementsLifecycle, Lifecycle!LSpec
=============================================================================
