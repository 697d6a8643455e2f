------------------------- MODULE ParticipationProofs -------------------------
(***************************************************************************)
(* Theorems about Participation, for every value of its constants.         *)
(***************************************************************************)
EXTENDS Participation, TLAPS

-----------------------------------------------------------------------------
(* Type correctness.                                                       *)

\* What a suspended request holds, by the call it waits for.
Phase(q) ==
    /\ q.pc # "idle" => q.user \in Users
    /\ q.pc = "insert" => q.row \in Row
    /\ q.pc \in {"validate", "replace"} => q.body \in Bodies
    /\ q.pc = "snapshot" => q.quiz \in Quizzes \cup {NoQuiz}
    /\ q.pc = "update" => q.score \in Scores /\ q.at \in Times

TInv == TypeOK /\ \A r \in Requests : Phase(req[r])

LEMMA ScoreType ==
    ASSUME NEW z \in Quizzes \cup {NoQuiz}, NEW a \in Answers
    PROVE  scoreSubmission(z, a) \in Scores
BY DEF Scores

LEMMA CascadeType ==
    ASSUME NEW z, NEW a \in Answers
    PROVE  Cascade(a, z) \in Answers
BY DEF Cascade, Answers

LEMMA ReplaceType ==
    ASSUME NEW a \in Answers, NEW b \in Bodies
    PROVE  replaceAnswers(a, b) \in Answers
BY ConstantsAssumption DEF replaceAnswers, Answers, IsBody

LEMMA NewRowType ==
    ASSUME NEW t \in Times
    PROVE  NewRow(t) \in Row
BY DEF NewRow, Row

LEMMA IdleType == Idle \in Request /\ Phase(Idle)
BY DEF Idle, Request, Phase

LEMMA WrittenType ==
    ASSUME NEW c \in Row, NEW q \in Request, q.score \in Scores, q.at \in Times
    PROVE  Written(c, q) \in Row
BY DEF Written, Row

\* One step on request r: only the new value of req[r] has to be typed.
LEMMA RequestStep ==
    ASSUME TInv, NEW r \in Requests, NEW q \in Request, Phase(q),
           req' = [req EXCEPT ![r] = q]
    PROVE  req' \in [Requests -> Request] /\ \A s \in Requests : Phase(req'[s])
BY DEF TInv, TypeOK

LEMMA AnswerStep ==
    ASSUME TInv, NEW r \in Requests, Answer(r)
    PROVE  req' \in [Requests -> Request] /\ \A s \in Requests : Phase(req'[s])
BY RequestStep, IdleType DEF Answer

LEMMA BeginStep ==
    ASSUME TInv, NEW r \in Requests, NEW u \in Users, NEW b \in Bodies \cup {None},
           NEW pc \in {"lookup", "validate", "questions"}, pc = "validate" => b \in Bodies,
           Begin(r, u, pc, b)
    PROVE  req' \in [Requests -> Request] /\ \A s \in Requests : Phase(req'[s])
<1> DEFINE q == [Idle EXCEPT !.pc = pc, !.user = u, !.body = b]
<1>1. q \in Request /\ Phase(q)
  BY DEF Idle, Request, Phase
<1>2. QED
  BY <1>1, RequestStep DEF Begin

LEMMA TInvInit == Init => TInv
BY ConstantsAssumption, IdleType
   DEF Init, TInv, TypeOK, Times, Answers, NoAnswers

LEMMA TInvStep == TInv /\ [Next]_vars => TInv'
<1> SUFFICES ASSUME TInv, [Next]_vars PROVE TInv'
  OBVIOUS
<1> USE DEF TypeOK
<1>1. ASSUME NEW r \in Requests, NEW u \in Users, Join(r, u) PROVE TInv'
  BY <1>1, BeginStep DEF Join, TInv
<1>2. ASSUME NEW r \in Requests, JoinLookup(r) PROVE TInv'
  <2>1. CASE rows[req[r].user] = None
    <3> DEFINE q == [req[r] EXCEPT !.pc = "insert", !.row = NewRow(now)]
    <3>1. q \in Request /\ Phase(q)
      BY <1>2, NewRowType DEF TInv, JoinLookup, Request, Phase
    <3>2. req' = [req EXCEPT ![r] = q]
      BY <1>2, <2>1 DEF JoinLookup
    <3>3. QED
      BY <1>2, <3>1, <3>2, RequestStep DEF JoinLookup, TInv
  <2>2. CASE rows[req[r].user] # None
    BY <1>2, <2>2, AnswerStep DEF JoinLookup, TInv
  <2>3. QED
    BY <2>1, <2>2
<1>3. ASSUME NEW r \in Requests, JoinInsert(r) PROVE TInv'
  <2>1. rows' \in [Users -> Row \cup {None}]
    BY <1>3 DEF JoinInsert, TInv, Phase
  <2>2. QED
    BY <1>3, <2>1, AnswerStep DEF JoinInsert, TInv
<1>4. ASSUME NEW r \in Requests, NEW u \in Users, NEW b \in Bodies, SaveAnswers(r, u, b)
      PROVE  TInv'
  BY <1>4, BeginStep DEF SaveAnswers, TInv
<1>5. ASSUME NEW r \in Requests, SaveValidate(r) PROVE TInv'
  <2>1. CASE References(req[r].body, quiz)
    <3> DEFINE q == [req[r] EXCEPT !.pc = "replace"]
    <3>1. q \in Request /\ Phase(q)
      BY <1>5 DEF TInv, SaveValidate, Request, Phase
    <3>2. req' = [req EXCEPT ![r] = q]
      BY <1>5, <2>1 DEF SaveValidate
    <3>3. QED
      BY <1>5, <3>1, <3>2, RequestStep DEF SaveValidate, TInv
  <2>2. CASE ~ References(req[r].body, quiz)
    BY <1>5, <2>2, AnswerStep DEF SaveValidate, TInv
  <2>3. QED
    BY <2>1, <2>2
<1>6. ASSUME NEW r \in Requests, SaveReplace(r) PROVE TInv'
  <2>1. answers' \in [Users -> Answers]
    BY <1>6, ReplaceType DEF SaveReplace, TInv, Phase
  <2>2. QED
    BY <1>6, <2>1, AnswerStep DEF SaveReplace, TInv
<1>7. ASSUME NEW r \in Requests, NEW u \in Users, Submit(r, u) PROVE TInv'
  BY <1>7, BeginStep DEF Submit, TInv
<1>8. ASSUME NEW r \in Requests, SubmitQuestions(r) PROVE TInv'
  <2> DEFINE q == [req[r] EXCEPT !.pc = "snapshot", !.quiz = quiz]
  <2>1. q \in Request /\ Phase(q)
    BY <1>8 DEF TInv, SubmitQuestions, Request, Phase
  <2>2. req' = [req EXCEPT ![r] = q]
    BY <1>8 DEF SubmitQuestions
  <2>3. QED
    BY <1>8, <2>1, <2>2, RequestStep DEF SubmitQuestions, TInv
<1>9. ASSUME NEW r \in Requests, SubmitSnapshot(r) PROVE TInv'
  <2> DEFINE u == req[r].user
             q == [req[r] EXCEPT !.pc = "update", !.row = rows[u],
                                 !.score = scoreSubmission(req[r].quiz, answers[u]), !.at = now]
  <2>1. u \in Users /\ scoreSubmission(req[r].quiz, answers[u]) \in Scores
    BY <1>9, ScoreType DEF TInv, SubmitSnapshot, Phase
  <2>2. req[r] \in Request /\ Phase(req[r]) /\ now \in Times /\ rows[u] \in Row \cup {None}
    BY <2>1 DEF TInv, TypeOK
  <2>3. q \in Request
    BY <2>1, <2>2 DEF Request
  <2>4. Phase(q)
    BY <1>9, <2>1, <2>2 DEF SubmitSnapshot, Request, Phase
  <2>5. req' = [req EXCEPT ![r] = q]
    BY <1>9 DEF SubmitSnapshot
  <2>6. QED
    BY <1>9, <2>3, <2>4, <2>5, RequestStep DEF SubmitSnapshot, TInv
<1>10. ASSUME NEW r \in Requests, SubmitUpdate(r) PROVE TInv'
  <2> DEFINE u == req[r].user
             q == [Idle EXCEPT !.pc = "bust", !.user = u]
  <2>1. u \in Users /\ req[r].score \in Scores /\ req[r].at \in Times
    BY <1>10 DEF TInv, SubmitUpdate, Phase
  <2>2. q \in Request /\ Phase(q)
    BY <2>1 DEF Idle, Request, Phase
  <2>3. CASE req[r].row = None
    BY <1>10, <2>3, AnswerStep DEF SubmitUpdate, TInv
  <2>4. CASE req[r].row # None
    <3>1. req' = [req EXCEPT ![r] = q]
      BY <1>10, <2>4 DEF SubmitUpdate
    <3>2. rows[u] # None => Written(rows[u], req[r]) \in Row
      BY <2>1, WrittenType DEF TInv
    <3>3. rows' \in [Users -> Row \cup {None}]
      BY <1>10, <2>4, <3>2 DEF SubmitUpdate, TInv
    <3>4. QED
      BY <1>10, <2>2, <3>1, <3>3, RequestStep DEF SubmitUpdate, TInv
  <2>5. QED
    BY <2>3, <2>4
<1>11. ASSUME NEW r \in Requests, SubmitBust(r) \/ Abort(r) PROVE TInv'
  BY <1>11, AnswerStep DEF SubmitBust, Abort, TInv
<1>12. CASE Tick
  BY <1>12, ConstantsAssumption DEF Tick, TInv, Times
<1>13. ASSUME NEW c \in Contests, EditContest(c) PROVE TInv'
  BY <1>13 DEF EditContest, TInv
<1>14. CASE RemoveContest
  BY <1>14 DEF RemoveContest, TInv, NoAnswers, Answers
<1>15. ASSUME NEW z \in Quizzes, EditQuiz(z) PROVE TInv'
  BY <1>15, CascadeType DEF EditQuiz, TInv
<1>16. CASE UNCHANGED vars
  BY <1>16 DEF vars, TInv
<1>17. QED
  BY <1>1, <1>2, <1>3, <1>4, <1>5, <1>6, <1>7, <1>8, <1>9, <1>10, <1>11, <1>12,
     <1>13, <1>14, <1>15, <1>16
     DEF Next, Arrive, Serve, Refuse

LEMMA TInvCorrect == Spec => []TInv
BY TInvInit, TInvStep, PTL DEF Spec

\* Every reachable state of the tables and of the requests is well typed:
\* participation.model.ts and the columns of the migration.
THEOREM TypeCorrect == Spec => []TypeOK
BY TInvCorrect, PTL DEF TInv

-----------------------------------------------------------------------------
(* Rows are written whole and only advance.                                *)

\* The row a join is about to insert is new, and the snapshot of a submit is
\* whole, not later than its clock reading, and not ahead of the row it will
\* update: this is what makes the UPDATE of only the changed fields safe.
Pending(q) ==
    /\ q.pc = "insert" =>
          /\ q.row.status = "IN_PROGRESS" /\ q.row.score = None
          /\ q.row.submittedAt = None /\ q.row.startedAt <= now
    /\ q.pc = "update" /\ q.row # None =>
          /\ WholeRow(q.row)
          /\ q.row.startedAt <= q.at
          /\ contest # None => rows[q.user] # None
          /\ rows[q.user] # None =>
                /\ rows[q.user].startedAt = q.row.startedAt
                /\ q.row.status = "SUBMITTED" => rows[q.user].status = "SUBMITTED"

WInv ==
    /\ RowsAreWhole
    /\ contest = None => \A u \in Users : rows[u] = None
    /\ \A r \in Requests : Pending(req[r])

\* A step that touches one request and no table.
LEMMA PendingStep ==
    ASSUME TInv, WInv, NEW r \in Requests, NEW q, Pending(q),
           req' = [req EXCEPT ![r] = q], UNCHANGED <<now, contest, rows>>
    PROVE  WInv'
BY DEF TInv, TypeOK, WInv, RowsAreWhole, WholeRow, Pending

LEMMA PendingAnswer ==
    ASSUME TInv, WInv, NEW r \in Requests, Answer(r), UNCHANGED <<now, contest, rows>>
    PROVE  WInv'
<1>1. Pending(Idle)
  BY DEF Pending, Idle
<1>2. QED
  BY <1>1, PendingStep DEF Answer

LEMMA PendingBegin ==
    ASSUME TInv, WInv, NEW r \in Requests, NEW u \in Users, NEW b,
           NEW pc \in {"lookup", "validate", "questions"},
           Begin(r, u, pc, b), UNCHANGED <<now, contest, rows>>
    PROVE  WInv'
<1> DEFINE q == [Idle EXCEPT !.pc = pc, !.user = u, !.body = b]
<1>1. Pending(q)
  BY DEF Pending, Idle
<1>2. QED
  BY <1>1, PendingStep DEF Begin

\* What the UPDATE of a submit does to a row its snapshot is not ahead of.
LEMMA WrittenWhole ==
    ASSUME NEW c \in Row, WholeRow(c), NEW q \in Request, Phase(q),
           q.pc = "update", q.row # None, WholeRow(q.row), q.row.startedAt <= q.at,
           c.startedAt = q.row.startedAt,
           q.row.status = "SUBMITTED" => c.status = "SUBMITTED"
    PROVE  /\ Written(c, q) \in Row /\ WholeRow(Written(c, q))
           /\ Written(c, q).startedAt = c.startedAt
           /\ Written(c, q).status = "SUBMITTED"
<1> DEFINE w == Written(c, q)
<1>1. q.score \in Scores /\ q.at \in Times /\ q.row \in Row
  BY DEF Phase, Request
<1>2. w \in Row
  BY <1>1, WrittenType
<1>3. w.startedAt = c.startedAt /\ w.status = "SUBMITTED"
  BY DEF Written, Row
<1>4. w.score # None
  BY <1>1, NoneAssumption DEF Written, Row, WholeRow
<1>5. w.submittedAt # None /\ w.startedAt <= w.submittedAt
  BY <1>1, NoneAssumption DEF Written, Row, WholeRow
<1>6. QED
  BY <1>2, <1>3, <1>4, <1>5 DEF WholeRow

LEMMA WInvInit == Init => WInv
BY NoneAssumption DEF Init, WInv, RowsAreWhole, Pending, Idle

LEMMA PendingIdle == Pending(Idle) /\ Pending(Idle)'
BY DEF Pending, Idle

LEMMA JoinInsertWhole ==
    ASSUME TInv, WInv, NEW r \in Requests, JoinInsert(r)
    PROVE  WInv'
<1> DEFINE u == req[r].user
<1>1. CASE rows[u] = None /\ contest # None
  <2>1. rows' = [rows EXCEPT ![u] = req[r].row] /\ u \in Users
    BY <1>1 DEF JoinInsert, TInv, Phase
  <2>2. /\ WholeRow(req[r].row) /\ req[r].row.startedAt <= now
        /\ now' = now /\ contest' = contest
    BY DEF JoinInsert, WInv, Pending, WholeRow
  <2>3. RowsAreWhole'
    BY <2>1, <2>2 DEF TInv, TypeOK, WInv, RowsAreWhole, WholeRow
  <2>4. ASSUME NEW s \in Requests PROVE Pending(req[s])'
    <3>1. CASE s = r
      BY <3>1, PendingIdle DEF JoinInsert, Answer, TInv, TypeOK, Pending, Idle
    <3>2. CASE s # r
      <4>1. req'[s] = req[s] /\ Pending(req[s])
        BY <3>2 DEF JoinInsert, Answer, TInv, TypeOK, WInv
      <4>2. req[s].pc = "update" /\ req[s].row # None => req[s].user # u
        BY <1>1, <4>1 DEF Pending
      <4>3. QED
        BY <2>1, <2>2, <4>1, <4>2 DEF Pending, WholeRow, TInv, TypeOK, Phase
    <3>3. QED
      BY <3>1, <3>2
  <2>5. QED
    BY <1>1, <2>2, <2>3, <2>4 DEF WInv
<1>2. CASE ~ (rows[u] = None /\ contest # None)
  BY <1>2, PendingAnswer DEF JoinInsert
<1>3. QED
  BY <1>1, <1>2

LEMMA SubmitUpdateWhole ==
    ASSUME TInv, WInv, NEW r \in Requests, SubmitUpdate(r)
    PROVE  WInv'
<1> DEFINE u == req[r].user
           q == [Idle EXCEPT !.pc = "bust", !.user = u]
<1>1. CASE req[r].row = None
  BY <1>1, PendingAnswer DEF SubmitUpdate
<1>2. CASE req[r].row # None /\ rows[u] = None
  <2>1. Pending(q)
    BY DEF Pending, Idle
  <2>2. QED
    BY <1>2, <2>1, PendingStep DEF SubmitUpdate
<1>3. CASE req[r].row # None /\ rows[u] # None
  <2> DEFINE w == Written(rows[u], req[r])
  <2>1. rows' = [rows EXCEPT ![u] = w] /\ u \in Users /\ req' = [req EXCEPT ![r] = q]
    BY <1>3 DEF SubmitUpdate, TInv, Phase
  <2>2. /\ w \in Row /\ WholeRow(w)
        /\ w.startedAt = rows[u].startedAt
        /\ w.status = "SUBMITTED"
    <3>1. Pending(req[r]) /\ Phase(req[r]) /\ req[r] \in Request /\ req[r].pc = "update"
      BY DEF SubmitUpdate, TInv, TypeOK, WInv
    <3>2. rows[u] \in Row /\ WholeRow(rows[u])
      BY <1>3, <2>1 DEF TInv, TypeOK, WInv, RowsAreWhole
    <3>3. /\ WholeRow(req[r].row)
          /\ req[r].row.startedAt <= req[r].at
          /\ rows[u].startedAt = req[r].row.startedAt
          /\ req[r].row.status = "SUBMITTED" => rows[u].status = "SUBMITTED"
      BY <1>3, <3>1 DEF Pending
    <3>4. QED
      BY <1>3, <3>1, <3>2, <3>3, WrittenWhole
  <2>3. now' = now /\ contest' = contest
    BY DEF SubmitUpdate
  <2>4. RowsAreWhole'
    <3>1. /\ rows'[u] = w
          /\ \A v \in Users \ {u} : rows'[v] = rows[v]
      BY <2>1 DEF TInv, TypeOK
    <3>2. QED
      BY <1>3, <2>1, <2>2, <2>3, <3>1 DEF WInv, RowsAreWhole
  <2>5. ASSUME NEW s \in Requests PROVE Pending(req[s])'
    <3>1. CASE s = r
      BY <2>1, <3>1 DEF TInv, TypeOK, Pending, Idle
    <3>2. CASE s # r
      <4>1. req'[s] = req[s] /\ Pending(req[s])
        BY <2>1, <3>2 DEF TInv, TypeOK, WInv
      <4>2. /\ rows'[u] = w
            /\ req[s].user # u => rows'[req[s].user] = rows[req[s].user]
        BY <2>1 DEF TInv, TypeOK
      <4>3. QED
        BY <1>3, <2>2, <2>3, <4>1, <4>2, NoneAssumption DEF Pending, WholeRow
    <3>3. QED
      BY <3>1, <3>2
  <2>6. contest' # None
    BY <1>3, <2>1, <2>3 DEF WInv
  <2>7. QED
    BY <2>4, <2>5, <2>6 DEF WInv
<1>4. QED
  BY <1>1, <1>2, <1>3

LEMMA WInvStep == TInv /\ WInv /\ [Next]_vars => WInv'
<1> SUFFICES ASSUME TInv, WInv, [Next]_vars PROVE WInv'
  OBVIOUS
<1>1. ASSUME NEW r \in Requests, NEW u \in Users,
             Join(r, u) \/ Submit(r, u) \/ \E b \in Bodies : SaveAnswers(r, u, b)
      PROVE  WInv'
  BY <1>1, PendingBegin DEF Join, Submit, SaveAnswers
<1>2. ASSUME NEW r \in Requests, JoinLookup(r) PROVE WInv'
  <2> DEFINE q == [req[r] EXCEPT !.pc = "insert", !.row = NewRow(now)]
  <2>1. CASE rows[req[r].user] = None
    <3>1. req[r] \in Request /\ now \in Times
      BY DEF TInv, TypeOK
    <3>2. q.pc = "insert" /\ q.row = NewRow(now)
      BY <3>1 DEF Request
    <3>3. Pending(q)
      BY <3>1, <3>2, ConstantsAssumption DEF Pending, NewRow, Times
    <3>4. req' = [req EXCEPT ![r] = q]
      BY <1>2, <2>1 DEF JoinLookup
    <3>5. QED
      BY <1>2, <3>3, <3>4, PendingStep DEF JoinLookup
  <2>2. CASE rows[req[r].user] # None
    BY <1>2, <2>2, PendingAnswer DEF JoinLookup
  <2>3. QED
    BY <2>1, <2>2
<1>3. ASSUME NEW r \in Requests, JoinInsert(r) PROVE WInv'
  BY <1>3, JoinInsertWhole
<1>4. ASSUME NEW r \in Requests, SaveValidate(r) PROVE WInv'
  <2> DEFINE q == [req[r] EXCEPT !.pc = "replace"]
  <2>1. Pending(q)
    BY DEF Pending, TInv, TypeOK, Request
  <2>2. QED
    BY <1>4, <2>1, PendingStep, PendingAnswer DEF SaveValidate
<1>5. ASSUME NEW r \in Requests, SaveReplace(r) \/ SubmitBust(r) \/ Abort(r) PROVE WInv'
  BY <1>5, PendingAnswer DEF SaveReplace, SubmitBust, Abort
<1>6. ASSUME NEW r \in Requests, SubmitQuestions(r) PROVE WInv'
  <2> DEFINE q == [req[r] EXCEPT !.pc = "snapshot", !.quiz = quiz]
  <2>1. Pending(q)
    BY DEF Pending, TInv, TypeOK, Request
  <2>2. QED
    BY <1>6, <2>1, PendingStep DEF SubmitQuestions
<1>7. ASSUME NEW r \in Requests, SubmitSnapshot(r) PROVE WInv'
  <2> DEFINE u == req[r].user
             q == [req[r] EXCEPT !.pc = "update", !.row = rows[u],
                                 !.score = scoreSubmission(req[r].quiz, answers[u]), !.at = now]
  <2>1. u \in Users
    BY <1>7 DEF SubmitSnapshot, TInv, Phase
  <2>2. q.pc = "update" /\ q.row = rows[u] /\ q.at = now /\ q.user = u
    BY DEF TInv, TypeOK, Request
  <2>3. Pending(q)
    BY <2>1, <2>2 DEF Pending, WInv, RowsAreWhole, WholeRow
  <2>4. QED
    BY <1>7, <2>3, PendingStep DEF SubmitSnapshot
<1>8. ASSUME NEW r \in Requests, SubmitUpdate(r) PROVE WInv'
  BY <1>8, SubmitUpdateWhole
<1>9. CASE Tick
  <2>1. now \in Nat /\ now' = now + 1
    BY <1>9, ConstantsAssumption DEF Tick, TInv, TypeOK, Times
  <2>2. \A n \in Times : n <= now => n <= now'
    BY <2>1, ConstantsAssumption DEF Times
  <2>3. RowsAreWhole'
    BY <1>9, <2>2 DEF Tick, TInv, TypeOK, WInv, RowsAreWhole, Row
  <2>4. ASSUME NEW r \in Requests PROVE Pending(req[r])'
    <3>1. Pending(req[r]) /\ Phase(req[r])
      BY DEF TInv, WInv
    <3>2. req[r].pc = "insert" => req[r].row.startedAt \in Times
      BY <3>1 DEF Phase, Row
    <3>3. QED
      BY <1>9, <2>2, <3>1, <3>2 DEF Tick, Pending
  <2>5. QED
    BY <1>9, <2>3, <2>4 DEF Tick, WInv
<1>10. ASSUME NEW c \in Contests, EditContest(c) PROVE WInv'
  <2>1. contest # None /\ contest' # None /\ UNCHANGED <<now, rows, req>>
    BY <1>10, NoneAssumption DEF EditContest
  <2>2. QED
    BY <2>1 DEF WInv, RowsAreWhole, WholeRow, Pending
<1>11. CASE RemoveContest
  <2>1. contest' = None /\ now' = now /\ req' = req /\ \A u \in Users : rows'[u] = None
    BY <1>11 DEF RemoveContest
  <2>2. ASSUME NEW r \in Requests PROVE Pending(req[r])'
    <3>1. Pending(req[r]) /\ (req[r].pc = "update" => req[r].user \in Users)
      BY DEF WInv, TInv, Phase
    <3>2. QED
      BY <2>1, <3>1 DEF Pending, WholeRow
  <2>3. QED
    BY <2>1, <2>2 DEF WInv, RowsAreWhole
<1>12. ASSUME NEW z \in Quizzes, EditQuiz(z) PROVE WInv'
  BY <1>12 DEF EditQuiz, WInv, RowsAreWhole, WholeRow, Pending
<1>13. CASE UNCHANGED vars
  BY <1>13 DEF vars, WInv, RowsAreWhole, WholeRow, Pending
<1>14. QED
  BY <1>1, <1>2, <1>3, <1>4, <1>5, <1>6, <1>7, <1>8, <1>9, <1>10, <1>11, <1>12, <1>13
     DEF Next, Arrive, Serve, Refuse

LEMMA WInvCorrect == Spec => [](TInv /\ WInv)
BY TInvInit, TInvStep, WInvInit, WInvStep, PTL DEF Spec

\* Joins, saves and submits that overlap in any way never leave a row of
\* participations with a status, score and time that do not belong together.
THEOREM RowsWhole == Spec => []RowsAreWhole
BY WInvCorrect, PTL DEF WInv

Advance ==
    \A u \in Users : rows[u] # None /\ contest' # None =>
        /\ rows'[u] # None
        /\ rows'[u].startedAt = rows[u].startedAt
        /\ Submitted(u) => Submitted(u)'

LEMMA AdvanceStep == TInv /\ WInv /\ [Next]_vars => [Advance]_vars
<1> SUFFICES ASSUME TInv, WInv, [Next]_vars PROVE Advance
  OBVIOUS
<1>1. CASE UNCHANGED rows
  BY <1>1 DEF Advance, Submitted
<1>2. ASSUME NEW r \in Requests, JoinInsert(r) PROVE Advance
  BY <1>2, NoneAssumption DEF JoinInsert, Advance, Submitted, TInv, TypeOK
<1>3. ASSUME NEW r \in Requests, SubmitUpdate(r) PROVE Advance
  <2> DEFINE u == req[r].user
             w == Written(rows[u], req[r])
  <2>1. CASE req[r].row # None /\ rows[u] # None
    <3>1. rows' = [rows EXCEPT ![u] = w] /\ u \in Users
      BY <1>3, <2>1 DEF SubmitUpdate, TInv, Phase
    <3>2. w \in Row /\ w.startedAt = rows[u].startedAt /\ w.status = "SUBMITTED"
      <4>1. Pending(req[r]) /\ Phase(req[r]) /\ req[r] \in Request /\ req[r].pc = "update"
        BY <1>3 DEF SubmitUpdate, TInv, TypeOK, WInv
      <4>2. rows[u] \in Row /\ WholeRow(rows[u])
        BY <2>1, <3>1 DEF TInv, TypeOK, WInv, RowsAreWhole
      <4>3. QED
        BY <2>1, <4>1, <4>2, WrittenWhole DEF Pending
    <3>3. QED
      BY <3>1, <3>2, NoneAssumption DEF Advance, Submitted, TInv, TypeOK
  <2>2. CASE ~ (req[r].row # None /\ rows[u] # None)
    BY <1>1, <1>3, <2>2 DEF SubmitUpdate
  <2>3. QED
    BY <2>1, <2>2
<1>4. CASE RemoveContest
  BY <1>4 DEF RemoveContest, Advance
<1>5. QED
  BY <1>1, <1>2, <1>3, <1>4
     DEF Next, Arrive, Serve, Refuse, Join, SaveAnswers, Submit, JoinLookup, SaveValidate,
         SaveReplace, SubmitQuestions, SubmitSnapshot, SubmitBust, Abort, Tick,
         EditContest, EditQuiz, vars

\* A participation is never lost, restarted or reopened, however the requests
\* of its user overlap: RowsOnlyAdvance, for any number of users and requests.
THEOREM RowsAdvance == Spec => RowsOnlyAdvance
<1>1. [][Advance]_vars => RowsOnlyAdvance
  BY PTL DEF Advance, RowsOnlyAdvance
<1>2. QED
  BY <1>1, WInvCorrect, AdvanceStep, PTL DEF Spec


-----------------------------------------------------------------------------
(* Everyone was let in.                                                    *)

Admitted(q) ==
    /\ q.pc = "lookup" => LetIn(q.user, now)
    /\ q.pc = "insert" => LetIn(q.user, q.row.startedAt)

GInv == JoinedThroughTheGate /\ \A r \in Requests : Admitted(req[r])

LEMMA LetInGrows ==
    ASSUME NEW u, NEW t, LetIn(u, t), served \subseteq served'
    PROVE  LetIn(u, t)'
BY DEF LetIn

\* A step that keeps the clock and the rows, and touches one request.
LEMMA GateStep ==
    ASSUME TInv, GInv, NEW r \in Requests, NEW q, Admitted(q),
           req' = [req EXCEPT ![r] = q], UNCHANGED <<now, served, rows>>
    PROVE  GInv'
BY DEF TInv, TypeOK, GInv, JoinedThroughTheGate, Admitted, LetIn

LEMMA GateAnswer ==
    ASSUME TInv, GInv, NEW r \in Requests, Answer(r), UNCHANGED <<now, served, rows>>
    PROVE  GInv'
<1>1. Admitted(Idle)
  BY DEF Admitted, Idle
<1>2. QED
  BY <1>1, GateStep DEF Answer

LEMMA GInvInit == Init => GInv
BY DEF Init, GInv, JoinedThroughTheGate, Admitted, Idle

LEMMA JoinGate ==
    ASSUME TInv, GInv, NEW r \in Requests, NEW u \in Users, Join(r, u)
    PROVE  GInv'
<1> DEFINE q == [Idle EXCEPT !.pc = "lookup", !.user = u, !.body = None]
<1>1. now \in Nat /\ served \subseteq Contest(Nat)
  BY ConstantsAssumption DEF TInv, TypeOK, Times
<1>2. LetIn(u, now)
  <2>1. PICK c \in served : deriveContestStatus(c, now) = "ACTIVE" /\ hasAccess(c, Role[u])
    BY DEF Join
  <2>2. c.start \in Nat
    BY <1>1, <2>1 DEF Contest
  <2>3. c.start <= now
    BY <1>1, <2>1, <2>2 DEF deriveContestStatus
  <2>4. QED
    BY <2>1, <2>3 DEF LetIn
<1>3. q.pc = "lookup" /\ q.user = u
  BY DEF Idle
<1>4. Admitted(q)
  BY <1>2, <1>3 DEF Admitted
<1>5. QED
  BY <1>4, GateStep DEF Join, Begin

LEMMA GInvStep == TInv /\ WInv /\ GInv /\ [Next]_vars => GInv'
<1> SUFFICES ASSUME TInv, WInv, GInv, [Next]_vars PROVE GInv'
  OBVIOUS
<1>1. ASSUME NEW r \in Requests, NEW u \in Users, Join(r, u) PROVE GInv'
  BY <1>1, JoinGate
<1>2. ASSUME NEW r \in Requests, NEW u \in Users,
             Submit(r, u) \/ \E b \in Bodies : SaveAnswers(r, u, b)
      PROVE  GInv'
  <2>1. PICK b \in Bodies \cup {None}, pc \in {"validate", "questions"} :
            Begin(r, u, pc, b) /\ UNCHANGED <<now, served, rows>>
    BY <1>2 DEF Submit, SaveAnswers
  <2> DEFINE q == [Idle EXCEPT !.pc = pc, !.user = u, !.body = b]
  <2>2. Admitted(q)
    BY DEF Admitted, Idle
  <2>3. QED
    BY <2>1, <2>2, GateStep DEF Begin
<1>3. ASSUME NEW r \in Requests, JoinLookup(r) PROVE GInv'
  <2> DEFINE q == [req[r] EXCEPT !.pc = "insert", !.row = NewRow(now)]
  <2>1. CASE rows[req[r].user] = None
    <3>1. req[r] \in Request /\ LetIn(req[r].user, now)
      BY <1>3 DEF JoinLookup, TInv, TypeOK, GInv, Admitted
    <3>2. q.pc = "insert" /\ q.row.startedAt = now /\ q.user = req[r].user
      BY <3>1 DEF Request, NewRow
    <3>3. Admitted(q)
      BY <3>1, <3>2 DEF Admitted
    <3>4. req' = [req EXCEPT ![r] = q]
      BY <1>3, <2>1 DEF JoinLookup
    <3>5. QED
      BY <1>3, <3>3, <3>4, GateStep DEF JoinLookup
  <2>2. CASE rows[req[r].user] # None
    BY <1>3, <2>2, GateAnswer DEF JoinLookup
  <2>3. QED
    BY <2>1, <2>2
<1>4. ASSUME NEW r \in Requests, JoinInsert(r) PROVE GInv'
  <2>1. LetIn(req[r].user, req[r].row.startedAt)
    BY <1>4 DEF JoinInsert, GInv, Admitted
  <2>2. \A v \in Users : rows'[v] = rows[v] \/ (v = req[r].user /\ rows'[v] = req[r].row)
    BY <1>4 DEF JoinInsert, TInv, TypeOK
  <2>3. JoinedThroughTheGate'
    BY <1>4, <2>1, <2>2 DEF JoinInsert, GInv, JoinedThroughTheGate, LetIn
  <2>4. ASSUME NEW s \in Requests PROVE Admitted(req[s])'
    BY <1>4 DEF JoinInsert, Answer, TInv, TypeOK, GInv, Admitted, Idle, LetIn
  <2>5. QED
    BY <2>3, <2>4 DEF GInv
<1>5. ASSUME NEW r \in Requests, SaveValidate(r) PROVE GInv'
  <2> DEFINE q == [req[r] EXCEPT !.pc = "replace"]
  <2>1. Admitted(q)
    BY DEF Admitted, TInv, TypeOK, Request
  <2>2. QED
    BY <1>5, <2>1, GateStep, GateAnswer DEF SaveValidate
<1>6. ASSUME NEW r \in Requests, SaveReplace(r) \/ SubmitBust(r) \/ Abort(r) PROVE GInv'
  BY <1>6, GateAnswer DEF SaveReplace, SubmitBust, Abort
<1>7. ASSUME NEW r \in Requests, SubmitQuestions(r) PROVE GInv'
  <2> DEFINE q == [req[r] EXCEPT !.pc = "snapshot", !.quiz = quiz]
  <2>1. Admitted(q)
    BY DEF Admitted, TInv, TypeOK, Request
  <2>2. QED
    BY <1>7, <2>1, GateStep DEF SubmitQuestions
<1>8. ASSUME NEW r \in Requests, SubmitSnapshot(r) PROVE GInv'
  <2> DEFINE q == [req[r] EXCEPT !.pc = "update", !.row = rows[req[r].user],
                     !.score = scoreSubmission(req[r].quiz, answers[req[r].user]), !.at = now]
  <2>1. Admitted(q)
    BY DEF Admitted, TInv, TypeOK, Request
  <2>2. QED
    BY <1>8, <2>1, GateStep DEF SubmitSnapshot
<1>9. ASSUME NEW r \in Requests, SubmitUpdate(r) PROVE GInv'
  <2> DEFINE u == req[r].user
             q == IF req[r].row = None THEN Idle ELSE [Idle EXCEPT !.pc = "bust", !.user = u]
  <2>1. req' = [req EXCEPT ![r] = q] /\ Admitted(q) /\ UNCHANGED <<now, contest, served>>
    BY <1>9 DEF SubmitUpdate, Answer, Admitted, Idle
  <2>2. [Advance]_vars
    BY AdvanceStep
  <2>3. \A v \in Users : rows[v] = None => rows'[v] = None
    BY <1>9 DEF SubmitUpdate, TInv, TypeOK
  <2>4. \A v \in Users : rows'[v] # None => rows'[v].startedAt = rows[v].startedAt
    BY <2>1, <2>2, <2>3 DEF Advance, WInv, vars
  <2>5. JoinedThroughTheGate'
    BY <2>1, <2>3, <2>4 DEF GInv, JoinedThroughTheGate, LetIn
  <2>6. ASSUME NEW s \in Requests PROVE Admitted(req[s])'
    BY <2>1 DEF TInv, TypeOK, GInv, Admitted, LetIn
  <2>7. QED
    BY <2>5, <2>6 DEF GInv
<1>10. CASE Tick
  <2>1. now \in Nat /\ now' = now + 1 /\ UNCHANGED <<served, rows, req>>
    BY <1>10, ConstantsAssumption DEF Tick, TInv, TypeOK, Times
  <2>2. ASSUME NEW u, LetIn(u, now) PROVE LetIn(u, now)'
    <3>1. PICK c \in served : c.start <= now /\ hasAccess(c, Role[u])
      BY <2>2 DEF LetIn
    <3>2. c.start \in Nat
      BY <3>1, ConstantsAssumption DEF TInv, TypeOK, Contest
    <3>3. c.start <= now'
      BY <2>1, <3>1, <3>2
    <3>4. QED
      BY <2>1, <3>1, <3>3 DEF LetIn
  <2>3. QED
    BY <2>1, <2>2 DEF GInv, JoinedThroughTheGate, Admitted, LetIn
<1>11. ASSUME NEW c \in Contests, EditContest(c) PROVE GInv'
  BY <1>11, LetInGrows DEF EditContest, GInv, JoinedThroughTheGate, Admitted, LetIn
<1>12. CASE RemoveContest
  BY <1>12 DEF RemoveContest, GInv, JoinedThroughTheGate, Admitted, LetIn
<1>13. CASE \/ UNCHANGED vars
            \/ \E z \in Quizzes : EditQuiz(z)
  BY <1>13 DEF EditQuiz, vars, GInv, JoinedThroughTheGate, Admitted, LetIn
<1>14. QED
  BY <1>1, <1>2, <1>3, <1>4, <1>5, <1>6, <1>7, <1>8, <1>9, <1>10, <1>11, <1>12, <1>13
     DEF Next, Arrive, Serve, Refuse

\* Nobody participates without having been let in: whatever stale contest row
\* the join was checked against existed, had started and admitted the role.
THEOREM JoinedGate == Spec => []JoinedThroughTheGate
<1>1. Spec => []GInv
  BY WInvCorrect, GInvInit, GInvStep, PTL DEF Spec
<1>2. QED
  BY <1>1, PTL DEF GInv

-----------------------------------------------------------------------------
(* Stored answers.                                                         *)

DInv ==
    /\ NoDanglingAnswers
    /\ contest = None => quiz = NoQuiz

LEMMA CascadeIdempotent ==
    ASSUME NEW a \in Answers, NEW z
    PROVE  Cascade(Cascade(a, z), z) = Cascade(a, z)
BY DEF Cascade, Answers

LEMMA CascadeNone ==
    ASSUME NEW z
    PROVE  Cascade(NoAnswers, z) = NoAnswers
BY DEF Cascade, NoAnswers

\* What a save stores in a quiz that has the posted options stays whole.
LEMMA CascadeReplace ==
    ASSUME NEW a \in Answers, NEW b \in Bodies, NEW z,
           Cascade(a, z) = a, References(b, z)
    PROVE  Cascade(replaceAnswers(a, b), z) = replaceAnswers(a, b)
<1> DEFINE n == replaceAnswers(a, b)
<1>1. ASSUME NEW q \in Questions PROVE Cascade(n, z)[q] = n[q]
  <2>1. CASE q \in DOMAIN b
    <3>1. n[q] = b[q] /\ z[q] # None /\ \A p \in b[q] : p[1] \in z[q].options
      BY <2>1 DEF replaceAnswers, References
    <3>2. QED
      BY <3>1 DEF Cascade
  <2>2. CASE q \notin DOMAIN b
    <3>1. n[q] = a[q] /\ a[q] = Cascade(a, z)[q]
      BY <2>2 DEF replaceAnswers
    <3>2. QED
      BY <3>1 DEF Cascade
  <2>3. QED
    BY <2>1, <2>2
<1>2. QED
  BY <1>1 DEF Cascade, replaceAnswers

LEMMA DInvInit == Init => DInv
<1> SUFFICES ASSUME Init PROVE DInv
  OBVIOUS
<1>1. contest # None
  BY NoneAssumption DEF Init
<1>2. QED
  BY <1>1, CascadeNone DEF Init, DInv, NoDanglingAnswers

LEMMA DInvStep == TInv /\ DInv /\ [Next]_vars => DInv'
<1> SUFFICES ASSUME TInv, DInv, [Next]_vars PROVE DInv'
  OBVIOUS
<1>1. CASE UNCHANGED <<contest, quiz, rows, answers>>
  BY <1>1 DEF DInv, NoDanglingAnswers
<1>2. ASSUME NEW r \in Requests, JoinInsert(r) PROVE DInv'
  BY <1>2 DEF JoinInsert, DInv, NoDanglingAnswers, TInv, TypeOK
<1>3. ASSUME NEW r \in Requests, SaveReplace(r) PROVE DInv'
  <2> DEFINE u == req[r].user
             b == req[r].body
  <2>1. u \in Users /\ b \in Bodies
    BY <1>3 DEF SaveReplace, TInv, Phase
  <2>2. CASE rows[u] # None /\ References(b, quiz)
    <3>1. answers' = [answers EXCEPT ![u] = replaceAnswers(answers[u], b)]
      BY <1>3, <2>2 DEF SaveReplace
    <3>2. Cascade(replaceAnswers(answers[u], b), quiz) = replaceAnswers(answers[u], b)
      BY <2>1, <2>2, CascadeReplace DEF TInv, TypeOK, DInv, NoDanglingAnswers
    <3>3. UNCHANGED <<contest, quiz, rows>>
      BY <1>3 DEF SaveReplace
    <3>4. QED
      BY <2>2, <3>1, <3>2, <3>3 DEF DInv, NoDanglingAnswers, TInv, TypeOK
  <2>3. CASE ~ (rows[u] # None /\ References(b, quiz))
    BY <1>1, <1>3, <2>3 DEF SaveReplace
  <2>4. QED
    BY <2>2, <2>3
<1>4. ASSUME NEW r \in Requests, SubmitUpdate(r) PROVE DInv'
  <2>1. UNCHANGED <<contest, quiz, answers>>
    BY <1>4 DEF SubmitUpdate
  <2>2. \A u \in Users : rows[u] # None => rows'[u] # None
    <3>1. ASSUME NEW u \in Users, rows[u] # None, u = req[r].user, req[r].row # None
          PROVE  Written(rows[u], req[r]) # None
      <4>1. Written(rows[u], req[r]) \in Row
        BY <1>4, <3>1, WrittenType DEF SubmitUpdate, TInv, TypeOK, Phase
      <4>2. QED
        BY <4>1, NoneAssumption
    <3>2. QED
      BY <1>4, <3>1 DEF SubmitUpdate, TInv, TypeOK
  <2>3. QED
    BY <2>1, <2>2 DEF DInv, NoDanglingAnswers
<1>5. CASE RemoveContest
  BY <1>5, CascadeNone DEF RemoveContest, DInv, NoDanglingAnswers
<1>6. ASSUME NEW z \in Quizzes, EditQuiz(z) PROVE DInv'
  <2>1. \A u \in Users : answers'[u] = Cascade(answers[u], z)
    BY <1>6 DEF EditQuiz
  <2>2. quiz' = z /\ contest # None /\ UNCHANGED <<contest, rows>>
    BY <1>6 DEF EditQuiz
  <2>3. QED
    BY <2>1, <2>2, CascadeIdempotent, CascadeNone DEF DInv, NoDanglingAnswers, TInv, TypeOK
<1>7. ASSUME NEW c \in Contests, EditContest(c) PROVE DInv'
  BY <1>7, NoneAssumption DEF EditContest, DInv, NoDanglingAnswers
<1>8. QED
  BY <1>1, <1>2, <1>3, <1>4, <1>5, <1>6, <1>7
     DEF Next, Arrive, Serve, Refuse, Join, SaveAnswers, Submit, JoinLookup, SaveValidate,
         SubmitQuestions, SubmitSnapshot, SubmitBust, Abort, Tick, vars

\* A save that validated against an old quiz never leaves an answer to a
\* question or option that has been deleted since.
THEOREM NoDangling == Spec => []NoDanglingAnswers
<1>1. Spec => []DInv
  BY TInvCorrect, DInvInit, DInvStep, PTL DEF Spec
<1>2. QED
  BY <1>1, PTL DEF DInv

-----------------------------------------------------------------------------
(* Patient users.                                                          *)

Changing == {"validate", "replace", "questions", "snapshot", "update"}

\* A patient user has one request in flight, so nothing else can submit the
\* participation that a save or a submit of that user found in progress.
Found(q) ==
    q.user \in Patient /\ rows[q.user] # None =>
        /\ q.pc \in Changing => rows[q.user].status = "IN_PROGRESS"
        /\ q.pc = "update" => q.row = rows[q.user]

SInv ==
    /\ \A r, s \in Requests :
          InFlight(r) /\ InFlight(s) /\ r # s /\ req[r].user \in Patient =>
              req[r].user # req[s].user
    /\ \A r \in Requests : Found(req[r])

\* A step that keeps the rows and moves one request on or answers it.
LEMMA SerialStep ==
    ASSUME TInv, SInv, NEW r \in Requests, NEW q, Found(q),
           q.pc = "idle" \/ (InFlight(r) /\ q.user = req[r].user),
           req' = [req EXCEPT ![r] = q], UNCHANGED rows
    PROVE  SInv'
BY DEF TInv, TypeOK, SInv, Found, InFlight

LEMMA SerialAnswer ==
    ASSUME TInv, SInv, NEW r \in Requests, Answer(r), UNCHANGED rows
    PROVE  SInv'
<1>1. Found(Idle) /\ Idle.pc = "idle"
  BY DEF Found, Idle, Changing
<1>2. QED
  BY <1>1, SerialStep DEF Answer

LEMMA SerialBegin ==
    ASSUME TInv, SInv, NEW r \in Requests, NEW u \in Users, NEW b,
           NEW pc \in {"lookup", "validate", "questions"},
           pc # "lookup" => InProgress(u), Begin(r, u, pc, b), UNCHANGED rows
    PROVE  SInv'
<1> DEFINE q == [Idle EXCEPT !.pc = pc, !.user = u, !.body = b]
<1>1. q.pc = pc /\ q.user = u /\ Found(q)
  BY DEF Found, Idle, Changing, InProgress
<1>2. u \in Patient => \A s \in Requests : req[s].user # u
  BY DEF Begin, Patient
<1>3. req' = [req EXCEPT ![r] = q]
  BY DEF Begin
<1>4. QED
  BY <1>1, <1>2, <1>3 DEF TInv, TypeOK, SInv, Found, InFlight

LEMMA SInvInit == Init => SInv
BY DEF Init, SInv, InFlight, Found, Idle, Changing

\* A step of request r leaves the rows of the users of other requests alone.
LEMMA SerialRowStep ==
    ASSUME TInv, SInv, NEW r \in Requests, NEW q, InFlight(r),
           q.pc \notin Changing, q.pc = "idle" \/ q.user = req[r].user,
           req' = [req EXCEPT ![r] = q],
           \A v \in Users \ {req[r].user} : rows'[v] = rows[v]
    PROVE  SInv'
<1>1. ASSUME NEW s \in Requests PROVE Found(req[s])'
  <2>1. CASE s = r
    BY <2>1 DEF TInv, TypeOK, Found, Changing
  <2>2. CASE s # r /\ InFlight(s)
    <3>1. req'[s] = req[s] /\ req[s].user \in Users /\ Found(req[s])
      BY <2>2 DEF TInv, TypeOK, SInv, Phase, InFlight
    <3>2. req[s].user \in Patient => req[s].user # req[r].user
      BY <2>2 DEF SInv
    <3>3. QED
      BY <3>1, <3>2 DEF Found
  <2>3. CASE s # r /\ ~ InFlight(s)
    BY <2>3 DEF TInv, TypeOK, Found, InFlight, Changing
  <2>4. QED
    BY <2>1, <2>2, <2>3
<1>2. QED
  BY <1>1 DEF TInv, TypeOK, SInv, InFlight

LEMMA SInvStep == TInv /\ SInv /\ [Next]_vars => SInv'
<1> SUFFICES ASSUME TInv, SInv, [Next]_vars PROVE SInv'
  OBVIOUS
<1>1. ASSUME NEW r \in Requests, NEW u \in Users,
             Join(r, u) \/ Submit(r, u) \/ \E b \in Bodies : SaveAnswers(r, u, b)
      PROVE  SInv'
  BY <1>1, SerialBegin DEF Join, Submit, SaveAnswers
<1>2. ASSUME NEW r \in Requests, JoinLookup(r) PROVE SInv'
  <2> DEFINE q == [req[r] EXCEPT !.pc = "insert", !.row = NewRow(now)]
  <2>1. CASE rows[req[r].user] = None
    <3>1. req[r] \in Request
      BY DEF TInv, TypeOK
    <3>2. q.pc = "insert" /\ q.user = req[r].user
      BY <3>1 DEF Request
    <3>3. Found(q)
      BY <3>2 DEF Found, Changing
    <3>4. QED
      BY <1>2, <2>1, <3>2, <3>3, SerialStep DEF JoinLookup, InFlight
  <2>2. CASE rows[req[r].user] # None
    BY <1>2, <2>2, SerialAnswer DEF JoinLookup
  <2>3. QED
    BY <2>1, <2>2
<1>3. ASSUME NEW r \in Requests, JoinInsert(r) PROVE SInv'
  <2>1. \A v \in Users \ {req[r].user} : rows'[v] = rows[v]
    BY <1>3 DEF JoinInsert, TInv, TypeOK
  <2>2. Idle.pc = "idle" /\ InFlight(r) /\ req' = [req EXCEPT ![r] = Idle]
    BY <1>3 DEF JoinInsert, Answer, Idle, InFlight
  <2>3. QED
    BY <2>1, <2>2, SerialRowStep DEF Changing
<1>4. ASSUME NEW r \in Requests, SaveValidate(r) PROVE SInv'
  <2> DEFINE q == [req[r] EXCEPT !.pc = "replace"]
  <2>1. CASE References(req[r].body, quiz)
    <3>1. req[r] \in Request /\ Found(req[r])
      BY DEF TInv, TypeOK, SInv
    <3>2. q.pc = "replace" /\ q.user = req[r].user
      BY <3>1 DEF Request
    <3>3. Found(q)
      BY <1>4, <3>1, <3>2 DEF SaveValidate, Found, Changing
    <3>4. QED
      BY <1>4, <2>1, <3>2, <3>3, SerialStep DEF SaveValidate, InFlight
  <2>2. CASE ~ References(req[r].body, quiz)
    BY <1>4, <2>2, SerialAnswer DEF SaveValidate
  <2>3. QED
    BY <2>1, <2>2
<1>5. ASSUME NEW r \in Requests, SaveReplace(r) \/ SubmitBust(r) \/ Abort(r) PROVE SInv'
  BY <1>5, SerialAnswer DEF SaveReplace, SubmitBust, Abort
<1>6. ASSUME NEW r \in Requests, SubmitQuestions(r) PROVE SInv'
  <2> DEFINE q == [req[r] EXCEPT !.pc = "snapshot", !.quiz = quiz]
  <2>1. req[r] \in Request /\ Found(req[r])
    BY DEF TInv, TypeOK, SInv
  <2>2. q.pc = "snapshot" /\ q.user = req[r].user
    BY <2>1 DEF Request
  <2>3. Found(q)
    BY <1>6, <2>1, <2>2 DEF SubmitQuestions, Found, Changing
  <2>4. QED
    BY <1>6, <2>2, <2>3, SerialStep DEF SubmitQuestions, InFlight
<1>7. ASSUME NEW r \in Requests, SubmitSnapshot(r) PROVE SInv'
  <2> DEFINE u == req[r].user
             q == [req[r] EXCEPT !.pc = "update", !.row = rows[u],
                                 !.score = scoreSubmission(req[r].quiz, answers[u]), !.at = now]
  <2>1. req[r] \in Request /\ Found(req[r])
    BY DEF TInv, TypeOK, SInv
  <2>2. q.pc = "update" /\ q.user = u /\ q.row = rows[u]
    BY <2>1 DEF Request
  <2>3. Found(q)
    BY <1>7, <2>1, <2>2 DEF SubmitSnapshot, Found, Changing
  <2>4. req' = [req EXCEPT ![r] = q]
    BY <1>7 DEF SubmitSnapshot
  <2>5. QED
    BY <1>7, <2>2, <2>3, <2>4, SerialStep DEF SubmitSnapshot, InFlight
<1>8. ASSUME NEW r \in Requests, SubmitUpdate(r) PROVE SInv'
  <2> DEFINE u == req[r].user
             q == [Idle EXCEPT !.pc = "bust", !.user = u]
  <2>1. CASE req[r].row = None
    BY <1>8, <2>1, SerialAnswer DEF SubmitUpdate
  <2>2. CASE req[r].row # None
    <3>1. q.pc = "bust" /\ q.user = u /\ InFlight(r) /\ req' = [req EXCEPT ![r] = q]
      BY <1>8, <2>2 DEF SubmitUpdate, Idle, InFlight
    <3>2. \A v \in Users \ {u} : rows'[v] = rows[v]
      BY <1>8, <2>2 DEF SubmitUpdate, TInv, TypeOK
    <3>3. QED
      BY <3>1, <3>2, SerialRowStep DEF Changing
  <2>3. QED
    BY <2>1, <2>2
<1>9. CASE RemoveContest
  <2>1. req' = req /\ \A u \in Users : rows'[u] = None
    BY <1>9 DEF RemoveContest
  <2>2. \A r \in Requests : req[r].pc \in Changing => req[r].user \in Users
    BY DEF TInv, Phase, Changing
  <2>3. QED
    BY <2>1, <2>2 DEF SInv, Found, InFlight, Changing
<1>10. CASE UNCHANGED <<rows, req>>
  BY <1>10 DEF SInv, Found, InFlight
<1>11. QED
  BY <1>1, <1>2, <1>3, <1>4, <1>5, <1>6, <1>7, <1>8, <1>9, <1>10
     DEF Next, Arrive, Serve, Refuse, Tick, EditContest, EditQuiz, vars

LEMMA SInvCorrect == Spec => [](TInv /\ DInv /\ SInv)
<1>1. Init => SInv
  BY SInvInit
<1>2. TInv /\ SInv /\ [Next]_vars => SInv'
  BY SInvStep
<1>3. QED
  BY <1>1, <1>2, TInvCorrect, DInvInit, DInvStep, PTL DEF Spec

FinalRows == \A u \in Patient : Submitted(u) /\ contest' # None => rows'[u] = rows[u]

FinalAnswers ==
    \A u \in Patient : Submitted(u) /\ contest' # None =>
        answers'[u] = Cascade(answers[u], quiz')

LEMMA FinalRowsStep == TInv /\ SInv /\ [Next]_vars => [FinalRows]_vars
<1> SUFFICES ASSUME TInv, SInv, Next PROVE FinalRows
  BY DEF FinalRows
<1>1. CASE UNCHANGED rows
  BY <1>1 DEF FinalRows
<1>2. ASSUME NEW r \in Requests, JoinInsert(r) PROVE FinalRows
  BY <1>2 DEF JoinInsert, FinalRows, Submitted, TInv, TypeOK
<1>3. ASSUME NEW r \in Requests, SubmitUpdate(r) PROVE FinalRows
  <2>1. req[r].pc = "update" /\ Found(req[r])
    BY <1>3 DEF SubmitUpdate, SInv
  <2>2. req[r].user \in Patient => ~ Submitted(req[r].user)
    BY <2>1 DEF Patient, Found, Submitted, Changing
  <2>3. \A u \in Users : u # req[r].user => rows'[u] = rows[u]
    BY <1>3 DEF SubmitUpdate, TInv, TypeOK
  <2>4. QED
    BY <2>2, <2>3 DEF Patient, FinalRows
<1>4. CASE RemoveContest
  BY <1>4 DEF RemoveContest, FinalRows
<1>5. QED
  BY <1>1, <1>2, <1>3, <1>4
     DEF Next, Arrive, Serve, Refuse, Join, SaveAnswers, Submit, JoinLookup, SaveValidate,
         SaveReplace, SubmitQuestions, SubmitSnapshot, SubmitBust, Abort, Tick,
         EditContest, EditQuiz, vars

LEMMA FinalAnswersStep == TInv /\ DInv /\ SInv /\ [Next]_vars => [FinalAnswers]_vars
<1> SUFFICES ASSUME TInv, DInv, SInv, Next PROVE FinalAnswers
  BY DEF FinalAnswers
<1>1. CASE UNCHANGED <<quiz, answers>>
  BY <1>1 DEF Patient, FinalAnswers, DInv, NoDanglingAnswers
<1>2. ASSUME NEW r \in Requests, SaveReplace(r) PROVE FinalAnswers
  <2>1. req[r].pc = "replace" /\ Found(req[r])
    BY <1>2 DEF SaveReplace, SInv
  <2>2. req[r].user \in Patient => ~ Submitted(req[r].user)
    BY <2>1 DEF Patient, Found, Submitted, Changing
  <2>3. quiz' = quiz /\ \A u \in Users : u # req[r].user => answers'[u] = answers[u]
    BY <1>2 DEF SaveReplace, TInv, TypeOK
  <2>4. QED
    BY <2>2, <2>3 DEF Patient, FinalAnswers, DInv, NoDanglingAnswers
<1>3. CASE RemoveContest
  BY <1>3 DEF RemoveContest, FinalAnswers
<1>4. ASSUME NEW z \in Quizzes, EditQuiz(z) PROVE FinalAnswers
  BY <1>4 DEF Patient, EditQuiz, FinalAnswers
<1>5. QED
  BY <1>1, <1>2, <1>3, <1>4
     DEF Next, Arrive, Serve, Refuse, Join, JoinInsert, SaveAnswers, Submit, JoinLookup,
         SaveValidate, SubmitQuestions, SubmitSnapshot, SubmitUpdate, SubmitBust, Abort,
         Tick, EditContest, vars

\* The score and the time of the submission of a patient user never change
\* again: requireInProgress is then enough of a guard.
THEOREM SubmissionFinal == Spec => SubmittedIsFinal
<1>1. Spec => []SInv /\ []TInv
  BY SInvCorrect, PTL
<1>2. Spec => [][FinalRows]_vars
  BY <1>1, FinalRowsStep, PTL DEF Spec
<1>3. QED
  BY <1>2 DEF SubmittedIsFinal, FinalRows

\* The answers of the submission of a patient user change only by what a
\* deleted question or option takes with it.
THEOREM AnswersFinal == Spec => DraftsOnlyInProgress
<1>1. Spec => []SInv /\ []TInv /\ []DInv
  BY SInvCorrect, PTL
<1>2. Spec => [][FinalAnswers]_vars
  BY <1>1, FinalAnswersStep, PTL DEF Spec
<1>3. QED
  BY <1>2 DEF DraftsOnlyInProgress, FinalAnswers
=============================================================================
