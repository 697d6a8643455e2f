\* A user who does not wait for answers, one who does, an edited quiz and an edited contest.
SPECIFICATION Spec
CONSTANTS
    None = None
    q1 = q1
    q2 = q2
    o1 = o1
    o2 = o2
    o3 = o3
    u1 = u1
    u2 = u2
    Questions = {q1}
    Options = {o1, o2, o3}
    Copies = {1}
    Users = {u1, u2}
    Role <- RoleNormalAndVip
    Requests = {r1, r2}
    Bodies <- BodiesOne
    Quizzes <- QuizzesEdited
    Contests <- ContestsEdited
    Hasty = {u1}
    MaxTime = 2
SYMMETRY Slots
INVARIANTS TypeOK RowsAreWhole JoinedThroughTheGate NoDanglingAnswers
PROPERTIES RowsOnlyAdvance SubmittedIsFinal DraftsOnlyInProgress
