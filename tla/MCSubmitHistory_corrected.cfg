\* Points and answer keys are corrected while users save and submit.
SPECIFICATION HSpec
CONSTANTS
    None = None
    q1 = q1
    q2 = q2
    o1 = o1
    o2 = o2
    o3 = o3
    u1 = u1
    u2 = u2
    Questions = {q1, q2}
    Options = {o1, o2}
    Copies = {1, 2}
    Users = {u1, u2}
    Role <- RoleTwoNormal
    Requests = {r1, r2}
    Bodies <- BodiesCorrected
    Quizzes <- QuizzesCorrected
    Contests <- ContestsOpen
    Hasty = {}
    MaxTime = 1
SYMMETRY Renamings
INVARIANTS GradedAtAnInstant PaysOnlyTheKey
PROPERTIES ImplementsLifecycle
