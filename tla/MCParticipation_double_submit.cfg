\* Two requests of one user in flight: does the second submit change the first?
SPECIFICATION Spec
CONSTANTS
    None = None
    q1 = q1
    q2 = q2
    o1 = o1
    o2 = o2
    o3 = o3
    u1 = u1
    u2 = u2
    Questions = {q1}
    Options = {o1, o2, o3}
    Copies = {1}
    Users = {u1}
    Role <- RoleOneNormal
    Requests = {r1, r2}
    Bodies <- BodiesTwo
    Quizzes <- QuizzesFrozen
    Contests <- ContestsOpen
    Hasty = {u1}
    MaxTime = 1
SYMMETRY Slots
PROPERTIES SecondSubmitIsRefused
