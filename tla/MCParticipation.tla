--------------------------- MODULE MCParticipation ---------------------------
(***************************************************************************)
(* Small instances of Participation for TLC.                               *)
(***************************************************************************)
EXTENDS Participation, TLC

CONSTANTS q1, q2, o1, o2, o3, u1, u2

RoleOneNormal == u1 :> "NORMAL"

RoleNormalAndVip == u1 :> "NORMAL" @@ u2 :> "VIP"

Question(points, options, correct) ==
    q1 :> [points |-> points, options |-> options, correct |-> correct]

\* An answer key that an administrator corrects, and an option that is removed.
QuizzesEdited == {Question(1, {o1, o2, o3}, {o1, o2}), Question(2, {o1, o3}, {o1})}

QuizzesFrozen == {Question(1, {o1, o2}, {o1})}

BodiesOne == {q1 :> {<<o1, 1>>, <<o2, 1>>}}

BodiesTwo == {q1 :> {<<o1, 1>>}, q1 :> {<<o1, 1>>, <<o2, 1>>}}

OpenContest == [start |-> 0, end |-> 2, vip |-> FALSE]

ContestsOpen == {OpenContest}

\* The window is moved and the access level raised.
ContestsEdited == {[start |-> 1, end |-> 1, vip |-> FALSE], [start |-> 0, end |-> 2, vip |-> TRUE]}

Slots == Permutations(Requests)
=============================================================================
