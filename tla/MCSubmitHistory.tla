--------------------------- MODULE MCSubmitHistory ---------------------------
(***************************************************************************)
(* Small instances of SubmitHistory for TLC.                               *)
(***************************************************************************)
EXTENDS SubmitHistory, TLC

CONSTANTS q1, q2, o1, o2, o3, u1, u2

RoleTwoNormal == u1 :> "NORMAL" @@ u2 :> "NORMAL"

Row1(points, correct) == [points |-> points, options |-> {o1, o2}, correct |-> correct]

\* Two questions; the points of one and the key of the other are corrected.
QuizzesCorrected == {
    q1 :> Row1(1, {o1}) @@ q2 :> Row1(2, {o1}),
    q1 :> Row1(1, {o2}) @@ q2 :> Row1(2, {o1}),
    q1 :> Row1(1, {o1, o2}) @@ q2 :> Row1(4, {o1})}

\* One body names an option twice.
BodiesCorrected == {q1 :> {<<o2, 1>>} @@ q2 :> {<<o1, 1>>}, q1 :> {<<o1, 1>>, <<o1, 2>>}}

Renamings == Permutations({u1, u2}) \cup Permutations(Requests)

ContestsOpen == {[start |-> 0, end |-> 1, vip |-> FALSE]}
=============================================================================
