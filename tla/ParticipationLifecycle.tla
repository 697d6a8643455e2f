----------------------- MODULE ParticipationLifecycle -----------------------
(***************************************************************************)
(* What a participation promises to a user, as if every request were one   *)
(* step: join once, change the draft while it is in progress, submit once  *)
(* and be graded on exactly the answers that are stored, by one of the     *)
(* quizzes that points and keys are corrected between.  The deletion of    *)
(* the contest takes everything with it.                                   *)
(***************************************************************************)
EXTENDS Scoring

CONSTANTS Users, Bodies, Quizzes

VARIABLES
    stage,    \* "none", "joined" or "submitted", per user
    score,    \* the score, None until submitted
    answers   \* the stored answers

lvars == <<stage, score, answers>>

LInit ==
    /\ stage = [u \in Users |-> "none"]
    /\ score = [u \in Users |-> None]
    /\ answers = [u \in Users |-> NoAnswers]

LJoin(u) ==
    /\ stage[u] = "none"
    /\ stage' = [stage EXCEPT ![u] = "joined"]
    /\ UNCHANGED <<score, answers>>

\* A posted question replaces its stored answer, the others keep theirs.
LSave(u, b) ==
    /\ stage[u] = "joined"
    /\ answers' = [answers EXCEPT ![u] =
           [q \in Questions |-> IF q \in DOMAIN b THEN b[q] ELSE @[q]]]
    /\ UNCHANGED <<stage, score>>

LSubmit(u) ==
    /\ stage[u] = "joined"
    /\ stage' = [stage EXCEPT ![u] = "submitted"]
    /\ \E z \in Quizzes : score' = [score EXCEPT ![u] = scoreSubmission(z, answers[u])]
    /\ UNCHANGED answers

LRemoveContest ==
    /\ stage' = [u \in Users |-> "none"]
    /\ score' = [u \in Users |-> None]
    /\ answers' = [u \in Users |-> NoAnswers]

LNext ==
    \/ \E u \in Users :
          \/ LJoin(u)
          \/ \E b \in Bodies : LSave(u, b)
          \/ LSubmit(u)
    \/ LRemoveContest

LSpec == LInit /\ [][LNext]_lvars
=============================================================================
