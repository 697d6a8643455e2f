---------------------------- MODULE SubmitHistory ----------------------------
(***************************************************************************)
(* Participation with a history of every submit: the scores that the quiz  *)
(* and the stored answers of the user would have earned at some instant    *)
(* since the request began.  The history restricts no step.                *)
(***************************************************************************)
EXTENDS Participation

VARIABLE instants

hvars == <<vars, instants>>

Submitting(r) == req[r].pc \in {"questions", "snapshot", "update"}

Earned(r) == scoreSubmission(quiz, answers[req[r].user])

HInit == Init /\ instants = [r \in Requests |-> {}]

HNext ==
    /\ Next
    /\ instants' = [r \in Requests |->
           IF Submitting(r)'
           THEN (IF Submitting(r) THEN instants[r] ELSE {}) \cup {Earned(r)'}
           ELSE {}]

HSpec == HInit /\ [][HNext]_hvars

\* The submit is transactional: the score it writes for a user who waits for
\* each answer is what the quiz and the answers were worth together at one
\* instant while it was being served.  The code reads the quiz before the
\* transaction that reads the answers.
GradedAtAnInstant ==
    \A r \in Requests :
        req[r].pc = "update" /\ req[r].user \in Patient /\ req[r].row # None /\ contest # None =>
            req[r].score \in instants[r]

\* An option posted twice is stored twice, and the comparison goes by length:
\* even so a question pays only for the options of its key, each chosen once.
PaysOnlyTheKey ==
    \A u \in Users, q \in Questions :
        quiz[q] # None /\ isSameSet(quiz[q].correct, answers[u][q]) =>
            /\ {p[1] : p \in answers[u][q]} = quiz[q].correct
            /\ \A p, o \in answers[u][q] : p[1] = o[1] => p = o
=============================================================================
