------------------------------- MODULE Scoring -------------------------------
(***************************************************************************)
(* The quiz of a contest, the answers stored for a participation, and the  *)
(* score the server computes from the two.                                 *)
(*                                                                         *)
(* A quiz maps each question to its row, or to None once it is deleted.    *)
(* The answer to a question is a set of rows of participant_answer_options.*)
(* A row is an option and a copy number: nothing in the schema makes       *)
(* (answer_id, option_id) unique, so an answer may hold an option twice.   *)
(***************************************************************************)
EXTENDS Naturals, FiniteSets, Functions

CONSTANTS
    Questions,  \* the questions ever created in the contest
    Options,    \* the option slots of a question
    Copies,     \* how often one option may appear in an answer
    None        \* the absent value

Picks == Options \X Copies

Answers == [Questions -> SUBSET Picks]

NoAnswers == [q \in Questions |-> {}]

QuestionRow == [points : Nat, options : SUBSET Options, correct : SUBSET Options]

Quiz == [Questions -> QuestionRow \cup {None}]

NoQuiz == [q \in Questions |-> None]

\* Mutant: same length, and every element of the second list is in the first.
isSameSetSwapped(correct, picks) ==
    /\ Cardinality(correct) = Cardinality(picks)
    /\ \A p \in picks : p[1] \in correct

\* Same length, and every element of the first list is in the second.
isSameSet(correct, picks) ==
    /\ Cardinality(correct) = Cardinality(picks)
    /\ \A o \in correct : \E p \in picks : p[1] = o

\* A question without an answer is graded with an empty selection.
buildGradables(quiz, answers) ==
    [q \in {p \in Questions : quiz[p] # None} |->
        [points |-> quiz[q].points, correct |-> quiz[q].correct, selected |-> answers[q]]]

\* A question earns its points or nothing.
scoreSubmission(quiz, answers) ==
    LET g == buildGradables(quiz, answers) IN
    SumFunction([q \in DOMAIN g |-> IF isSameSet(g[q].correct, g[q].selected) THEN g[q].points ELSE 0])

\* What the foreign keys leave of the answers once the quiz holds only
\* the questions and options of z.
Cascade(answers, z) ==
    [q \in Questions |->
        IF z[q] = None THEN {} ELSE {p \in answers[q] : p[1] \in z[q].options}]
=============================================================================
