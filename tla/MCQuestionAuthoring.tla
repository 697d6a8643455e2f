------------------------- MODULE MCQuestionAuthoring -------------------------
(***************************************************************************)
(* Small instances of QuestionAuthoring for TLC.                           *)
(***************************************************************************)
EXTENDS QuestionAuthoring, TLC

\* Ids and request slots are interchangeable.
Renamings == Permutations(OptionIds) \cup Permutations(Requests)
=============================================================================
