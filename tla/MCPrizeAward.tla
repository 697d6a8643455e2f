----------------------------- MODULE MCPrizeAward -----------------------------
(***************************************************************************)
(* Small instances of PrizeAward for TLC.                                  *)
(***************************************************************************)
EXTENDS PrizeAward, TLC

ShortContest == [start |-> 0, end |-> 1, vip |-> FALSE]

ContestsFixed == {ShortContest}

\* A contest that is moved before it starts.
ContestsMoved == {[start |-> 1, end |-> 2, vip |-> FALSE], [start |-> 2, end |-> 3, vip |-> FALSE]}

\* Ids and slots are interchangeable.
Renamings == Permutations(PrizeIds) \cup Permutations(Workers) \cup Permutations(Users)
=============================================================================
