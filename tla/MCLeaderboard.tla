--------------------------- MODULE MCLeaderboard ---------------------------
(* Small instances of Leaderboard. *)
EXTENDS Leaderboard

CONSTANTS u1, u2

\* A tie in score is possible, and a second submit that scores otherwise.
ScoresTwo == u1 :> {0, 1} @@ u2 :> {1}

\* Two pages of one row.
PagesOfOne == {[page |-> 1, perPage |-> 1], [page |-> 2, perPage |-> 1]}
=============================================================================
