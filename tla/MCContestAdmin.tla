--------------------------- MODULE MCContestAdmin ---------------------------
(* Small instances of ContestAdmin. *)
EXTENDS ContestAdmin

\* The list of the contests to come that are open to all.
MCLists == {[status |-> "UPCOMING", vip |-> FALSE]}

\* Either end of the window, both, or neither.
MCPosts ==
    {[start |-> s, end |-> e, vip |-> v] :
        <<s, e, v>> \in {<<1, None, None>>, <<None, 1, None>>, <<0, 1, None>>,
                         <<1, 2, FALSE>>, <<None, None, TRUE>>}}
=============================================================================
