--------------------------- MODULE MCRequestGate ---------------------------
(* Small instances of RequestGate. *)
EXTENDS RequestGate, TLC

\* Fewer points, and a policy that is switched off.
PostsTuned == {[points |-> 1, enabled |-> None], [points |-> None, enabled |-> FALSE]}

Renamings == Permutations(Processes) \cup Permutations(Requests) \cup Permutations(Seeded)
=============================================================================
