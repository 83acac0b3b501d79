------------------------- MODULE OnePasswordItemMC -------------------------
(* An instance of OnePasswordItem for TLC: what does not depend on the ids. *)
EXTENDS OnePasswordItem, TLC

Symmetry == Permutations(Uuids)

\* Behaviours in which every POST is answered: what the provider made, the state
\* file knows, and nothing is adopted again.
AnsweredPosts == Init /\ [][Next /\ (pc = "post" => UNCHANGED faults)]_vars
=============================================================================
