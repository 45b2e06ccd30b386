-------------------------- MODULE MCRepositoryRoute --------------------------
(* RepositoryRoute on a main branch and a branch of the capital with a child. *)
EXTENDS RepositoryRoute, TLC

MCBranches == {"main", "west", "kid"}
MCParent == [b \in MCBranches |-> IF b = "kid" THEN "west" ELSE "nil"]
MCGovernorate == [b \in MCBranches |-> IF b = "kid" THEN "NINAWA" ELSE "BAGHDAD"]

Symmetry == Permutations(Requests) \cup Permutations(Agents)
=============================================================================
