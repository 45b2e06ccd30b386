-------------------------- MODULE MCEmployeeWallets --------------------------
(* Instances of EmployeeWallets for TLC: see the .cfg files and the README. *)
EXTENDS EmployeeWallets, TLC

\* Only runs without liveness properties use this.
Symmetry == Permutations(Employees) \cup Permutations(Requests) \cup Permutations(Txs)
=============================================================================
