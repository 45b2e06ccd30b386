--------------------------- MODULE MCOtherReports ---------------------------
(* Instances of OtherReports for TLC: see the .cfg file and the README. *)
EXTENDS OtherReports, TLC

\* Only runs without liveness properties use this.
Symmetry == Permutations(Orders) \cup Permutations(Reports) \cup Permutations(Requests)
=============================================================================
