---------------------------- MODULE MCReportFlags ----------------------------
(* Instances of ReportFlags for TLC: see the .cfg files and the README. *)
EXTENDS ReportFlags, TLC

\* Report ids and requests are interchangeable.  Only runs without liveness
\* properties use this.
Symmetry == Permutations(Reports) \cup Permutations(Requests)
=============================================================================
