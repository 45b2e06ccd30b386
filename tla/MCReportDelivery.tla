-------------------------- MODULE MCReportDelivery --------------------------
(* Instances of ReportDelivery for TLC: see the .cfg files and the README. *)
EXTENDS ReportDelivery, TLC

\* Calls are interchangeable, and so are the company's own agents.
Symmetry == Permutations(Calls) \cup Permutations(Insiders)
=============================================================================
