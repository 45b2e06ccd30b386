--------------------------- MODULE MCOrderUpdates ---------------------------
(* Instances of OrderUpdates for TLC: see the .cfg files and the README. *)
EXTENDS OrderUpdates, TLC

\* A return, a delivery with or without an amount or an agent, an amount (zero
\* too) by itself, a new place by itself.
MCBodies ==
  LET of(statuses, paid, agent, recost) ==
        [status : statuses, paid : paid, agent : {agent}, recost : {recost}]
  IN of({"RETURNED"}, {None}, FALSE, FALSE)
     \cup of({"DELIVERED"}, Amounts \cup {None}, FALSE, FALSE)
     \cup of({None}, Amounts \cup {0}, FALSE, FALSE)
     \cup of({None}, {None}, FALSE, TRUE)
     \cup of({"DELIVERED"}, {None}, TRUE, FALSE)

\* Only runs without liveness properties use this.
Symmetry == Permutations(Orders) \cup Permutations(Reports) \cup Permutations(Requests)
=============================================================================
