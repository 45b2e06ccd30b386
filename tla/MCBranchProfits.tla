-------------------------- MODULE MCBranchProfits --------------------------
(* Instances of BranchProfits for TLC: see the .cfg file and the README. *)
EXTENDS BranchProfits, TLC

CONSTANTS main, b1, kid

\* kid is a child of b1.
MCParentOf == [b \in Branches |-> IF b = kid THEN b1 ELSE NoBranch]

\* Prices that tell every sum of them apart.
MCReceiving == main :> 40 @@ b1 :> 50 @@ kid :> 60

MCForwarded == main :> 300 @@ b1 :> 400 @@ kid :> 500

MCDeal == [agent |-> 1000, main |-> 2000, forwarded |-> 4000, receiving |-> 8000]
=============================================================================
