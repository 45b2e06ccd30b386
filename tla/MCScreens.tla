------------------------------ MODULE MCScreens ------------------------------
(* Instances of ListCaches and of Treasury for TLC: they share no state, so a  *)
(* behaviour is of the one or of the other.  See Screens.cfg and the README.   *)
EXTENDS ListCaches, Treasury, TLC

VARIABLE scene   \* the module the behaviour is of; the other one stands still

SceneInit ==
  /\ Init /\ TreasuryInit
  /\ \/ /\ scene = "lists"
        /\ place = [order |-> MainBranch, client |-> MainBranch, agent |-> MainBranch,
                    reported |-> MainBranch]
     \/ /\ scene = "treasury"
        \* Of the agents, three of the six cases.
        /\ place.agent = Null <=> place.reported # MainBranch
        /\ table = "branch" /\ row = None

SceneNext ==
  /\ UNCHANGED scene
  /\ \/ scene = "lists" /\ Next /\ UNCHANGED treasuryVars
     \/ scene = "treasury" /\ TreasuryNext /\ UNCHANGED vars

SceneSpec == SceneInit /\ [][SceneNext]_<<scene, vars, treasuryVars>>

\* Requests are interchangeable.
Symmetry == Permutations(Requests)
=============================================================================
