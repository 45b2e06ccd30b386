--------------------------- MODULE ReportRegistry ---------------------------
(***************************************************************************)
(* What the report endpoints promise, seen from the committed rows only:   *)
(* a report is created once, holds a fixed set of orders of one kind, is   *)
(* hidden (soft-deleted), shown again, or removed, each in one step.  A    *)
(* CLIENT report may be created only over orders that no visible report of *)
(* the same kind holds, except one an administrator has brought back.      *)
(*                                                                         *)
(* ReportFlags, which follows the code statement by statement, implements  *)
(* this specification.                                                     *)
(***************************************************************************)
CONSTANTS
  Orders,       \* order ids
  Reports,      \* report ids
  ClientKinds,  \* secondary types of a CLIENT report: DELIVERED, RETURNED
  BranchKinds,  \* type and level of a BRANCH report
  NoKind        \* the kind of an id that was never used

VARIABLES
  rows,     \* [Reports -> row], the committed reports
  revived   \* reports that were hidden once and shown again (history)

regVars == <<rows, revived>>

Row == [status : {"free", "live", "deleted", "gone"},
        kind   : ClientKinds \cup BranchKinds \cup {NoKind},
        orders : SUBSET Orders]

FreeRow == [status |-> "free", kind |-> NoKind, orders |-> {}]

\* A visible report of kind k that already holds one of the orders S and has
\* been visible ever since it was created.
Holds(r, k, S) ==
  /\ rows[r].status = "live"
  /\ rows[r].kind = k
  /\ rows[r].orders \cap S # {}
  /\ r \notin revived

Init ==
  /\ rows = [r \in Reports |-> FreeRow]
  /\ revived = {}

Create(r, k, S) ==
  /\ rows[r] = FreeRow
  /\ S # {}
  /\ k \in ClientKinds => \A s \in Reports : ~Holds(s, k, S)
  /\ rows' = [rows EXCEPT ![r] = [status |-> "live", kind |-> k, orders |-> S]]
  /\ UNCHANGED revived

Hide(r) ==
  /\ rows[r].status = "live"
  /\ rows' = [rows EXCEPT ![r].status = "deleted"]
  /\ UNCHANGED revived

Show(r) ==
  /\ rows[r].status = "deleted"
  /\ rows' = [rows EXCEPT ![r].status = "live"]
  /\ revived' = revived \cup {r}

Remove(r) ==
  /\ rows[r].status \in {"live", "deleted"}
  /\ rows' = [rows EXCEPT ![r].status = "gone"]
  /\ UNCHANGED revived

Next ==
  \E r \in Reports :
    \/ \E k \in ClientKinds \cup BranchKinds, S \in SUBSET Orders : Create(r, k, S)
    \/ Hide(r)
    \/ Show(r)
    \/ Remove(r)

Spec == Init /\ [][Next]_regVars
=============================================================================
