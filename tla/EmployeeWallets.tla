--------------------------- MODULE EmployeeWallets ---------------------------
(***************************************************************************)
(* Employees' wallets over the Ledger: managers create, reassign and       *)
(* delete them, their employees post to them.                              *)
(*                                                                         *)
(* An employee's posting is one SERIALIZABLE transaction that reads the    *)
(* wallet and inserts a row.  A manager's request reads the wallet with    *)
(* its number of rows and then sends one UPDATE or DELETE, both in READ    *)
(* COMMITTED, so the database does not order them against the posting:     *)
(* what is left is the foreign key.  Inserting the row takes a key-share   *)
(* lock on the wallet and on the employee until the commit; a DELETE waits *)
(* for that lock, an UPDATE that leaves the key alone does not.            *)
(*                                                                         *)
(* Not modelled: branches and companies (all of it is inside one), and the *)
(* balances total, paid and pending, which nothing writes.                 *)
(***************************************************************************)
EXTENDS Ledger

CONSTANTS
  Requests   \* requests about wallets in flight at once (bounds the run)

VARIABLES
  wallet,  \* the table EmployeeWallet
  staff,   \* the table Employee
  req,     \* what each request has read and what it does next
  stale    \* requests whose wallet was written since they read it

walletVars == <<wallet, staff, req, stale>>
vars == <<tx, report, posting, job, late, byHand, wallet, staff, req, stale>>

Owners == Employees \cup {NoOne}

Wallet == [state : {"free", "live", "gone"}, employee : Owners]

\* who: the caller of a posting, or the employee a manager assigns.
Request == [step   : {"idle", "insert", "commit", "update", "delete"},
            wallet : Wallets \cup {NoWallet},
            who    : Owners,
            read   : Owners,
            row    : SUBSET Txs]

Idle == [step |-> "idle", wallet |-> NoWallet, who |-> NoOne, read |-> NoOne, row |-> {}]

Active == {e \in Employees : staff[e] = "active"}
Hired == {e \in Employees : staff[e] # "gone"}

\* The rows of a wallet that a new statement sees, deleted ones included.
History(w) == {t \in Visible : tx[t].wallet = w}

\* Uncommitted rows keep their wallet and their employee in place.
PendingOn(w) == {t \in Txs : tx[t].state = "pending" /\ tx[t].wallet = w}
PendingBy(e) == {t \in Txs : tx[t].state = "pending" /\ tx[t].employee = e}

Done(p) == req' = [req EXCEPT ![p] = Idle] /\ stale' = stale \ {p}

\* Slip: updatedAt is not written, so nobody's read goes out of date.
WriteUnseen(p, w, row) ==
  /\ wallet' = [wallet EXCEPT ![w] = row]
  /\ stale' = stale \ {p}

\* A write moves updatedAt on: what others read of the wallet is out of date.
Write(p, w, row) ==
  /\ wallet' = [wallet EXCEPT ![w] = row]
  /\ stale' = (stale \cup {q \in Requests : req[q].wallet = w}) \ {p}

-----------------------------------------------------------------------------
(* createOwnTransaction *)

\* The transaction's snapshot: the wallet is the caller's.
CreateOwnTransaction(p, w, e) ==
  /\ req[p].step = "idle"
  /\ wallet[w] = [state |-> "live", employee |-> e]
  /\ e \in Active
  /\ req' = [req EXCEPT ![p] = [Idle EXCEPT !.step = "insert", !.wallet = w, !.who = e]]
  /\ UNCHANGED <<tx, report, posting, job, late, byHand, wallet, staff, stale>>

\* The foreign keys ask only that wallet and employee exist.
InsertOwnTransaction(p, t) ==
  /\ req[p].step = "insert"
  /\ wallet[req[p].wallet].state = "live"
  /\ req[p].who \in Hired
  /\ tx[t].state = "free"
  /\ tx' = [tx EXCEPT ![t] = [FreeRow EXCEPT !.state = "pending", !.wallet = req[p].wallet,
                                             !.employee = req[p].who]]
  /\ req' = [req EXCEPT ![p].step = "commit", ![p].row = {t}]
  /\ UNCHANGED <<report, posting, job, late, byHand, wallet, staff, stale>>

CommitOwnTransaction(p) ==
  /\ req[p].step = "commit"
  /\ tx' = [t \in Txs |-> IF t \in req[p].row THEN [tx[t] EXCEPT !.state = "live"] ELSE tx[t]]
  /\ Done(p)
  /\ UNCHANGED <<report, posting, job, late, byHand, wallet, staff>>

-----------------------------------------------------------------------------
(* Managers *)

\* validateAssignment, then the insert.
CreateWallet(w, e) ==
  /\ wallet[w].state = "free"
  /\ e \in Active \cup {NoOne}
  /\ wallet' = [wallet EXCEPT ![w] = [state |-> "live", employee |-> e]]
  /\ UNCHANGED <<tx, report, posting, job, late, byHand, staff, req, stale>>

\* getWallet and, for another employee than the one read, no history and
\* validateAssignment.
UpdateWallet(p, w, e) ==
  /\ req[p].step = "idle"
  /\ wallet[w].state = "live"
  /\ e # wallet[w].employee => History(w) = {} /\ e \in Active \cup {NoOne}
  /\ req' = [req EXCEPT ![p] = [Idle EXCEPT !.step = "update", !.wallet = w, !.who = e,
                                            !.read = wallet[w].employee]]
  /\ UNCHANGED <<tx, report, posting, job, late, byHand, wallet, staff, stale>>

Reassigning(p) == req[p].who # req[p].read

\* Slip: the history that was read is not asked for again.
MatchesVersion(p) == wallet[req[p].wallet].state = "live" /\ p \notin stale

\* where: id, updatedAt, and no history when the employee changes.
Matches(p) ==
  /\ wallet[req[p].wallet].state = "live"
  /\ p \notin stale
  /\ Reassigning(p) => History(req[p].wallet) = {}

WriteUpdate(p) ==
  /\ req[p].step = "update"
  /\ Matches(p)
  /\ req[p].who \in Hired \cup {NoOne}
  /\ Write(p, req[p].wallet, [state |-> "live", employee |-> req[p].who])
  /\ req' = [req EXCEPT ![p] = Idle]
  /\ UNCHANGED <<tx, report, posting, job, late, byHand, staff>>

DeleteWallet(p, w) ==
  /\ req[p].step = "idle"
  /\ wallet[w].state = "live"
  /\ History(w) = {}
  /\ req' = [req EXCEPT ![p] = [Idle EXCEPT !.step = "delete", !.wallet = w]]
  /\ UNCHANGED <<tx, report, posting, job, late, byHand, wallet, staff, stale>>

\* Slip: the relation does not restrict the delete.
DeletableUnrestricted(p) ==
  /\ wallet[req[p].wallet].state = "live"
  /\ p \notin stale
  /\ History(req[p].wallet) = {}

\* The row lock of a posting is waited for; then its row restricts the delete.
Deletable(p) ==
  /\ wallet[req[p].wallet].state = "live"
  /\ p \notin stale
  /\ History(req[p].wallet) = {}
  /\ PendingOn(req[p].wallet) = {}

WriteDelete(p) ==
  /\ req[p].step = "delete"
  /\ Deletable(p)
  /\ Write(p, req[p].wallet, [state |-> "gone", employee |-> NoOne])
  /\ req' = [req EXCEPT ![p] = Idle]
  /\ UNCHANGED <<tx, report, posting, job, late, byHand, staff>>

\* 404, 409, a serialization failure or a lost connection: nothing is left.
Refuse(p) ==
  /\ req[p].step # "idle"
  /\ tx' = [t \in Txs |-> IF t \in req[p].row THEN FreeRow ELSE tx[t]]
  /\ Done(p)
  /\ UNCHANGED <<report, posting, job, late, byHand, wallet, staff>>

-----------------------------------------------------------------------------
(* Employees *)

\* deactivateEmployee and reactivateEmployee.
SetStaff(e, from, to) ==
  /\ staff[e] = from
  /\ staff' = [staff EXCEPT ![e] = to]
  /\ UNCHANGED <<tx, report, posting, job, late, byHand, wallet, req, stale>>

\* The hard delete sets employeeId to null and leaves updatedAt alone.
DeleteEmployee(e) ==
  /\ e \in Hired
  /\ PendingBy(e) = {}
  /\ staff' = [staff EXCEPT ![e] = "gone"]
  /\ wallet' = [w \in Wallets |-> IF wallet[w].employee = e
                                    THEN [wallet[w] EXCEPT !.employee = NoOne] ELSE wallet[w]]
  /\ tx' = [t \in Txs |-> IF tx[t].employee = e
                            THEN [tx[t] EXCEPT !.employee = NoOne] ELSE tx[t]]
  /\ UNCHANGED <<report, posting, job, late, byHand, req, stale>>

-----------------------------------------------------------------------------
Init ==
  /\ LedgerInit
  /\ wallet = [w \in Wallets |-> [state |-> "free", employee |-> NoOne]]
  /\ staff = [e \in Employees |-> "active"]
  /\ req = [p \in Requests |-> Idle]
  /\ stale = {}

WalletNext ==
  \/ \E p \in Requests :
       \/ \E w \in Wallets : \/ \E e \in Employees : CreateOwnTransaction(p, w, e)
                             \/ \E e \in Owners : UpdateWallet(p, w, e)
                             \/ DeleteWallet(p, w)
       \/ \E t \in Txs : InsertOwnTransaction(p, t)
       \/ CommitOwnTransaction(p)
       \/ WriteUpdate(p)
       \/ WriteDelete(p)
       \/ Refuse(p)
  \/ \E w \in Wallets, e \in Owners : CreateWallet(w, e)
  \/ \E e \in Employees : \/ SetStaff(e, "active", "deleted")
                          \/ SetStaff(e, "deleted", "active")
                          \/ DeleteEmployee(e)

Next ==
  \/ LedgerNext(Hired) /\ UNCHANGED walletVars
  \/ WalletNext

Spec == Init /\ [][Next]_vars

\* Every night comes, and not every night fails between its two statements.
FairSpec ==
  /\ Spec
  /\ WF_vars(JobApproves /\ UNCHANGED walletVars)
  /\ SF_vars(JobApprovesForMain /\ UNCHANGED walletVars)

-----------------------------------------------------------------------------
(* Properties *)

\* Every variable has its type, and a refused posting leaves nothing in its row.
TypeOK ==
  /\ LedgerTypeOK
  /\ wallet \in [Wallets -> Wallet]
  /\ staff \in [Employees -> {"active", "deleted", "gone"}]
  /\ req \in [Requests -> Request]
  /\ stale \subseteq Requests

\* No row outlives its wallet: a wallet somebody posts to is not deleted under
\* the posting, though the two statements do not see each other.
WalletHistoryKept ==
  \A t \in Txs : tx[t].state # "free" /\ forWallets(t) => wallet[tx[t].wallet].state = "live"

\* A wallet with committed rows is never handed to another employee, nor taken
\* from its employee unless that employee's row is deleted, however the
\* manager's read, the posting and other managers interleave.
AssignmentFollowsHistory ==
  [][\A w \in Wallets :
       History(w) # {} =>
         \/ wallet'[w] = wallet[w]
         \/ wallet'[w].employee = NoOne /\ staff'[wallet[w].employee] = "gone"]_vars

\* A manager's assignment replaces the one that manager read, unless the
\* database itself had cleared it.
NoLostAssignment ==
  [][\A p \in Requests :
       LET w == req[p].wallet
       IN req[p].step = "update" /\ req'[p].step = "idle" /\ wallet' # wallet =>
            wallet[w].employee \in {req[p].read, NoOne}]_vars

=============================================================================
