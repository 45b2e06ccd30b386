------------------------------- MODULE Ledger -------------------------------
(***************************************************************************)
(* The Transaction table: the money a report posts, the entries made by    *)
(* hand, their approval one by one, by branch and every night, and their   *)
(* soft deletion with the report they belong to.                           *)
(*                                                                         *)
(* A report is committed first and posts its money in a later, separate    *)
(* call.  Everything else here is one statement or one database            *)
(* transaction, except the nightly job, which is two statements.           *)
(*                                                                         *)
(* Rows of an employee's wallet are in the same table; the module          *)
(* EmployeeWallets adds the actions that make them.                        *)
(***************************************************************************)
EXTENDS Naturals, FiniteSets

CONSTANTS
  Txs,        \* transaction ids the sequence may hand out (bounds the run)
  Reports,    \* report ids, of the types that post money (bounds the run)
  Wallets,    \* wallet ids (bounds the run)
  Employees,  \* employees of the company
  NoReport,   \* reportId null
  NoWallet,   \* employeeWalletId null, forWallets false
  NoOne       \* employeeId null

ASSUME NullsAssumption ==
  NoReport \notin Reports /\ NoWallet \notin Wallets /\ NoOne \notin Employees

VARIABLES
  tx,       \* the table
  report,   \* the state of each report
  posting,  \* reports whose creator has still to post their money
  job,      \* the next statement of the nightly job
  late,     \* rows linked to a report that was deleted by then (history)
  byHand    \* rows somebody deleted, or linked while deleted (history)

ledgerVars == <<tx, report, posting, job, late, byHand>>

Row == [state    : {"free", "pending", "live", "deleted"},
        report   : Reports \cup {NoReport},
        wallet   : Wallets \cup {NoWallet},
        employee : Employees \cup {NoOne},
        approved : BOOLEAN,
        approvedforMain : BOOLEAN]

FreeRow == [state |-> "free", report |-> NoReport, wallet |-> NoWallet,
            employee |-> NoOne, approved |-> FALSE, approvedforMain |-> FALSE]

\* "pending" rows are those of a transaction that has not committed.
Visible == {t \in Txs : tx[t].state \in {"live", "deleted"}}

Existing == {r \in Reports : report[r] \in {"live", "deleted"}}

LinkedTo(r) == {t \in Txs : tx[t].report = r}

forWallets(t) == tx[t].wallet # NoWallet

-----------------------------------------------------------------------------
(* Rows and their report *)

\* connect on the one-to-one relation: a row that held the report loses it.
Link(table, t, r) ==
  [u \in Txs |-> IF u = t THEN [table[u] EXCEPT !.report = r]
                 ELSE IF r # NoReport /\ table[u].report = r
                        THEN [table[u] EXCEPT !.report = NoReport]
                        ELSE table[u]]

\* What the link of row t to report r means for the two histories.
Remember(t, r) ==
  /\ late' = IF r = NoReport THEN late
             ELSE IF report[r] = "live" THEN late \ {t} ELSE late \cup {t}
  /\ byHand' = IF r # NoReport /\ tx[t].state = "deleted" THEN byHand \cup {t} ELSE byHand

NewRow(r, a) == [FreeRow EXCEPT !.state = "live", !.approved = a, !.approvedforMain = a]

Insert(t, r, a) ==
  /\ tx[t].state = "free"
  /\ tx' = Link([tx EXCEPT ![t] = NewRow(r, a)], t, r)
  /\ Remember(t, r)

\* createReport commits the report; its money is still to come.
CreateReport(r) ==
  /\ report[r] = "free"
  /\ report' = [report EXCEPT ![r] = "live"]
  /\ posting' = posting \cup {r}
  /\ UNCHANGED <<tx, job, late, byHand>>

\* The service reads the report back and posts, deleted meanwhile or not.
PostTransaction(r, t) ==
  /\ r \in posting \cap Existing
  /\ Insert(t, r, FALSE)
  /\ posting' = posting \ {r}
  /\ UNCHANGED <<report, job>>

\* The request ends before it posts: an error, a restart, or no report to read.
PostingFails(r) ==
  /\ r \in posting
  /\ posting' = posting \ {r}
  /\ UNCHANGED <<tx, report, job, late, byHand>>

\* Slip: the rows are left to whoever lists them.
DeactivateReportOnly(r) ==
  /\ r \in Existing
  /\ report' = [report EXCEPT ![r] = "deleted"]
  /\ late' = late \ LinkedTo(r)
  /\ byHand' = byHand \ LinkedTo(r)
  /\ UNCHANGED <<tx, posting, job>>

\* The report and its rows are deleted, or restored, in one transaction.
SetReport(r, state) ==
  /\ r \in Existing
  /\ report' = [report EXCEPT ![r] = state]
  /\ tx' = [t \in Txs |-> IF t \in LinkedTo(r) THEN [tx[t] EXCEPT !.state = state] ELSE tx[t]]
  /\ late' = late \ LinkedTo(r)
  /\ byHand' = byHand \ LinkedTo(r)
  /\ UNCHANGED <<posting, job>>

DeactivateReport(r) == SetReport(r, "deleted")

\* Slip: only the report is restored.
ReactivateReportOnly(r) ==
  /\ r \in Existing
  /\ report' = [report EXCEPT ![r] = "live"]
  /\ late' = late \ LinkedTo(r)
  /\ byHand' = byHand \ LinkedTo(r)
  /\ UNCHANGED <<tx, posting, job>>

ReactivateReport(r) == SetReport(r, "live")

\* The hard delete sets reportId to null and leaves the row.
DeleteReport(r) ==
  /\ r \in Existing
  /\ report' = [report EXCEPT ![r] = "gone"]
  /\ tx' = [t \in Txs |-> IF t \in LinkedTo(r) THEN [tx[t] EXCEPT !.report = NoReport] ELSE tx[t]]
  /\ UNCHANGED <<posting, job, late, byHand>>

-----------------------------------------------------------------------------
(* Entries by hand *)

\* approvedforMain starts as approved.
CreateTransaction(t, r, a) ==
  /\ r \in Existing \cup {NoReport}
  /\ Insert(t, r, a)
  /\ UNCHANGED <<report, posting, job>>

\* By id, whatever the row is; NoReport and NoOne: the field is not given.
UpdateTransaction(t, r, e, a) ==
  /\ t \in Visible
  /\ r \in Existing \cup {NoReport}
  /\ LET edited == [tx EXCEPT ![t].approved = a,
                              ![t].employee = IF e = NoOne THEN @ ELSE e]
     IN tx' = IF r = NoReport THEN edited ELSE Link(edited, t, r)
  /\ Remember(t, r)
  /\ UNCHANGED <<report, posting, job>>

DeleteTransaction(t) ==
  /\ t \in Visible
  /\ tx' = [tx EXCEPT ![t].state = "deleted"]
  /\ byHand' = byHand \cup {t}
  /\ UNCHANGED <<report, posting, job, late>>

-----------------------------------------------------------------------------
(* Approval *)

Unapproved == {t \in Txs : tx[t].state = "live" /\ ~forWallets(t) /\ ~tx[t].approved}

UnapprovedForMain ==
  {t \in Txs : tx[t].state = "live" /\ ~forWallets(t) /\ ~tx[t].approvedforMain}

Approve(S) ==
  tx' = [t \in Txs |-> IF t \in S THEN [tx[t] EXCEPT !.approved = TRUE] ELSE tx[t]]

ApproveForMain(S) ==
  tx' = [t \in Txs |-> IF t \in S THEN [tx[t] EXCEPT !.approvedforMain = TRUE] ELSE tx[t]]

\* By id: wallet rows and deleted rows too.
ApproveTransaction(t) ==
  /\ t \in Visible
  /\ Approve({t})
  /\ UNCHANGED <<report, posting, job, late, byHand>>

\* The main branch approves the whole company for the main treasury; another
\* branch approves its own rows, S, for itself.
ApproveAllBranchTransactions ==
  /\ \/ ApproveForMain(UnapprovedForMain)
     \/ \E S \in SUBSET Unapproved : Approve(S)
  /\ UNCHANGED <<report, posting, job, late, byHand>>

\* Slip: the nightly job stops after the first statement.
JobApprovesOnce ==
  /\ job = "idle"
  /\ Approve(Unapproved)
  /\ job' = "idle"
  /\ UNCHANGED <<report, posting, late, byHand>>

JobApproves ==
  /\ job = "idle"
  /\ Approve(Unapproved)
  /\ job' = "main"
  /\ UNCHANGED <<report, posting, late, byHand>>

JobApprovesForMain ==
  /\ job = "main"
  /\ ApproveForMain(UnapprovedForMain)
  /\ job' = "idle"
  /\ UNCHANGED <<report, posting, late, byHand>>

\* An error or a restart between the two statements, until the next night.
JobFails ==
  /\ job = "main"
  /\ job' = "idle"
  /\ UNCHANGED <<tx, report, posting, late, byHand>>

-----------------------------------------------------------------------------
LedgerInit ==
  /\ tx = [t \in Txs |-> FreeRow]
  /\ report = [r \in Reports |-> "free"]
  /\ posting = {}
  /\ job = "idle"
  /\ late = {}
  /\ byHand = {}

\* The employees an edit may name are those in the table.
LedgerNext(hired) ==
  \/ \E r \in Reports : \/ CreateReport(r)
                        \/ PostingFails(r)
                        \/ DeactivateReport(r)
                        \/ ReactivateReport(r)
                        \/ DeleteReport(r)
                        \/ \E t \in Txs : PostTransaction(r, t)
  \/ \E t \in Txs, r \in Reports \cup {NoReport}, a \in BOOLEAN :
       \/ CreateTransaction(t, r, a)
       \/ \E e \in hired \cup {NoOne} : UpdateTransaction(t, r, e, a)
  \/ \E t \in Txs : DeleteTransaction(t) \/ ApproveTransaction(t)
  \/ ApproveAllBranchTransactions
  \/ JobApproves
  \/ JobApprovesForMain
  \/ JobFails

-----------------------------------------------------------------------------
(* Properties *)

\* The table and the two histories have their types; a free row holds nothing.
LedgerTypeOK ==
  /\ tx \in [Txs -> Row]
  /\ \A t \in Txs : tx[t].state = "free" => tx[t] = FreeRow
  /\ report \in [Reports -> {"free", "live", "deleted", "gone"}]
  /\ posting \subseteq Reports
  /\ job \in {"idle", "main"}
  /\ late \subseteq Txs
  /\ byHand \subseteq Txs

\* Money that counts belongs to a report that counts: deactivation, hard
\* deletion and restoration, in any order with edits and relinking, leave no live
\* row on a report that is not live.  The one exception is a row that reached the
\* report after it had been deactivated (the service posts in a later call and
\* asks nothing).
CountedMoneyHasItsReport ==
  \A t \in Txs \ late :
    tx[t].state = "live" /\ tx[t].report # NoReport => report[tx[t].report] = "live"

\* A live report has its money: a row of it is deleted only when somebody
\* deleted that very row, or linked a deleted one, since the report was last
\* deactivated or restored.
LiveReportHasItsMoney ==
  \A t \in Txs \ byHand :
    tx[t].report # NoReport /\ report[tx[t].report] = "live" => tx[t].state = "live"

\* Two rows never claim the money of one report.
OneRowPerReport ==
  \A t, u \in Txs : tx[t].report = tx[u].report /\ tx[t].report # NoReport => t = u

\* The money of employees' wallets never reaches the main treasury, by whatever
\* of the five ways to approve.
WalletMoneyNeverMain == \A t \in Txs : forWallets(t) => ~tx[t].approvedforMain

\* Whatever is entered or posted is approved for its branch and for the main
\* treasury in the end, though nights fail between the two statements and edits
\* take approvals back; deleted rows and wallet rows are left.
EveryEntryApproved ==
  \A t \in Txs :
    /\ t \in Unapproved ~> t \notin Unapproved
    /\ t \in UnapprovedForMain ~> t \notin UnapprovedForMain

=============================================================================
