------------------------------ MODULE Treasury ------------------------------
(***************************************************************************)
(* The screens of the treasury: what a manager is shown of the rows of     *)
(* Transaction and of the orders whose reports they settle.                *)
(*                                                                         *)
(* One order, confirmed and delivered, the reports about it that touch      *)
(* money, each with its row, and one row entered by hand.  A row is approved for its branch and for  *)
(* the main branch apart; a screen of the main branch asks for the second, *)
(* a screen of another branch for the first.  How a report and its row can *)
(* come apart is in Ledger; here they are posted together.  Amounts are    *)
(* left out: a figure is the set of what it sums.  The rows of wallets,    *)
(* on no screen here, and dates are left out too.                          *)
(***************************************************************************)
EXTENDS Naturals, FiniteSets

CONSTANTS
  BranchIds,
  MainBranch,   \* the branch with the main repository
  Null,
  MaxMoves      \* requests and statements of the job (bounds the run)

ASSUME TreasuryAssumption ==
  /\ MainBranch \in BranchIds /\ Null \notin BranchIds
  /\ MaxMoves \in Nat

Kinds == {"client", "agent", "received", "forwarded"}
Entries == Kinds \cup {"hand"}

ASSUME NullAssumption == Null \notin Kinds

\* A report takes the orders it is told, whoever their agent is.
Places ==
  [order : BranchIds, client : BranchIds, agent : BranchIds \cup {Null}, reported : BranchIds]

VARIABLES
  place,   \* the branches of the order, of its client, of its delivery agent (Null: it
           \* has none), and of the agent whom an agents' report on it is on
  report,  \* the reports about the order
  money,   \* the rows
  night,   \* the next statement of the nightly job
  moves    \* requests and statements of the job so far

treasuryVars == <<place, report, money, night, moves>>

Users == [role : {"COMPANY_MANAGER", "BRANCH_MANAGER"}, branch : BranchIds, showTreatury : BOOLEAN]

mainRepository(u) == u.branch = MainBranch

-----------------------------------------------------------------------------
(* Whose figures a user is shown: branch, and whether as the main branch *)

\* applyBranchScope
AtMain(u) == u.role = "COMPANY_MANAGER" \/ mainRepository(u)

Refused(u) == AtMain(u) /\ ~u.showTreatury

\* target: the branch a manager asks for, or Null.
Picks(u, target) == u.role = "COMPANY_MANAGER" /\ mainRepository(u) /\ target # Null

HomeBranch(u) == IF u.role = "COMPANY_MANAGER" THEN MainBranch ELSE u.branch

View(u, target) ==
  IF Picks(u, target) THEN [branch |-> target, main |-> FALSE]
  ELSE [branch |-> HomeBranch(u), main |-> AtMain(u)]

\* getProfitOrders: whoever asks for a branch is not at the main branch, but only
\* the company's manager gets the branch he asks for.
OrdersView(u, target) ==
  IF Picks(u, target) THEN [branch |-> target, main |-> FALSE]
  ELSE [branch |-> HomeBranch(u), main |-> AtMain(u) /\ target = Null]

\* getAllDailyProfits
DailyBranch(u, target) ==
  CASE u.role = "BRANCH_MANAGER" -> u.branch
    [] Picks(u, target) -> target
    [] OTHER -> MainBranch

Views == {View(u, t) : u \in Users, t \in BranchIds \cup {Null}}

-----------------------------------------------------------------------------
(* The rows *)

Live(e) == money[e].state = "live"

OfReport(e, kinds) == money[e].report \in kinds

\* A branch report between a branch and the main one, not between a branch and its children.
WithMain(e, kinds) == OfReport(e, kinds) /\ ~report[money[e].report].forChild

Approved(e, v) == IF v.main THEN money[e].approvedforMain ELSE money[e].approved

Other(type) == IF type = "DEPOSIT" THEN "WITHDRAW" ELSE "DEPOSIT"

\* Slip: the rows of branch reports keep the type they have for the branch.
TransactionsUnflipped(v, done) ==
  {[entry |-> e, type |-> money[e].type] :
     e \in {x \in Entries : /\ Live(x) /\ Approved(x, v) = done
                            /\ \/ money[x].branch = v.branch
                               \/ v.main /\ WithMain(x, {"received", "forwarded"})}}

\* getAllTransactions: the list, where the main branch reads a branch's rows
\* from its own side.
Transactions(v, done) ==
  {[entry |-> e, type |-> IF v.main /\ OfReport(e, {"received", "forwarded"})
                            THEN Other(money[e].type) ELSE money[e].type] :
     e \in {x \in Entries : /\ Live(x) /\ Approved(x, v) = done
                            /\ \/ money[x].branch = v.branch
                               \/ v.main /\ WithMain(x, {"received", "forwarded"})}}

Listed(v, done, type) == {t.entry : t \in {x \in Transactions(v, done) : x.type = type}}

\* getStatistics: what is in the treasury.
TotalDeposit(v) ==
  {e \in Entries : /\ Live(e) /\ Approved(e, v)
                   /\ \/ money[e].branch = v.branch /\ money[e].type = "DEPOSIT"
                      \/ v.main /\ money[e].type = "WITHDRAW" /\ WithMain(e, {"received"})}

TotalWithdraw(v) ==
  {e \in Entries : /\ Live(e) /\ Approved(e, v)
                   /\ \/ money[e].branch = v.branch /\ money[e].type = "WITHDRAW"
                      \/ v.main /\ money[e].type = "DEPOSIT" /\ WithMain(e, {"forwarded"})}

\* getDailyStatistics: what waits for approval.
DailyDeposit(v) ==
  {e \in Entries : /\ Live(e) /\ ~Approved(e, v)
                   /\ \/ money[e].branch = v.branch /\ money[e].type = "DEPOSIT"
                      \/ v.main /\ money[e].type = "WITHDRAW" /\ WithMain(e, {"received"})}

\* A branch's withdrawals wait for the main branch.
DailyWithdraw(v) ==
  {e \in Entries : /\ Live(e) /\ ~money[e].approvedforMain
                   /\ \/ money[e].branch = v.branch /\ money[e].type = "WITHDRAW"
                      \/ v.main /\ money[e].type = "DEPOSIT" /\ WithMain(e, {"forwarded"})}

-----------------------------------------------------------------------------
(* The order, of place.order for a client of place.client *)

Settled(k) == report[k].state = "live"

\* A report that counts, with its row, for the main branch or for its own.
Counts(k, main, done) ==
  /\ Settled(k)
  /\ \E e \in Entries : /\ Live(e) /\ money[e].report = k
                        /\ Approved(e, [main |-> main]) = done

ReceivedFromAgents(v) == place.order = v.branch /\ Settled("agent")

NotReceived(v) ==
  place.order = v.branch /\ place.agent = v.branch /\ ~Settled("agent")

ForClients(v) == place.client = v.branch /\ ~Settled("client")

PaidToClients(v) == place.client = v.branch /\ Counts("client", v.main, TRUE)

InsideBranchNet(v) ==
  IF v.main THEN /\ place.client # v.branch
                 /\ Counts("received", TRUE, TRUE) /\ Counts("forwarded", TRUE, TRUE)
  ELSE place.order = v.branch /\ place.client = v.branch /\ Counts("client", FALSE, TRUE)

ReceivedBranchNet(v) == place.order = v.branch /\ Counts("received", TRUE, TRUE)

ForwardedBranchNet(v) ==
  /\ place.client = v.branch
  /\ IF v.main THEN Counts("received", TRUE, TRUE) ELSE Counts("forwarded", FALSE, TRUE)

\* Of the agents' reports, whatever orders are on them.
DailyFromAgents(v) == place.reported = v.branch /\ Counts("agent", v.main, FALSE)

\* Slip: a branch's payments wait for the main branch, like its withdrawals.
DailyPaidForMain(v) == place.client = v.branch /\ Counts("client", TRUE, FALSE)

DailyPaidToClients(v) == place.client = v.branch /\ Counts("client", v.main, FALSE)

DailyInsideNet(v) ==
  IF v.main THEN /\ place.client # v.branch
                 /\ Counts("received", TRUE, FALSE) /\ Counts("forwarded", TRUE, FALSE)
  ELSE place.order = v.branch /\ place.client = v.branch /\ Counts("client", FALSE, FALSE)

DailyReceivedNet(v) == place.order = v.branch /\ Counts("received", TRUE, FALSE)

DailyForwardedNet(v) ==
  /\ place.client = v.branch
  /\ IF v.main THEN Counts("received", TRUE, FALSE) ELSE Counts("forwarded", FALSE, FALSE)

-----------------------------------------------------------------------------
(* What changes them *)

NoEntry == [state |-> "none", type |-> "DEPOSIT", branch |-> Null, report |-> Null,
            approved |-> FALSE, approvedforMain |-> FALSE]

Entered == {e \in Entries : money[e].state # "none"}

\* The report of a row is a one-to-one relation: another row gives it up.
Linked(table, e, k) ==
  [x \in Entries |-> IF x = e THEN [table[x] EXCEPT !.report = k]
                     ELSE IF k # Null /\ table[x].report = k THEN [table[x] EXCEPT !.report = Null]
                     ELSE table[x]]

TypeOf(k) == IF k \in {"client", "received"} THEN "WITHDRAW" ELSE "DEPOSIT"

\* The branch of the row: an agents' report is of its maker's branch.
PostedTo(k, u) ==
  CASE k = "agent" -> u.branch
    [] k = "received" -> place.order
    [] OTHER -> place.client

\* forChild: a branch's report on one of its children.
PostReport(k, u, forChild) ==
  /\ report[k].state = "none" /\ money[k].state = "none"
  /\ forChild => k \in {"received", "forwarded"}
  /\ report' = [report EXCEPT ![k] = [state |-> "live", forChild |-> forChild]]
  /\ money' = Linked([money EXCEPT ![k] = [NoEntry EXCEPT !.state = "live", !.type = TypeOf(k),
                                                          !.branch = PostedTo(k, u)]], k, k)
  /\ UNCHANGED <<place, night>>

\* The branch in the body is not looked at.
CreateTransaction(u, type, k, approved) ==
  /\ money["hand"].state = "none"
  /\ k # Null => report[k].state \in {"live", "deleted"}
  /\ money' = Linked([money EXCEPT !["hand"] =
                        [NoEntry EXCEPT !.state = "live", !.type = type, !.branch = HomeBranch(u),
                                        !.approved = approved, !.approvedforMain = approved]],
                     "hand", k)
  /\ UNCHANGED <<place, report, night>>

\* One field of the row, whatever it is.
UpdateTransaction(e) ==
  /\ e \in Entered
  /\ \/ \E type \in {"DEPOSIT", "WITHDRAW"} : money' = [money EXCEPT ![e].type = type]
     \/ \E b \in BranchIds : money' = [money EXCEPT ![e].branch = b]
     \/ \E a \in BOOLEAN : money' = [money EXCEPT ![e].approved = a]
     \/ \E k \in Kinds : /\ report[k].state \in {"live", "deleted"}
                         /\ money' = Linked(money, e, k)
  /\ UNCHANGED <<place, report, night>>

DeleteTransaction(e) ==
  /\ e \in Entered
  /\ money' = [money EXCEPT ![e].state = "deleted"]
  /\ UNCHANGED <<place, report, night>>

ApproveTransaction(e) ==
  /\ e \in Entered
  /\ money' = [money EXCEPT ![e].approved = TRUE]
  /\ UNCHANGED <<place, report, night>>

SetApproved(S) ==
  money' = [e \in Entries |-> IF e \in S THEN [money[e] EXCEPT !.approved = TRUE] ELSE money[e]]

SetApprovedForMain(S) ==
  money' = [e \in Entries |->
              IF e \in S THEN [money[e] EXCEPT !.approvedforMain = TRUE] ELSE money[e]]

LiveEntries == {e \in Entries : Live(e)}

\* Slip: whoever approves, approves for his branch.
ApproveOwnBranch(u) ==
  /\ SetApproved({e \in LiveEntries : money[e].branch = u.branch})
  /\ UNCHANGED <<place, report, night>>

\* At the main branch the rows of the whole company, for the main branch only.
ApproveAllBranchTransactions(u) ==
  /\ IF AtMain(u) THEN SetApprovedForMain(LiveEntries)
     ELSE SetApproved({e \in LiveEntries : money[e].branch = u.branch})
  /\ UNCHANGED <<place, report, night>>

\* The nightly job: one statement, then the other.
ApproveAllPending ==
  /\ IF night = "branches" THEN SetApproved(LiveEntries) ELSE SetApprovedForMain(LiveEntries)
  /\ night' = IF night = "branches" THEN "main" ELSE "branches"
  /\ UNCHANGED <<place, report>>

SetReport(k, from, to) ==
  /\ report[k].state = from
  /\ report' = [report EXCEPT ![k].state = to]
  /\ money' = [e \in Entries |->
                 IF money[e].report = k THEN [money[e] EXCEPT !.state = to] ELSE money[e]]
  /\ UNCHANGED <<place, night>>

DeactivateReport(k) == SetReport(k, "live", "deleted")
ReactivateReport(k) == SetReport(k, "deleted", "live")

\* The row stays and loses its report.
DeleteReport(k) ==
  /\ report[k].state \in {"live", "deleted"}
  /\ report' = [report EXCEPT ![k].state = "gone"]
  /\ money' = [e \in Entries |->
                 IF money[e].report = k THEN [money[e] EXCEPT !.report = Null] ELSE money[e]]
  /\ UNCHANGED <<place, night>>

TreasuryInit ==
  /\ place \in Places
  /\ report = [k \in Kinds |-> [state |-> "none", forChild |-> FALSE]]
  /\ money = [e \in Entries |-> NoEntry]
  /\ night = "branches"
  /\ moves = 0

\* One more of the moves.
Move ==
  /\ moves < MaxMoves
  /\ moves' = moves + 1

\* Nobody asks for more.
TreasuryRest ==
  /\ moves = MaxMoves
  /\ UNCHANGED treasuryVars

TreasuryNext ==
  \/ /\ Move
     /\ \/ \E u \in Users :
             \/ \E k \in Kinds, forChild \in BOOLEAN : PostReport(k, u, forChild)
             \/ \E type \in {"DEPOSIT", "WITHDRAW"}, k \in Kinds \cup {Null}, a \in BOOLEAN :
                  CreateTransaction(u, type, k, a)
             \/ ApproveAllBranchTransactions(u)
        \/ \E e \in Entries :
             UpdateTransaction(e) \/ DeleteTransaction(e) \/ ApproveTransaction(e)
        \/ ApproveAllPending
        \/ \E k \in Kinds : DeactivateReport(k) \/ ReactivateReport(k) \/ DeleteReport(k)
  \/ TreasuryRest

TreasurySpec == TreasuryInit /\ [][TreasuryNext]_treasuryVars

-----------------------------------------------------------------------------
(* Properties *)

\* A row that is posted and a row's report agree in kind; a report that was
\* removed has no row.
TreasuryTypeOK ==
  /\ place \in Places
  /\ \A e \in Entered : money[e].branch \in BranchIds
  /\ \A e, f \in Entries : money[e].report = money[f].report /\ money[e].report # Null => e = f
  /\ \A e \in Entries, k \in Kinds : money[e].report = k => report[k].state \in {"live", "deleted"}
  /\ night \in {"branches", "main"} /\ moves \in 0..MaxMoves

\* A row of a branch report that is not as createReport posts it: turned round or
\* given to the main branch by hand, or of a report on the main branch itself.
Odd(e) ==
  /\ OfReport(e, {"received", "forwarded"})
  /\ money[e].type # TypeOf(money[e].report) \/ money[e].branch = MainBranch

OneBranchBehind ==
  \A u \in Users, t \in BranchIds \cup {Null} :
    /\ DailyBranch(u, t) = View(u, t).branch
    /\ OrdersView(u, t) = View(u, t) \/ (AtMain(u) /\ ~Picks(u, t) /\ t # Null)

\* What a user is shown adds up: the list of the approved rows is what his treasury
\* was summed from, and the list of the others is what his daily screen says waits,
\* each on its side, for every branch he may ask for, and the orders and the daily
\* rows behind them are of the same branch.  Exceptions: rows that are Odd; a
\* branch's withdrawals, which wait for the main branch and not for the branch; and
\* the orders shown to the main branch's staff when they name a branch.
ListsAddUp ==
  /\ \A v \in Views :
       LET Even(S) == {e \in S : ~Odd(e)}
       IN /\ Even(Listed(v, TRUE, "DEPOSIT")) = Even(TotalDeposit(v))
          /\ Even(Listed(v, TRUE, "WITHDRAW")) = Even(TotalWithdraw(v))
          /\ Even(Listed(v, FALSE, "DEPOSIT")) = Even(DailyDeposit(v))
          /\ v.main => Even(Listed(v, FALSE, "WITHDRAW")) = Even(DailyWithdraw(v))
  /\ OneBranchBehind

\* The report has a row that was not deleted: nobody deleted it or linked the report
\* to a deleted one.
HasMoney(k) == \E e \in LiveEntries : money[e].report = k

\* An order's money is on one screen at a time: still with its agent or collected, and
\* collected if it waits for approval; still due to its client, waiting to be paid or
\* paid; what a branch has of a report is waiting or in; and what the main branch has
\* between two others is in only when both reports are, and waits only while both wait.
\* Exception: an order whose agent is of another branch, or that has none, is on no
\* screen of its branch until an agents' report is on it.
MoneyIsOnOneScreen ==
  \A v \in Views :
    /\ place.order = v.branch =>
         /\ ~(NotReceived(v) /\ ReceivedFromAgents(v))
         /\ place.agent = v.branch => NotReceived(v) \/ ReceivedFromAgents(v)
         /\ DailyFromAgents(v) => ReceivedFromAgents(v)
         /\ Settled("received") /\ HasMoney("received") =>
              ReceivedBranchNet(v) # DailyReceivedNet(v)
    /\ place.client = v.branch =>
         Cardinality({s \in 1..3 : CASE s = 1 -> ForClients(v)
                                     [] s = 2 -> DailyPaidToClients(v)
                                     [] OTHER -> PaidToClients(v)})
           = IF Settled("client") /\ ~HasMoney("client") THEN 0 ELSE 1
    /\ ~(ForwardedBranchNet(v) /\ DailyForwardedNet(v))
    /\ ~(InsideBranchNet(v) /\ DailyInsideNet(v))
    /\ v.main /\ InsideBranchNet(v) =>
         ReceivedBranchNet([branch |-> place.order, main |-> FALSE])

\* Whoever approves everything finds his own list of unapproved rows empty and
\* everything that waited there in his treasury, and nothing else is new there.
ApprovalTakesWhatWaits ==
  [][\A u \in Users :
       ApproveAllBranchTransactions(u) =>
         LET v == View(u, Null)
         IN /\ Transactions(v, FALSE)' = {}
            /\ Transactions(v, TRUE)' = Transactions(v, TRUE) \cup Transactions(v, FALSE)
            /\ TotalDeposit(v)' = TotalDeposit(v) \cup DailyDeposit(v)
            /\ v.main => TotalWithdraw(v)' = TotalWithdraw(v) \cup DailyWithdraw(v)]_treasuryVars
=============================================================================
