# Albarq API: formal verification

TLA+ models of the Albarq delivery API (Express, Prisma, PostgreSQL, Redis), TLC
configurations that check them on small instances, and TLAPS proofs. The models follow the
TypeScript under `src/src/` (the JavaScript under `src/build/` is its compiled form).

    tlc -workers 2 -config ReportFlags.cfg MCReportFlags.tla
    tlapm ReportFlagsProofs.tla

`PROJECT.json` lists the components, the runs, the hazards with their lines, the mutants
that show each property can fail, and for every definition the source lines it models.

## 1. The system

The API keeps orders, the reports that settle them with clients, branches, agents and
companies, and the money transactions those reports produce. Any number of Node processes
serve HTTP requests against one PostgreSQL database; a request is a chain of awaited Prisma
calls, so between two of its statements every other request may run. Most handlers use no
transaction at all. Where one is used it is READ COMMITTED, except in the employee wallets.
Cron jobs run in the same processes.

| Component | State | Operations | What makes it correct |
|---|---|---|---|
| Report life cycle (`app/reports`) | `Report` + one row per type, join rows to orders, `deleted` | create, deactivate, reactivate, delete | an order is settled by one visible report of a kind; creation is all or nothing; a report lists what it counts |
| Report flags (`recomputeReportFlags`, reconcile job) | six booleans of an `Order` | recompute after each change of a report, daily repair | flags say which visible reports hold the order |
| Report delivery (`deliverReport`) | `delivered`, `deliveredAt`, `ClientReport.agent` | scan by a receiving agent | the first delivery is recorded once and stays |
| Returns (`updateReport`, `deactivateReport`, `app/customerOutputs`) | `confirmed`, staging rows, totals, place of the orders | confirm, move, stage, report, receive | no order is lost on its way; totals match the orders |
| Ledger (`app/transactions`, approval job) | `approved`, `approvedforMain`, `deleted`, unique `reportId` | post with a report, edit, approve, hide with the report | a live row per live report; none for a hidden one; all is approved in the end |
| Treasury (`transaction.repository.ts`, screens) | (reads) | lists, totals, daily screen, approve all | the figures of one moment agree with each other |
| Employee wallets (`app/employeeWallets`) | wallets, their rows | create, assign, delete, own row (Serializable) | a wallet with history is neither reassigned nor deleted |
| Orders (`app/orders`) | status, payment, nets | create, update, forward, resend, deactivate | closed, forwarded and settled orders stay; the net follows the payment |
| Costs and daily profit | agent's share, three branch nets, daily rows | price, cost by a report, nightly sums | screens, lists and job sum the same orders; what is owed is counted |
| Automatic updates | order status | cron: status of aged orders | as orders |
| Order routing (`orders.controller.ts`) | repository, sides, secondary status | scan, patch, change of client, forwarding | one desk has the order; its sides are the branches that settle it |
| Home screens (`orders.repository.ts`, `receivingAgentManager.ts`) | statistics in Redis | tiles, counts behind them, lists | a tile opens the orders it counted |
| Messages, tickets | chats, seen marks, holder of a ticket | send, read, sweep; take, forward, answer, close | what is marked was read; a ticket is not taken from its holder |
| List caches (Redis) | lists of five tables, a day or two | read through, drop on change | a kept list is not older than a change |
| Auth, catalogue, documents, webhooks, uploads | own tables, files, external services | CRUD, I/O | (see section 6) |

### Interactions

- Report creation reads the orders (service), writes recomputed costs, then calls the
  repository, which inserts the report and recomputes the flags in one transaction, and
  afterwards posts the money in a separate call.
- The returns desk creates CLIENT and REPOSITORY reports by calling the repository directly,
  so without the service's check for existing reports.
- Deactivating a report hides its money and recomputes the flags in one transaction, after
  it has moved the orders of a return back in separate statements.
- The flags decide whether a payment may change and whether an order can be deleted, and
  drive most list filters; the sides written by scans decide which branches settle an order.
- Approval of rows by hand, by branch and by the nightly job decide which screen of the
  treasury shows them. Deleting an employee clears the agent of reports and wallets.
- Lists of employees, stores, locations, clients and branches and the home statistics are
  answered from Redis; no handler decides anything on them.

### What is hard

- The recompute is one `UPDATE ... SET flag = EXISTS (...)`. Under READ COMMITTED an UPDATE
  that waited for a row re-reads that row, but its subqueries keep the snapshot the
  statement started with. Two operations on different reports of one order therefore race.
- Nearly every handler reads, decides, and writes by id in a later statement that asks for
  nothing: updates of orders, scans, returns, tickets, marks, reports other than CLIENT.
- Row locks are taken in id order by CLIENT creation, in scan order by the recompute.
- Multi-step handlers without transactions stop half way when a step fails.
- The same question is answered by copies of one filter: job, total and list; treasury,
  daily screen and list; tile, count and list; badge, list, notification and sweep. No test
  compares the copies over the states an order can reach.

The full list, with lines and the properties that cover each, is `hazards` in
`PROJECT.json`.

## 2. Plan

Every module of the plan is built, in this order of importance: report life cycle and flags
(`ReportFlags`, abstract `ReportRegistry`), delivery (`ReportDelivery`), money (`Ledger`,
then `EmployeeWallets` over it), returns (`ReturnsDesk`), orders (`OrderUpdates`, with the
automatic updates, partners and forwarding as further writers), reports without locks
(`OtherReports`), profits (`BranchProfits`), routing (`RepositoryRoute`), messages and
tickets (`Inquiries`), Redis (`ListCaches`), the screens of the treasury (`Treasury`) and of
everybody's home (`HomeScreens`).

Every one of these modules has its proofs; what is left to TLC alone is liveness (section
5). Next in line, should the project grow: the parts section 6 leaves out, of which the
filters users choose on lists are the largest, and numbers in place of values for the sums
of `OrderUpdates` and `OtherReports`.

*Composition.* `EmployeeWallets` EXTENDS `Ledger` and interleaves its own actions with the
ledger's, because both write one table. `ReportFlags` implements `ReportRegistry` (INSTANCE
with a refinement mapping). `MCScreens` and `MCInquiries` put two modules that share no
state into one run: a variable `scene`, fixed in the initial state, says which of them a
behaviour is of, and the other one stands still.

## 3. The modules

No module needs a RECURSIVE operator. Operators marked "Slip" are plausible bugs: no
specification uses them; each replaces the definition that follows it to show that a
property notices the bug.

| Module | Role |
|---|---|
| `ReportRegistry` | abstract: what the report endpoints promise, one atomic step per operation |
| `ReportFlags` | every SQL statement of the life cycle of CLIENT and BRANCH reports and of the reconcile job |
| `ReportDelivery` | `PATCH /reports/:reportID/deliver` and everybody who changes its rows |
| `Ledger`, `EmployeeWallets` | the `Transaction` table; wallets and their two isolation levels |
| `ReturnsDesk` | returned orders between repositories, and the reports they travel on |
| `OrderUpdates` | everybody who writes status and payment of an order, and CLIENT reports' sums |
| `OtherReports` | the five types of reports without locks |
| `BranchProfits` | prices, nets, costing, the nightly sums and the screens of profits |
| `RepositoryRoute` | scans, sides of an order, and the screens of the desks |
| `Inquiries` | messages and ticket of an order |
| `ListCaches`, `Treasury`, `HomeScreens` | lists kept in Redis; screens of money; screens of orders |
| `ReportFlagsProofs`, `ReturnsDeskProofs`, `OrderUpdatesProofs`, `RepositoryRouteProofs` | inductive invariants and theorems of the module they are named for |
| `ReportsProofs` | the same for `ReportDelivery` and `OtherReports` |
| `MoneyProofs` | for `Ledger`, `EmployeeWallets` and `BranchProfits`, with lemmas about sums over finite sets |
| `InquiriesProofs` | for `Inquiries` and `HomeScreens` |
| `ScreensProofs` | for `Treasury` and `ListCaches` |
| `MC...` | instances for TLC |

Where a type invariant (`TypeOK`, `DeliveryTypeOK`, `ProfitTypeOK`, `HomeTypeOK`) is listed
by no run it states the shape of the variables for the reader, or is a theorem:
`TypeCorrect` of `ReportFlags` and `ReturnsDesk`, `WalletSafety`, `DeliveryTypes`,
`ProfitTypes`, `RouteTypes`, `InquiryTypes`, `HomeTypes`.

### ReportFlags

A process is a request or the job of one server. `pc` is its next statement.

| Code | Actions |
|---|---|
| `ReportsService.createReport` check, CLIENT | `OpenClient` (the returns desk skips the check for `StagedKinds`) |
| `SELECT ... ORDER BY id FOR UPDATE` | `LockOrder`, one row a step, least id first |
| `findFirst` after the locks, 409 | `Recheck` |
| `clientReport.create` / `branchReport.create` | `Insert`, and `Link` for the join rows that may wait |
| `deactivateReport`, `reactivateReport`, their `tx.report.update` | `OpenDeactivate`, `OpenReactivate`, `Mark` |
| `recomputeReportFlags` | `Recompute` takes the snapshot, `LockRow` gets each row |
| end of the transaction | `Commit`, or `Abort` (timeout, deadlock victim, lost connection) |
| `DELETE /reports/:reportID` | `HardDelete`; nothing recomputes flags |
| `reconcileReportFlags` | `OpenReconcile`, then the same recompute |
| `updatedAt` window of 30 days | `recent`, `AgeOut`, `Touch` (the raw UPDATE of flags does not touch it) |

*State.* `rows` is `Report` with its CLIENT or BRANCH row and join rows. A row is `pending`
until its transaction commits, and invisible to the others. `flags[o]` is the set of kinds
whose boolean is true. `locks` and `shares` are exclusive and key-share row locks: `FOR
UPDATE` conflicts with both, the UPDATE of the flags (no key column) with the exclusive one
only. `revived` is history.

*Snapshot.* `Recompute` records in `snap` which reports are live at the moment the statement
starts, the transaction's own change included; `LockRow` may then wait; `Commit` writes
flags computed from `snap`. Flags are written at commit, when others can first see them; the
rows are locked until then.

*Abstracted.* Kinds stand for the flag columns: two secondary types of CLIENT reports, four
combinations of type and level of BRANCH reports. A BRANCH report without a type has no
flag. Money, places of orders and costs, which neither read nor write what the properties
speak of, are in the other modules. They do write the order row through Prisma; `Touch`
covers the effect on the window. Company ownership and the "order not found" answer before
the check are constant and left out.

### ReportDelivery

One CLIENT report; a call is a process and also the time it stamps; a retry is another call.
`CheckAgent`, `Stamp`, `Assign`, `Read` and `Commit` are the statements in order. `Stamp`
claims the row only if it is still undelivered when the row lock is granted. `Read` repeats
the `where` whether or not the call stamped anything. `Abort` is the transaction's time
limit or a lost connection, and `Commit` may lose its answer. `SetReport` is deactivate,
reactivate and delete; `SetStaff` and `DeleteEmployee` are the employee endpoints, with
`onDelete: SetNull` on the recorded agent. An agent outside `Insiders` carries the token of
another company.

### Ledger and EmployeeWallets

| Code | Actions |
|---|---|
| a report commits, then `createTransaction` in a later call, or its failure | `CreateReport`, `PostTransaction`, `PostingFails` |
| `deactivateReport`, `reactivateReport`, hard delete with `SetNull` | `DeactivateReport`, `ReactivateReport`, `DeleteReport` |
| endpoints of `app/transactions` | `CreateTransaction`, `UpdateTransaction`, `DeleteTransaction`, `ApproveTransaction`, `ApproveAllBranchTransactions` |
| nightly `approveAllPending`, two statements | `JobApproves`, `JobApprovesForMain`, `JobFails` |
| `createOwnTransaction`, SERIALIZABLE | `CreateOwnTransaction` (snapshot), `InsertOwnTransaction` (key-share locks), `CommitOwnTransaction` |
| `updateWallet`, `deleteWallet`: read, then one statement, READ COMMITTED | `UpdateWallet` then `WriteUpdate`, `DeleteWallet` then `WriteDelete`, `Refuse` |
| employees endpoints | `SetStaff`, `DeleteEmployee` |

`tx` is the table, `report` the state of each report, `posting` the reports whose money is
still to be posted. `late` and `byHand` are histories: rows that reached a report after it
was hidden, and rows somebody deleted, or linked while they were deleted. Amounts are left
out; a wallet's balances are sums of its rows and nothing writes the columns for them.

### ReturnsDesk

A request is a process with a step per statement, and may `Stop` between any two. `Desk(p,
at)` is the first read of every endpoint of a desk. Staging goes on with `StageMove` and
`StageRow` (move the order, insert the row); a report of the staged rows with `CreateReport`
(CLIENT, COMPANY or REPOSITORY), `MakeMove` and `MakeClear` (move the orders, delete the
rows); receiving with `RemoveOrderFromRepositoryReport` if a report lists the order, then
`ReceiveClear` and `ReceiveMove`, or `NumberMove` when it is by receipt number.
`UpdateReport` then `ConfirmMove` confirm or unconfirm, `MoveReport` sends a report to
another repository and moves its orders by updates nobody awaits (`Relocate`, `Relocated`),
`DeactivateReport`, `DeactMove` and `Deactivate` bring the orders back and hide the report;
`ReactivateReport` and `DeleteReport` look at no order. All orders have a returned status;
RETURNED reports are those made at the desk; every total of a report is represented by its
count; WITH_RECEIVING_AGENT is WITH_CLIENT; a desk receives for its own repository, and
never picks its own as a target. A staged row keeps every target the body named (`Bodies`:
several at once, one repository at most), and is looked for by the type that was asked for
only. The endpoint that deletes from staging is commented out in the source and absent here.
`SameId` pairs a report with a repository of the same number: both ids are numbers from
sequences of their own, and the source compares one with the other.

### OrderUpdates

Every writer reads the order (`UpdateOrder`, `UpdateOrderForClient`,
`UpdateOrderForPartner`, `AutomaticUpdate`, `ForwardOrderToCompany`, `DeactivateOrder`) and
writes by id later (`Write`, `WriteDeleted`); `CreateReport`, `UpdateOrdersCosts`,
`InsertReport` are a CLIENT report from its read to its sum. `CreateOrder`,
`ReactivateOrder`, `ResendOrderByClient`, `BulkForwardOrdersToCompany`, `SetReport` are
single statements; `Stop` ends a request early. A request keeps only what it will use of
what it read, and which of its orders it read `Closed`: delivered, or on a live report of
returns (the order is read with its live reports only). `Meets` marks every order that two
requests worked on at once; `askew` the orders whose net a named exception made wrong. One
price for all orders; REPLACED is PARTIALLY_RETURNED; the nets of agents and branches are in
`BranchProfits`, moves between branches and repositories in `RepositoryRoute`. The task's
settings and hours only choose which orders it takes, so it may take any. `Namesakes` are
orders whose client has the number of their company: a deletion compares the two ids. A
client's deletion asks more than that of the staff, and is one of theirs.

### OtherReports

`CreateReport` (read, early check), `UpdateOrdersCosts` (writes costs), `Reread` (sums), and
`InsertReport` (to-one or many-to-many connect), with `UpdateOrder` then `WriteOrder` as the
competing writer, and `DeactivateReport`, `ReactivateReport`, `DeleteReport`. No kind locks
or looks again. The returns made by desks are in `ReturnsDesk`, the money in `Ledger`.

### BranchProfits

`Create`, `UpdateOrder`, `UpdateOrderForClient`, `ClientReport`, `AgentReport`,
`BranchReport`, `HideReport` write an order; each is one step (what comes between is in
`OrderUpdates`). `Midnight` starts the job, `SnapshotBranch` writes a branch's row,
`DailyJobFails` ends it early. `computeProfit`, `getProfitOrders`, the branches' totals and
the lists behind them are operators over the orders, each from its own queries.
`Statistics(b, applyBranchScope, type)` is what `getStatistics` shows: with the scope the
company's figure by raw SQL, without it that of branch `b` and its children by Prisma, where
a branch in `Baghdad` without a parent also counts what it delivers for its own clients. Day
1 is the day that is summed, day 2 the next. One region and one price per branch;
company-level deals, filters, pages and time of day are left out; `Abroad` is the client's
branch of an order another company forwarded. `confirmed` is what most of the queries ask
for and what an update may change: an order that a client entered starts without it.

### RepositoryRoute

The order is created in `Init`, at a desk, on the road or by its client. `Scan` is a desk's
first read and what it makes of it, `Patch` a body of `PATCH /orders/:orderID`; both go on
with `Check`, the second read and its decisions, and `Place`, the one write.
`ForwardOrderToCompany` (a check and a write) and `BulkForwardOrdersToCompany` send the
order to another company, `ChangeOrderClient` gives it a new client. `Tiles`, `OnList`,
`Printed` and the home counts are operators, one for each query. A branch stands for its
export repository, every client has a branch, a location's governorate is that of its
branch; filters on dates are assumed to let the order through. `SetReport` puts the order on
a live report of its client or of a branch, or takes it off the last one: the two counts of
what branches owe ask for that, and for `confirmed`. Orders are not deleted here.

### Inquiries

`SendMessage`, `OpenChat`, `WriteMessage` are the three statements of sending,
`GetChatMessages` and `MarkAllSeen` the two reads that `Mark` writes seen marks for;
`TakeTicket`, `ForwardTicket`, `CreateResponse` the checks whose writes are `Connect`,
`Forwarded`, `Answer`, and `CloseTicket` closes before it answers. `ChangeOrder` stands for
the handlers that move, return, forward and delete the order, `DeleteMessages` removes one
message. The list of chats, the badge, the notification and the sweep are four operators
over one user `me`, whose profile is chosen in the initial state. All messages are younger
than 30 days. Inquiry employees limited to companies are left out: the source gives their
list `OR: []`, which is empty.

### ListCaches, Treasury, HomeScreens

`ListCaches`: one row of one table. `Change` starts a request that is a sequence of
statements: `FindKeys` and `Del` drop lists, `Write` writes, in the order of that endpoint
(`DropThen` for employees, clients, branches and updates of stores, `ThenDrop` for creation
of stores and for locations). `Ask`, `Query`, `Save` are a read through Redis. `Stop` ends a
request anywhere, `Expire` is the TTL. Columns a list shows of other tables are left out.

`Treasury`: one order, a report of each of the four kinds that move its money, and a row
entered by hand. Its actions are those of `Ledger` in coarse steps (a report with its row),
its point the operators for `getStatistics...`, `getDailyStatistics`, `getProfitOrders` and
the lists, read by managers of any branch. `place` has the branches of the order, of its
client, of its agent, who may be missing or of another branch, and of the agent whom a
report on the order is made for: a report takes the orders it is told. A figure is the set
of the things it sums, so no two sums are equal by chance. Wallet rows, dates,
`activeProfit` and rows of COMPANY reports are left out.

`HomeScreens`: one order, the two kinds of CLIENT reports, and the assignments of clients to
receiving agents and assistants. `PrintReceipts` ... `Assign` (in `ScreensChange`) change
them; `AskStatistics`, `ReadStatistics`, `KeepStatistics` are a read of the tiles through
Redis, `CountReady` then `DivideReady` the manager's two queries, `Leave` and `Expire` end
an answer and a kept copy. `TilesV1`, `TilesV2`, the counts behind a tile, and the lists are
operators with one conjunct per condition of the source. The manager's agents are all
employees of his branch, as in the source; only receiving agents have clients. Every client
has one store; a user's own filters and `orderType` are not set; the comment on top says
which statuses stand for others.

## 4. What the runs check

| Run | Instance | Shows |
|---|---|---|
| `report_flags` | 2 orders, 2 reports, 2 requests | no double billing; lock order; complete flags at CLIENT commits; refinement of `ReportRegistry` |
| `report_reconcile` | 2 orders, 2 reports, 1 request, the job with LIMIT 1, ageing | the daily job repairs whatever the requests left |
| `stale_flags` | 1 order, 2 reports, 2 requests | **violated**: flags disagree with the reports when nobody runs |
| `report_delivery` | 3 calls, an agent of the company and an outsider | first delivery stands; answers agree; every call is answered without its time limit |
| `ledger_and_wallets` | a report, a row, a wallet, an employee, 2 requests | money and reports keep together; all is approved; history and assignment of wallets |
| `returns_desk` | 2 orders, 2 repositories, 1 report, 2 of 4 requests at once, bodies with a client, a repository, or both with a company | no order lost between repositories; totals |
| `order_updates` | 1 order, 1 report, 2 of 3 requests at once | nets follow payments; reports settle what they write; closed, forwarded, settled orders stay |
| `other_reports` | 2 orders, 2 reports, 2 requests, 6 kinds | reports list what they count and count what their orders owe |
| `branch_profits` | 1 order, main branch, branch and child, 4 writes, 2 days, a cost in every form | job, totals and lists agree; a profit is counted where it is owed |
| `repository_route` | 1 order, main branch, branch and child, 2 of 3 requests at once | tiles, lists, prints and counts agree; sides follow the client; the sides are billed |
| `inquiries` | messages and ticket: 12 users, 2 messages, 2 of 3 requests at once; home screens: 15 users, 5 changes | seen messages were shown; four filters agree; tickets; tiles are their lists |
| `screens` | lists: 2 of 4 requests at once, each of five tables; treasury: 2 branches, 4 moves, 3 of 6 cases of the agent | kept lists are current but for named reads; figures of the treasury agree |

*Exceptions are part of the properties.* Where the code lets something through, the property
names the history that leads to it (`revived`, `late`, `byHand`, `overlapped`, `contended`,
`restaged`, `loose`, `askew`, `Odd`, `OnLoan`, `Elsewhere`, `Reopened`, "met") and holds
everywhere else. The comment before the property lists them; what they mean for users is
collected below. So the property shows that nothing else leads there, not that the hazard is
harmless: two writers at once on one order, report or ticket are not reported as violations,
nor are a posting that fails or comes late, a row moved by hand between reports, a confirmed
report whose orders went back, a zero, a form with one cost, nets from values the same
request replaces, a nightly job that dies, and a cached list saved late. The hazards in
`PROJECT.json` this concerns say so in their note.

*Why the bounds are enough.* Two overlapping batches over two orders give every lock order
and every partial overlap; a third request adds no new conflict between two statements. Two
reports are what double billing and a missed report need. Report ids are not reused, so
`Reports` also bounds how many creations a run has; deactivation and reactivation are
unbounded. LIMIT 1 makes the job leave an order for the next day. In `ReportDelivery` three
calls give a holder, a waiter and a late retry. `MaxBegun`, `MaxWrites`, `MaxMoves`,
`MaxChanges` bound the requests begun or changes made: a race needs two requests at once,
and the third or fourth prepares the state or reads it. Larger instances were checked apart,
without a violation: three requests and two employees in `ledger_and_wallets`, `MaxBegun` 3
with two kinds in `OtherReports`, 5 requests in `ListCaches`, 6 changes in `HomeScreens`.
The theorems of section 5 cover every number. In `BranchProfits` the prices are chosen so
that no two different sums are equal, and three branches give every relation of two (main,
parent, child, stranger); a report's form without a cost, where the tables give it, was
checked apart. In the treasury's scene the order's agent is missing exactly if the agents'
report is on another branch than the main one: both faults of an agent's place occur,
together and not apart; the theorems have all cases. Symmetry is used only for requests,
reports, orders and agents that the module treats alike, and in no run with a liveness
property.

*Deadlock.* The lock waits of recomputes can form a circle, because an UPDATE locks in scan
order; PostgreSQL's answer is `Abort` of a victim. As `Abort` is always possible, TLC's own
deadlock check says little here; that CLIENT creations need no victim among themselves is
`CreatorsQueueInOrder`, and that deliveries need none is `EveryCallAnswered`. Modules that
reach their bound end in a `Rest`; in those whose requests take several steps
(`ReturnsDesk`, `OtherReports`, `RepositoryRoute`, `Inquiries`, `ListCaches`) it asks that
none is in flight. `ReportDelivery` really ends when every call was made and every row is
gone, and is the one run without the deadlock check.

*Fairness.* `FairSpec` of `ReportFlags` asks that the job starts again while there is
something to repair (cron, daily) and that its single statement runs on; nothing is assumed
of requests, and the property's premise is that they stop. `FairDeliverySpec` of
`ReportDelivery` asks that the server goes on with a call that can take a step, not that it
aborts one. `FairSpec` of `EmployeeWallets` asks that every night comes (weak fairness of
the job's first statement) and that not every night fails between its two statements (strong
fairness of the second). The other modules state no liveness: their requests promise none.

### Disagreements between the code and what it says

1. (`stale_flags`) `deactivateReport` says the recompute after `deleted = true` makes
   "EXISTS see the new state" (reports.repository.ts:937). A recompute that waited for
   another transaction writes flags from before that transaction's commit. For example a
   deactivation of one report starts its UPDATE, waits for a row that a creation holds, and
   then clears the flag of the new, visible report. The order can then be edited as if it
   were not settled, until the next daily repair; and that repair looks only at orders
   updated in the last 30 days.
2. `createReport` says all CLIENT creation paths lock first and that no order is in another
   report (reports.service.ts:187, reports.repository.ts:94). `reactivateReport` (:960)
   brings a report back without looking: deactivate, create anew, reactivate, and the order
   is in two (`revived` in `NoDoubleBilling`).
3. The delivery endpoint documents 200 as "Delivery recorded, or the report was already
   delivered" (reports.routes.ts:219). A report restored between the update and the read
   (reports.repository.ts:765-781) gets 200 undelivered.
4. The nightly job says it mirrors "computeProfit's logic exactly"
   (computeProfit.job.ts:20). Its SQL says IS DISTINCT FROM where Prisma's `not` leaves
   nulls out. `ProfitIsOwed` names the orders this concerns.
5. Comments of the list caches say "TTL = 10 minutes"; the TTL is two days, of clients'
   lists one.

### Observed while modelling

The properties hold with these cases as their named exceptions. They are what a reviewer
should know of, not counterexamples to anything the repository states.

*Money of reports.* Money posted after its report was hidden stays live (`late`). Restoring
a report restores its row even if somebody deleted that by hand. A wallet's row may be
recorded for the wallet's former employee, when the posting took its snapshot before a
reassignment that it did not see (employeeWallets.repository.ts:169-242, 317-352).

*Payments and nets* (orders.repository.ts:3321-3400). A zero payment or tariff is taken for
"not given". A repeated RETURNED keeps the payment. The automatic update writes the net of
the old payment, a partner's update none. `companyNet` is written as it was read. A company
form with a cost for some places only skips the others (:3278, :3290-3297). RETURNED sets
the fee to 0, so a DELIVERED after it computes the inside net from 0. An agent's report
changes `deliveryAgentNet` and not `insideBranchNet`. A child branch of a client with
`activeProfit` is priced by its parent's row at creation and by its own on update (:539,
:3338-3342). An order without branch cannot be delivered by `updateOrder` (:3341).
Delivering again moves `deliveriedAt`, and so the day it is summed on (:3387).

*Returns.* A row in staging carries every target the body names, and `saveOrderInCache`
looks only for the type it is asked for (customerOutput.controller.ts:78-97, 230-239). An
order staged for its client and then for a repository can have two rows with that client,
and the client's report counts it twice (`restaged`). A client's report also takes what was
staged for a repository, with the client in the row, and clears that row; a company's report
clears it while the order stays IN_CAR, on no record (`loose`).

*Profits.* The main branch's own deliveries are nobody's inside profit. The list
`allForMyBranch` is by branch, its total by family. What a branch is shown it owes leaves
out the clients without a branch that the main branch's figure counts, and counts Baghdad's
own deliveries, which the main branch's figure leaves out (transaction.repository.ts:1589).
It is the only one of these figures that asks neither for a confirmed order nor for the
dates (:1611-1646): what a client entered and nobody confirmed counts in it, in no other
total and in no list.

*Treasury* (transaction.repository.ts). The daily withdrawals of a branch ask
`approvedforMain`, its deposits `approved` (:2045). A BRANCH report made for the main branch
itself counts on both sides (`Odd`). What agents brought counts at once while the daily
screen still shows it waiting. The main branch's inside profit is on neither screen while
only one of two reports is approved. An order without agent, or with an agent of another
branch, is neither to be collected nor collected for its branch until an agents' report has
it (:1330-1332); the daily screen then shows that report at its agent's branch, the treasury
the order at the order's (:1311, :2080). `getProfitOrders` drops the main scope for main
staff who name a branch (transactions.controller.ts:104-117). `approveAll` asks no
`showTreatury` and approves a whole company.

*Routing.* A car that main staff create an order in has the main branch on both sides.
Orders created in a car have no sender. Desks can scan an order that was forwarded to
another company: tiles count it, lists hide it. The service overwrites the sides the
controller chose. A car forwarded without destination keeps the order's branch.
`getBranchsOrdersCount` leaves out clients without a branch, its list includes them. An
`orderType` other than `inside` gives a list `OR: []`.

*Home screens.* A client's breakdown behind REGISTERED counts clients without any receiving
agent. The first version's tiles open the second's breakdown and the reverse. Branch staff
are counted the orders of agents lent to another branch, which their list hides (`OnLoan`);
an `EMPLOYEE_CLIENT_ASSISTANT` orders outside his branch (`Elsewhere`); some breakdowns miss
orders that once were on a deleted report (`Reopened`). Inquiry tiles ask for the order's or
the client's branch, lists for the order's. Statistics are kept 60 s under a key without the
branch and never dropped.

*Messages and tickets.* The badge counts deleted orders and overlooks an assistant's
statuses. The sweep of an `EMPLOYEE_CLIENT_ASSISTANT` marks the whole company, and
`markAllSeen` sends no answer when nothing is unseen (messages.controller.ts:1246). One
deleted message makes the marks of its batch fail. A second concurrent creation of a chat
fails and loses its message. Anyone may forward or close a ticket, and a closed one can be
taken again.

*Caches.* Lists show columns of other tables, whose changes drop no list (stale for up to
two days, clients' one). `updateEmployee` without `inquiryDeliveryAgentsIDs` removes all of
them; two overlapping ones leave the union or fail. Reads of clients and branches from Redis
are commented out.

## 5. What is proved

For all values of the constants that satisfy the named assumptions (order ids are naturals,
so comparable; kinds of CLIENT and BRANCH reports differ; requests are not jobs; the null
values and the marks for "not in the body" are not members, in `Treasury` of the kinds
either; the main branch has no parent and no parent has one; orders and branches, where they
are summed, are finite sets; users with one id have one role), TLAPS checks:

- **ReportFlags**: `TypeOK`, `NoDoubleBilling`, `CreatorsQueueInOrder`,
  `ClientCommitMissesNothing`, and that `Spec` implements `ReportRegistry!Spec`.
- **ReportDelivery**: `DeliveryTypeOK`, `RecordIsOneCall` (in no run), `AnswersAgree`,
  `FirstDeliveryStands`.
- **EmployeeWallets** over **Ledger**: `TypeOK` and `WalletHistoryKept` (`WalletSafety`),
  `CountedMoneyHasItsReport` and `LiveReportHasItsMoney` (`MoneyFollowsReports`), that
  wallet rows never reach the main treasury (`WalletMoneyStaysOut`),
  `AssignmentFollowsHistory` (`AssignmentsFollowHistory`), `NoLostAssignment`
  (`AssignmentsAreNotLost`).
- **ReturnsDesk**: `TypeOK`, `InRepositoryHasPlace` (`PlacesAreKnown`), `TotalsMatch`
  (`CountsAreRight`), `OnTheWayIsTracked` (`OrdersAreNotLost`).
- **OrderUpdates**: `NetFollowsPayment` (`NetsFollowPayments`), `SettledAtItsValue`
  (`ReportsSettleAtTheirValue`), `GuardedOrderStays` (`GuardsHold`), `SettledOrderStays`
  (`SettledOrdersStay`).
- **OtherReports**: `ListsWhatItCounts` (`ListsWhatItCountsHolds`), `MadeForItsOrders`
  (`ReportsMadeForTheirOrders`).
- **BranchProfits**: `ProfitTypeOK` (`ProfitTypes`), and with `Holds` after their names
  `InsideNetFits`, `ListsMatchTotals`, `ProfitIsOwed`, `SnapshotAddsUp`.
- **RepositoryRoute**: `TypeOK` (`RouteTypes`), `ScreensAgree`, `SidesFollowClient`,
  `BilledSides` (the same with `Holds`).
- **Inquiries**: `TypeOK` (`InquiryTypes`), `SeenWasShown`, `ScopesAgree`,
  `TicketChangesHands` (the same with `Holds`).
- **HomeScreens**: `HomeTypeOK` (`HomeTypes`), `TilesAreTheirLists` (`TilesAreLists`),
  `AnswersHoldTogether` (`AnswersHold`).
- **Treasury**: `ListsAddUp`, `MoneyIsOnOneScreen`, `ApprovalTakesWhatWaits` (the same names
  with `Holds`, in `ScreensProofs`).
- **ListCaches**: `CachedListsAreCurrent` (`CachedListsStayCurrent`),
  `AnswersAreTheListAsked` (`AnswersAreRight`).

So every safety and action property of the passing runs is a theorem.

*The argument for ReportFlags.* `NoDoubleBilling` is not inductive: nothing in it says why a
creation about to commit has no rival. `IInv` adds which operation stands at which `pc`;
that a pending row belongs to one process and has its kind and orders; that exclusive locks
exclude each other and exclude foreign key shares; that a creation past its second look
holds all its orders, and that no other visible report of its kind that was not revived
holds any of them (`NothingTaken`); that locks of a waiting creation are exactly the ids
below those it wants (`LockedFromBelow`); and that the snapshot of a CLIENT creation still
contains every visible report of its orders (`SnapshotCurrent`). The last two give the lock
order and the completeness of the flags. Only BRANCH creations, which commit nothing of a
CLIENT kind, and reactivations could break `NothingTaken`: the first cannot by kind, the
second is excepted through `revived`.

*The argument for ReportDelivery.* At most one call holds the row; the row it holds stays
live and undelivered, and the employee it assigned stays; what a call is about to answer
agrees with what it is about to record, or with what was recorded when it read.

*The argument for the ledger.* `MoneyProofs` proves that every action of `Ledger` keeps
`LedgerInv`: types, every link leads to a report that exists, one row per report (the
one-to-one relation), the two properties on money, and no wallet row approved for main.
`OneRowPerReport` and `LinksExist` say which row a posting and an edit by hand may touch.
`WalletInv` adds that an uncommitted row is in the hands of one posting, on its wallet
(`RowsHeld`, `RowsApart`); that a request is about a wallet that was in the table
(`RequestsKnow`); and that an assignment that is not `stale` read the employee the wallet
still has, or one deleted since (`FreshReads`). The foreign key gives the rest: a DELETE
finds no row, committed or not, when it succeeds. The ledger's actions leave the wallets
alone, and the wallets' actions touch only rows of wallets, which no report posts, so each
step keeps the two invariants side by side.

*The argument for the returns desk.* `IInv` has three layers. `Base` says what a request of
each step holds: which orders it `Touches`, that two that touch the same order are on record
as contending, that a report loses orders and gains none. `Count` says that an order neither
contended for nor staged again is staged once per target (`UniqueRows`) and what a request
has taken from a report's orders but not yet from its total, or is going to list
(`Counted`); totals are cardinalities, so the lemmas about finite sets carry it. `Track`
says of an order nobody contended for (`Quiet`) that it is on one record or between two
(`Between`, `Handed`). A step of a request works on its own orders only; the lemmas `Runs`,
`Loses`, `Remains` say what is left of the others, once for all steps.

*The argument for orders and reports without locks.* In `OrderUpdates` and `OtherReports`
nothing locks, so the invariant is about requests: unless two requests held an order at once
(`Apart` puts such orders on record), the row a request read is the row it will write over
(`Faithful`), up to what single statements may change. `Decided` says which guard was asked
of the row that was read, closed or not, `Fitting` that the new row's net is right, and
`StillFree` that the early check for other reports still holds. The money of a report is a
sum over a set of orders of any size: the proofs never compute it, but show that the sum the
request took and the sum over the table have equal terms.

*The argument for the treasury.* The screens are read off one state, so the invariant is
small: types, and one row per report (`OneRow`), kept by every posting, link, edit and
deletion. The rest is the comparison of the conditions: `Shown` is the list, `Side` the side
main staff see a row on, and each figure is shown equal to the rows of its list.

*The argument for the caches.* What a change has still to do is one of four plans (`Plan`):
only writes; drop, then write; find keys, drop, write; write, find, drop. A change that has
only writes left has left no list behind that was read in peace, and one that found its keys
has found all of them (`Dropped`): reads that save later are marked as having met it
(`InPeace`). `Keyed` adds that a list is under its own key, which two lists of branches
share. The plans are sequences of at most five statements, split by their first elements,
without induction.

*The argument for profits.* `InsideNetFits` depends on how a row came to be, so `ProfitIInv`
keeps with it the types of the rows (`Rows`) and two facts about the nightly job: the rows
it has written are numbers (`DailyAreNumbers`), and as long as it runs and no order of its
day was written they are what its sums would give now (`DailyIsCurrent`). Every write of an
order goes through one lemma, `PutKeeps`; the lemma of an action says only what its new row
is. `ListsMatchTotals` and `ProfitIsOwed` are then comparisons of conditions, order by
order, over `Rows`. `SnapshotAddsUp` needs more: the table of all shares, branch by order,
has the job's figures as the sums of its rows (`RowIsShare`) and what the company has of an
order as the sum of each column (`SharesOfOrder`: at most three branches have a share, and
their nets cancel), and the two ways of adding it up agree (`SumSwap`).

*Sums over sets.* The job's sums are folds over sets of any finite size. The section of
`MoneyProofs` on sums has what they need: a set that has a property at the empty set and
keeps it with one more element has it (`SetInduction`). The library's induction theorems
cannot be used, so these lemmas take a smallest counterexample instead, which exists because
the subsets of a finite set are well-founded under inclusion (`SmallestSubset`). From there:
any element can be taken out of a sum (`SumRemove`), sums of equal terms, of sums, of part
of a set, and of a table by rows or columns.

*The argument for the route.* Where an order is does not say which sides it has, so `IInv`
adds `Standing` (an order at a desk or on the road has one, and the road is free of agents)
and `Ruled` (while no car wrote one side alone, the sides are those of the client recorded
for them). A request carries its decision over from its first read to its write, so
`Prepared` says what such a decision is: a place with all that belongs to it or none
(`Whole`), and once checked, both sides for the client the order had then (`Checked`). The
screens are functions of one order, and `ScreensAgree` compares them case by case.

*The argument for messages and tickets.* `IInv` says that what a request is about to mark as
seen was shown and is still there or deleted (`Reading`), that a ticket is as the request
found it until it changes hands, after which the request is on record as having `met` that
(`Held`), and that a ticket in a department was forwarded there. `ScopesAgree` compares the
four filters condition by condition, for one message and any user.

*The argument for the home screens.* Kept statistics (`KeptMatch`) and those an answer holds
(`VisitMatches`) count an order of the clients their key names, and a manager's answer is
divided into all of its groups or none: that is what makes the two queries of an answer hold
together. `TilesAreTheirLists` holds of every state of the right type: tile by tile, the
conditions of the count are those of the list.

*Only model-checked.* `FlagsRepaired`, `EveryCallAnswered`, `EveryEntryApproved`: liveness
under fairness is out of this prover's reach. `FlagsMatchAtRest` fails. That the sum of a
report is a number (the field's type in `TypeOK` of `OrderUpdates` and `OtherReports`) is
not proved; their invariants say no more of it than that it is a value, which is all their
theorems use, and TLC checked both types in runs of their own.

## 6. What is not modelled

- PostgreSQL's own behaviour (row locks, READ COMMITTED re-evaluation, serialization
  failures, foreign keys) is modelled from its use here and trusted. So are the
  non-transactional effects of a Redis that is down.
- The backfill script of the flags is the recompute of `ReportFlags` over all ids in batches
  and is not an action; the script that recomputes profits writes nothing by default.
- Orders: products, timelines, hard deletion, filters of the lists that users choose
  (search, dates, places, pages), statistics by governorate and of the day.
- Routing: bodies of `PATCH /orders/:orderID` other than the three forms of `Patch`, and a
  desk that names its own repository.
- Home screens: a user who moves to another branch while his statistics are kept, and the
  second read of the stores behind `readyToPrint` (orders.service.ts:2729-2753).
- External API: creation is that of staff; `createOrderV2` always writes location 2.
  Webhooks, sockets, push services and the rows of notifications are I/O no handler decides
  on.
- Companies, users' profiles, sign-in and roles, the in-memory duplicate filter, catalogue
  and settings, client receipts: one statement each, or no state that several operations
  share.
- PDF, barcodes and uploads: I/O and layout.
