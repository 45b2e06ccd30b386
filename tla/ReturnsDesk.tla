----------------------------- MODULE ReturnsDesk -----------------------------
(***************************************************************************)
(* Returned orders on their way back: the desk of a branch stages them,    *)
(* makes RETURNED reports of what is staged, another desk receives them,   *)
(* clients confirm, and managers delete and restore the reports.           *)
(*                                                                         *)
(* No two statements of a request here are in one transaction, except the  *)
(* two of removeOrderFromRepositoryReport and those inside createReport,   *)
(* so a request is a process with one step per statement.                  *)
(*                                                                         *)
(* All orders have a returned status.  hasReturnedClientReport is read as  *)
(* what it stands for (ReportFlags is about keeping it so).  Totals are    *)
(* represented by the count of orders: every total is changed with it.     *)
(***************************************************************************)
EXTENDS Integers, FiniteSets

CONSTANTS
  Orders,    \* returned orders
  Reports,   \* report ids the sequence may hand out (bounds the run)
  Repos,     \* the returns repositories of the branches
  Outside,   \* who takes orders back besides them: Client, Company or both
  Requests,  \* requests in flight at once (bounds the run)
  MaxBegun,  \* requests begun in all (bounds the run)
  Bodies,    \* the targets a body may name at once: one repository at most
  SameId,    \* pairs of a report and a repository with the same number
  NoRepo,    \* repositoryId null
  NoReport   \* no report

Client  == "client"
Company == "company"
Targets == Outside \cup Repos

ASSUME TargetsAssumption == /\ Client \in Outside /\ Outside \subseteq {Client, Company}
                            /\ Repos \cap {Client, Company} = {} /\ NoRepo \notin Repos
ASSUME BodiesAssumption ==
  Bodies \subseteq SUBSET Targets /\ \A to \in Bodies : Cardinality(to \cap Repos) <= 1
ASSUME NoReportAssumption == NoReport \notin Reports
ASSUME MaxBegunAssumption == MaxBegun \in Nat

VARIABLES
  order,      \* secondaryStatus and repositoryId
  staged,     \* the table CustomerOutput; copy tells equal rows apart
  rep,        \* RETURNED reports with their join rows and count
  pc,         \* the next statement of each request
  begun,      \* how many requests have begun
  req,        \* what each request was asked to do, and what it has read
  contended,  \* orders two requests worked on at once (history)
  restaged,   \* orders staged again for a target they were staged for (history)
  loose       \* orders a request left half-way, or somebody took off the trail: a
              \* hard delete, a receipt confirmed by number, a company's report on
              \* an order staged for a repository (history)

vars == <<order, staged, rep, pc, req, begun, contended, restaged, loose>>

Places == {"IN_REPOSITORY", "IN_CAR", "SEND_TO_COMPANY", "WITH_CLIENT"}
Order == [place : Places, repo : Repos \cup {NoRepo}]

\* to: whom its columns name.  A row has storeId with clientId, companyId and
\* targetRepositoryId, whatever type it was staged as.
StagedRow == [order : Orders, at : Repos, to : SUBSET Targets, copy : Nat]

Report == [state : {"free", "live", "deleted", "gone"}, target : Targets, orders : SUBSET Orders,
           listed : SUBSET Orders, count : Int, at : Repos \cup {NoRepo}, confirmed : BOOLEAN]

FreeReport == [state |-> "free", target |-> Client, orders |-> {}, listed |-> {},
               count |-> 0, at |-> NoRepo, confirmed |-> FALSE]

Steps == {"idle", "stageMove", "stageRow", "make", "makeMove", "makeClear", "remove",
          "receiveClear", "receiveMove", "numberMove", "confirmMove", "relocate",
          "deactMove", "deactivate"}

Req == [orders : SUBSET Orders, listed : SUBSET Orders, at : Repos \cup {NoRepo}, target : Targets,
        to : SUBSET Targets, report : Reports \cup {NoReport}, count : Int, number : BOOLEAN]

NoReq == [orders |-> {}, listed |-> {}, at |-> NoRepo, target |-> Client, to |-> {},
          report |-> NoReport, count |-> 0, number |-> FALSE]

Existing == {r \in Reports : rep[r].state \in {"live", "deleted"}}

HasReturnedClientReport(o) ==
  \E r \in Reports : rep[r].state = "live" /\ rep[r].target = Client /\ o \in rep[r].orders

\* By one column, whatever the others hold.
RowsOf(S, at, target) == {x \in staged : x.order \in S /\ x.at = at /\ target \in x.to}

\* Repository reports that list the order, deleted ones included.
RepositoryReportsOf(o) == {r \in Existing : rep[r].target \in Repos /\ o \in rep[r].orders}

-----------------------------------------------------------------------------
(* Requests *)

\* The orders a request works on, from its first read to its end.
Touches(p) ==
  req[p].orders \cup (IF pc[p] \in {"confirmMove", "deactMove", "deactivate"}
                        THEN rep[req[p].report].orders ELSE {})

\* The request's next statement, and what it then knows.
Goto(p, step, r) ==
  /\ pc' = [pc EXCEPT ![p] = step]
  /\ req' = [req EXCEPT ![p] = r]

\* A request that starts while another works on one of its orders contends.
Start(p, step, r, S) ==
  /\ pc[p] = "idle"
  /\ begun < MaxBegun
  /\ begun' = begun + 1
  /\ Goto(p, step, r)
  /\ contended' = contended \cup (S \cap UNION {Touches(q) : q \in Requests \ {p}})
  /\ UNCHANGED restaged

Step(p, from, to) ==
  pc[p] = from /\ Goto(p, to, req[p]) /\ UNCHANGED <<begun, contended, restaged>>

Finish(p) == Goto(p, "idle", NoReq) /\ UNCHANGED <<begun, contended, restaged>>

\* An error answer, a lost connection or a restart: what is written stays.
Stop(p) ==
  /\ pc[p] # "idle"
  /\ loose' = loose \cup Touches(p)
  /\ Finish(p)
  /\ UNCHANGED <<order, staged, rep>>

MoveTo(S, place, repo) ==
  order' = [o \in Orders |-> IF o \in S THEN [place |-> place, repo |-> repo] ELSE order[o]]

-----------------------------------------------------------------------------
(* saveOrderInCache *)

\* Not staged for this target yet, in some repository, and not out to its client.
\* The body names the target and may name others, which are not looked at.
SaveOrderInCache(p, o, at, target, to) ==
  /\ ~\E x \in staged : x.order = o /\ target \in x.to
  /\ order[o].place = "IN_REPOSITORY"
  /\ target = Client => ~HasReturnedClientReport(o)
  /\ Start(p, IF target = Client THEN "stageRow" ELSE "stageMove",
           [NoReq EXCEPT !.orders = {o}, !.at = at, !.target = target, !.to = to], {o})
  /\ UNCHANGED <<order, staged, rep, loose>>

\* To another repository, or back to the company that forwarded it.
StageMove(p) ==
  /\ Step(p, "stageMove", "stageRow")
  /\ IF req[p].target = Company
       THEN MoveTo(req[p].orders, "SEND_TO_COMPANY", NoRepo)
       ELSE MoveTo(req[p].orders, "IN_CAR", req[p].target)
  /\ UNCHANGED <<staged, rep, loose>>

\* The table has no unique constraint.
NewRow(o, at, to) ==
  [order |-> o, at |-> at, to |-> to,
   copy |-> Cardinality({x \in staged : x.order = o /\ x.at = at /\ x.to = to})]

StageRow(p) ==
  /\ pc[p] = "stageRow"
  /\ staged' = staged \cup {NewRow(o, req[p].at, req[p].to) : o \in req[p].orders}
  /\ restaged' = restaged \cup {o \in req[p].orders :
                                 \E x \in staged : x.order = o /\ x.to \cap req[p].to # {}}
  /\ Goto(p, "idle", NoReq)
  /\ UNCHANGED <<order, rep, begun, contended, loose>>

-----------------------------------------------------------------------------
(* saveAndCreateReport *)

\* orderIds S (all orders when the body has none).  The totals count rows.
SaveAndCreateReport(p, S, at, target) ==
  /\ RowsOf(S, at, target) # {}
  /\ Start(p, "make", [NoReq EXCEPT !.orders = S, !.at = at, !.target = target,
                                    !.listed = {x.order : x \in RowsOf(S, at, target)},
                                    !.count = Cardinality(RowsOf(S, at, target))], S)
  /\ UNCHANGED <<order, staged, rep, loose>>

\* A CLIENT report locks its orders and refuses those already out to the client.
CreateReport(p, r) ==
  /\ pc[p] = "make"
  /\ rep[r].state = "free"
  /\ req[p].target = Client => ~\E o \in req[p].listed : HasReturnedClientReport(o)
  /\ rep' = [rep EXCEPT ![r] = [state |-> "live", target |-> req[p].target,
                                orders |-> req[p].listed, listed |-> req[p].listed,
                                count |-> req[p].count, at |-> req[p].at, confirmed |-> FALSE]]
  /\ Goto(p, IF req[p].target = Client THEN "makeMove" ELSE "makeClear",
          [req[p] EXCEPT !.report = r])
  /\ UNCHANGED <<order, staged, begun, contended, restaged, loose>>

\* With the client, or with the receiving agent on the way there.
MakeMove(p) ==
  /\ Step(p, "makeMove", "makeClear")
  /\ MoveTo(req[p].listed, "WITH_CLIENT", NoRepo)
  /\ UNCHANGED <<staged, rep, loose>>

\* Slip: the rows of the whole target are deleted, whatever was asked for.
ClearedRowsOfTarget(p) == RowsOf(Orders, req[p].at, req[p].target)

\* The same filter again, not the rows that were read.
ClearedRows(p) == RowsOf(req[p].orders, req[p].at, req[p].target)

\* A company's report moves nothing, and takes the rows that name it.
MakeClear(p) ==
  /\ pc[p] = "makeClear"
  /\ staged' = staged \ ClearedRows(p)
  /\ loose' = loose \cup {x.order : x \in {y \in ClearedRows(p) : /\ req[p].target = Company
                                                                 /\ y.to \cap Repos # {}}}
  /\ Finish(p)
  /\ UNCHANGED <<order, rep>>

-----------------------------------------------------------------------------
(* addReturnedOrderToRepository and repositoryConfirmOrderByReceiptNumber *)

\* One of the reports that list it, or none.
FoundReport(o, r) ==
  IF RepositoryReportsOf(o) = {} THEN r = NoReport ELSE r \in RepositoryReportsOf(o)

ReceiveReq(o, at, r, number) ==
  [NoReq EXCEPT !.orders = {o}, !.at = at, !.report = r, !.number = number]

AddReturnedOrderToRepository(p, o, at, r) ==
  /\ order[o] # [place |-> "IN_REPOSITORY", repo |-> at]
  /\ ~HasReturnedClientReport(o)
  /\ FoundReport(o, r)
  /\ Start(p, IF r = NoReport THEN "receiveClear" ELSE "remove", ReceiveReq(o, at, r, FALSE), {o})
  /\ UNCHANGED <<order, staged, rep, loose>>

ConfirmByReceiptNumber(p, o, at, r) ==
  /\ FoundReport(o, r)
  /\ Start(p, IF r = NoReport THEN "numberMove" ELSE "remove", ReceiveReq(o, at, r, TRUE), {o})
  /\ UNCHANGED <<order, staged, rep, loose>>

\* Slip: the order leaves the report, its numbers stay.
Disconnected(p, r) == [rep[r] EXCEPT !.orders = @ \ req[p].orders]

\* disconnect is silent when there is nothing to disconnect; decrement is not.
Decremented(p, r) == [rep[r] EXCEPT !.orders = @ \ req[p].orders, !.count = @ - 1]

RemoveOrderFromRepositoryReport(p) ==
  /\ req[p].report \in Existing
  /\ Step(p, "remove", IF req[p].number THEN "numberMove" ELSE "receiveClear")
  /\ rep' = [rep EXCEPT ![req[p].report] = Decremented(p, req[p].report)]
  /\ UNCHANGED <<order, staged, loose>>

\* Without a report all rows of the order go.  With one, those whose target
\* repository has the report's number.
ReceiveClear(p) ==
  /\ Step(p, "receiveClear", "receiveMove")
  /\ staged' = {x \in staged : ~ /\ x.order \in req[p].orders
                                 /\ \/ req[p].report = NoReport
                                    \/ \E t \in x.to : <<req[p].report, t>> \in SameId}
  /\ UNCHANGED <<order, rep, loose>>

\* updateOrder, asked for IN_REPOSITORY and this desk's repository.
ReceiveMove(p) ==
  /\ pc[p] = "receiveMove"
  /\ MoveTo(req[p].orders, "IN_REPOSITORY", req[p].at)
  /\ Finish(p)
  /\ UNCHANGED <<staged, rep, loose>>

\* updateOrder, asked for a repository and nothing else.
NumberMove(p) ==
  /\ pc[p] = "numberMove"
  /\ order' = [o \in Orders |-> IF o \in req[p].orders THEN [order[o] EXCEPT !.repo = req[p].at]
                                ELSE order[o]]
  /\ loose' = loose \cup req[p].orders
  /\ Finish(p)
  /\ UNCHANGED <<staged, rep>>

-----------------------------------------------------------------------------
(* updateReport, deactivateReport, reactivateReport, deleteReport *)

\* The client confirms a live report, an employee any, or takes it back.
UpdateReport(p, r, yes) ==
  /\ r \in Existing
  /\ rep' = [rep EXCEPT ![r].confirmed = yes]
  /\ IF yes /\ rep[r].target = Client
       THEN Start(p, "confirmMove", [NoReq EXCEPT !.report = r], rep[r].orders)
       ELSE pc[p] = "idle" /\ UNCHANGED <<pc, req, begun, contended, restaged>>
  /\ UNCHANGED <<order, staged, loose>>

ConfirmMove(p) ==
  /\ pc[p] = "confirmMove"
  /\ order' = [o \in Orders |-> IF o \in rep[req[p].report].orders
                                  THEN [order[o] EXCEPT !.place = "WITH_CLIENT"] ELSE order[o]]
  /\ Finish(p)
  /\ UNCHANGED <<staged, rep, loose>>

\* An employee moves a repository report to another repository; its orders are
\* moved one by one, each update started and not awaited.
MoveReport(p, r, at) ==
  /\ r \in Existing
  /\ rep[r].target \in Repos
  /\ rep' = [rep EXCEPT ![r].at = at]
  /\ Start(p, "relocate", [NoReq EXCEPT !.orders = rep[r].orders, !.at = at], rep[r].orders)
  /\ UNCHANGED <<order, staged, loose>>

Relocate(p, o) ==
  /\ pc[p] = "relocate"
  /\ o \in req[p].orders
  /\ Goto(p, "relocate", [req[p] EXCEPT !.orders = @ \ {o}])
  /\ order' = [order EXCEPT ![o].repo = req[p].at]
  /\ UNCHANGED <<staged, rep, begun, contended, restaged, loose>>

Relocated(p) ==
  /\ pc[p] = "relocate"
  /\ req[p].orders = {}
  /\ Finish(p)
  /\ UNCHANGED <<order, staged, rep, loose>>

\* Orders of a repository return come back, those of a client's unless confirmed.
ComesBack(r) == rep[r].target \in Repos \/ (rep[r].target = Client /\ ~rep[r].confirmed)

DeactivateReport(p, r) ==
  /\ r \in Existing
  /\ Start(p, IF ComesBack(r) THEN "deactMove" ELSE "deactivate",
           [NoReq EXCEPT !.report = r, !.at = rep[r].at], rep[r].orders)
  /\ UNCHANGED <<order, staged, rep, loose>>

\* Slip: the repository is left as the report's creation left it.
BackPlaceOnly(p, o) == [order[o] EXCEPT !.place = "IN_REPOSITORY"]

Back(p, o) == [place |-> "IN_REPOSITORY", repo |-> req[p].at]

DeactMove(p) ==
  /\ Step(p, "deactMove", "deactivate")
  /\ order' = [o \in Orders |-> IF o \in rep[req[p].report].orders THEN Back(p, o) ELSE order[o]]
  /\ UNCHANGED <<staged, rep, loose>>

Deactivate(p) ==
  /\ pc[p] = "deactivate"
  /\ req[p].report \in Existing
  /\ rep' = [rep EXCEPT ![req[p].report].state = "deleted"]
  /\ Finish(p)
  /\ UNCHANGED <<order, staged, loose>>

\* Restored without a look at where the orders are.
ReactivateReport(r) ==
  /\ r \in Existing
  /\ rep' = [rep EXCEPT ![r].state = "live"]
  /\ UNCHANGED <<order, staged, pc, req, begun, contended, restaged, loose>>

DeleteReport(r) ==
  /\ r \in Existing
  /\ rep' = [rep EXCEPT ![r].state = "gone", ![r].orders = {}]
  /\ loose' = loose \cup rep[r].orders
  /\ UNCHANGED <<order, staged, pc, req, begun, contended, restaged>>

-----------------------------------------------------------------------------
Init ==
  /\ \E at \in Repos : order = [o \in Orders |-> [place |-> "IN_REPOSITORY", repo |-> at]]
  /\ staged = {}
  /\ rep = [r \in Reports |-> FreeReport]
  /\ pc = [p \in Requests |-> "idle"]
  /\ req = [p \in Requests |-> NoReq]
  /\ begun = 0
  /\ contended = {}
  /\ restaged = {}
  /\ loose = {}

Desk(p, at) ==
  \/ \E o \in Orders, to \in {X \in Bodies : at \notin X} :
       \E t \in to : SaveOrderInCache(p, o, at, t, to)
  \/ \E S \in SUBSET Orders, t \in Targets \ {at} : SaveAndCreateReport(p, S, at, t)
  \/ \E o \in Orders, r \in Reports \cup {NoReport} :
       AddReturnedOrderToRepository(p, o, at, r) \/ ConfirmByReceiptNumber(p, o, at, r)

\* The bound is reached and nothing is in flight.
Rest ==
  /\ begun = MaxBegun
  /\ \A p \in Requests : pc[p] = "idle"
  /\ UNCHANGED vars

Next ==
  \/ \E p \in Requests :
       \/ \E at \in Repos : Desk(p, at) \/ \E r \in Reports : MoveReport(p, r, at)
       \/ \E o \in Orders : Relocate(p, o)
       \/ Relocated(p)
       \/ \E r \in Reports : \/ CreateReport(p, r)
                             \/ \E yes \in BOOLEAN : UpdateReport(p, r, yes)
                             \/ DeactivateReport(p, r)
       \/ StageMove(p)
       \/ StageRow(p)
       \/ MakeMove(p)
       \/ MakeClear(p)
       \/ RemoveOrderFromRepositoryReport(p)
       \/ ReceiveClear(p)
       \/ ReceiveMove(p)
       \/ NumberMove(p)
       \/ ConfirmMove(p)
       \/ DeactMove(p)
       \/ Deactivate(p)
       \/ Stop(p)
  \/ \E r \in Reports : ReactivateReport(r) \/ DeleteReport(r)
  \/ Rest

Spec == Init /\ [][Next]_vars

-----------------------------------------------------------------------------
(* Properties *)

\* Every variable has its type; an unused report id holds nothing.
TypeOK ==
  /\ order \in [Orders -> Order]
  /\ staged \subseteq StagedRow
  /\ rep \in [Reports -> Report]
  /\ \A r \in Reports : rep[r].state = "free" => rep[r] = FreeReport
  /\ pc \in [Requests -> Steps]
  /\ req \in [Requests -> Req]
  /\ begun \in 0..MaxBegun
  /\ contended \subseteq Orders
  /\ restaged \subseteq Orders
  /\ loose \subseteq Orders

\* An order in a repository is in one that is known, however staging, receiving,
\* confirming and deleting a report interleave.
InRepositoryHasPlace ==
  \A o \in Orders : order[o].place = "IN_REPOSITORY" => order[o].repo \in Repos

\* A report's totals are those of the orders it lists, as long as no two requests
\* ever worked on one of these orders at once and none was staged a second time for a
\* target it was staged for (saveOrderInCache looks for the type it is asked for, and
\* writes every column of the body): requests on different orders of one report, and
\* requests that stop half-way, do not disturb them.
TotalsMatch ==
  \A r \in Existing : rep[r].listed \cap (contended \cup restaged) = {} =>
    rep[r].count = Cardinality(rep[r].orders)

\* An order sent to another repository is staged for it, or on a live repository
\* report, or somebody is about to write so: whoever stages, reports or receives
\* other orders does not lose it.
OnTheWayIsTracked ==
  \A o \in Orders \ (contended \cup loose) :
    order[o].place = "IN_CAR" =>
      \/ \E x \in staged : x.order = o /\ x.to \cap Repos # {}
      \/ \E r \in RepositoryReportsOf(o) : rep[r].state = "live"
      \/ \E p \in Requests : o \in Touches(p)

=============================================================================
