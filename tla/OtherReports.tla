---------------------------- MODULE OtherReports ----------------------------
(***************************************************************************)
(* Reports of the types without a second look: DELIVERY_AGENT, GOVERNORATE,*)
(* COMPANY, REPOSITORY and BRANCH.  (CLIENT reports are in ReportFlags.)   *)
(*                                                                         *)
(* The service reads the orders, refuses those on another report of the    *)
(* kind, writes costs into them, sums them and makes the report.  Nothing  *)
(* is locked and nothing is asked again, so a request is a process with    *)
(* what it read.  An order has one agent's and one governorate's report    *)
(* (a foreign key) and a list of the others.                               *)
(*                                                                         *)
(* One place of delivery per order, so one cost; profits agreed with       *)
(* clients are costs too.  Two nets: companyNet, which agents' and         *)
(* companies' reports settle, and branchNet.                               *)
(***************************************************************************)
EXTENDS Integers, FiniteSets, FiniteSetsExt

CONSTANTS
  Orders,    \* order ids (bounds the run)
  Reports,   \* report ids the sequence may hand out (bounds the run)
  Requests,  \* requests in flight at once (bounds the run)
  MaxBegun,  \* requests begun in all (bounds the run)
  Kinds,     \* kinds of reports that are made
  Amounts,   \* amounts somebody may enter as paid
  Costs      \* costs of forms and tables; 0 in a company's form: not given

AllKinds == {"DELIVERY_AGENT", "GOVERNORATE", "COMPANY", "REPOSITORY_RETURNED",
             "REPOSITORY_DELIVERED", "BRANCH"}

ASSUME KindsAssumption == Kinds \subseteq AllKinds
ASSUME MoneyAssumption == Amounts \subseteq Nat /\ Costs \subseteq Nat /\ MaxBegun \in Nat

VARIABLES
  order,       \* what was paid, and the two nets
  rep,         \* the reports, with the orders they list and count
  req,         \* the requests in flight
  begun,       \* how many have begun
  overlapped,  \* orders two requests worked on at once (history)
  revived      \* reports that were restored (history)

vars == <<order, rep, req, begun, overlapped, revived>>

Order == [paid : Int, companyNet : Int, branchNet : Int]

\* counted: the orders its sum was made of.
Report == [state : {"free", "live", "deleted", "gone"}, kind : AllKinds,
           orders : SUBSET Orders, counted : SUBSET Orders, amount : Int]

FreeReport == [state |-> "free", kind |-> "BRANCH", orders |-> {}, counted |-> {}, amount |-> 0]

\* old: the orders as it read them, or as it changed them in memory.
Request == [step : {"idle", "costs", "reread", "insert", "update"}, on : SUBSET Orders,
            old : [Orders -> Order], kind : AllKinds, cost : [Orders -> Costs \cup {0}],
            paid : Amounts \cup {0}]

Unpaid == [paid |-> 0, companyNet |-> 0, branchNet |-> 0]

Idle == [step |-> "idle", on |-> {}, old |-> [o \in Orders |-> Unpaid], kind |-> "BRANCH",
         cost |-> [o \in Orders |-> 0], paid |-> 0]

Existing == {r \in Reports : rep[r].state \in {"live", "deleted"}}

LiveReportsOf(o, kind) ==
  {r \in Reports : rep[r].state = "live" /\ rep[r].kind = kind /\ o \in rep[r].orders}

ToOne == {"DELIVERY_AGENT", "GOVERNORATE"}

\* A BRANCH report asks for nothing; a DELIVERED repository report asks for a
\* client's report instead of a repository's.
Checked == AllKinds \ {"BRANCH", "REPOSITORY_DELIVERED"}

-----------------------------------------------------------------------------
(* Requests *)

\* The orders of another request, from its first read to its end.
Begin(p, r) ==
  /\ req[p].step = "idle"
  /\ begun < MaxBegun
  /\ begun' = begun + 1
  /\ req' = [req EXCEPT ![p] = r]
  /\ overlapped' = overlapped \cup (r.on \cap UNION {req[q].on : q \in Requests})

Goto(p, step) == req' = [req EXCEPT ![p].step = step]

End(p) == req' = [req EXCEPT ![p] = Idle]

\* An error answer or a lost connection: what was written stays.
Stop(p) ==
  /\ req[p].step # "idle"
  /\ End(p)
  /\ UNCHANGED <<order, rep, begun, overlapped, revived>>

-----------------------------------------------------------------------------
(* createReport *)

\* The orders of S, as the table has them now.
ReadOf(S) == [o \in Orders |-> IF o \in S THEN order[o] ELSE Unpaid]

\* Slip: an order's one report is not looked at.
RefusedFromLists(o, kind) == kind \in Checked \ ToOne /\ LiveReportsOf(o, kind) # {}

\* "Check if orders are not in another report"
Refused(o, kind) == kind \in Checked /\ LiveReportsOf(o, kind) # {}

Costed == {"DELIVERY_AGENT", "BRANCH", "COMPANY"}

\* A company's form without any cost leaves the nets alone.
FirstStep(kind, S, cost) ==
  IF kind \notin Costed \/ (kind = "COMPANY" /\ \A o \in S : cost[o] = 0) THEN "insert"
  ELSE "costs"

CreateReport(p, S, kind, cost) ==
  /\ S # {}
  /\ \A o \in S : ~Refused(o, kind)
  /\ Begin(p, [step |-> FirstStep(kind, S, cost), on |-> S, old |-> ReadOf(S), kind |-> kind,
               cost |-> [o \in Orders |-> IF o \in S /\ kind \in Costed THEN cost[o] ELSE 0],
               paid |-> 0])
  /\ UNCHANGED <<order, rep, revived>>

\* What the cost statement leaves in order o.
Costing(p, o) ==
  LET read == req[p].old[o]
  IN CASE req[p].kind = "DELIVERY_AGENT" -> [order[o] EXCEPT !.companyNet = read.paid - req[p].cost[o]]
       [] req[p].kind = "BRANCH"         -> [order[o] EXCEPT !.branchNet = read.paid - req[p].cost[o]]
       [] OTHER                          -> [order[o] EXCEPT !.companyNet = order[o].paid - req[p].cost[o]]

\* What applyOrderCostUpdates leaves in memory: a cost of 0 in a company's form
\* is passed over here, though not by the statement.
Applied(p, o) ==
  LET read == req[p].old[o]
  IN IF o \notin req[p].on THEN read
     ELSE CASE req[p].kind = "BRANCH" -> [read EXCEPT !.branchNet = read.paid - req[p].cost[o]]
            [] req[p].kind = "COMPANY" /\ req[p].cost[o] # 0 ->
                 [read EXCEPT !.companyNet = read.paid - req[p].cost[o]]
            [] OTHER -> read

UpdateOrdersCosts(p) ==
  /\ req[p].step = "costs"
  /\ order' = [o \in Orders |-> IF o \in req[p].on THEN Costing(p, o) ELSE order[o]]
  /\ req' = [req EXCEPT ![p].step = IF req[p].kind = "DELIVERY_AGENT" THEN "reread" ELSE "insert",
                        ![p].old = [o \in Orders |-> Applied(p, o)]]
  /\ UNCHANGED <<rep, begun, overlapped, revived>>

\* Slip: the sums are of the orders as they were before their costs.
RereadNothing(p) ==
  /\ req[p].step = "reread"
  /\ Goto(p, "insert")
  /\ UNCHANGED <<order, rep, begun, overlapped, revived>>

\* An agent's report reads its orders again instead.
Reread(p) ==
  /\ req[p].step = "reread"
  /\ req' = [req EXCEPT ![p].step = "insert", ![p].old = ReadOf(req[p].on)]
  /\ UNCHANGED <<order, rep, begun, overlapped, revived>>

\* What a report of the kind settles, of an order.
NetOf(kind, o) == IF kind = "BRANCH" THEN o.branchNet ELSE o.companyNet

\* connect: a to-one order leaves the report of the kind it was on.
Connected(p) ==
  [r \in Reports |-> IF req[p].kind \in ToOne /\ rep[r].kind = req[p].kind
                       THEN [rep[r] EXCEPT !.orders = @ \ req[p].on]
                       ELSE rep[r]]

InsertReport(p, r) ==
  /\ req[p].step = "insert"
  /\ rep[r].state = "free"
  /\ rep' = [Connected(p) EXCEPT ![r] =
       [state |-> "live", kind |-> req[p].kind, orders |-> req[p].on, counted |-> req[p].on,
        amount |-> MapThenSumSet(LAMBDA o : NetOf(req[p].kind, req[p].old[o]), req[p].on)]]
  /\ End(p)
  /\ UNCHANGED <<order, begun, overlapped, revived>>

-----------------------------------------------------------------------------
(* Everybody else *)

\* Staff enter a payment; companyNet is written as it was read.
UpdateOrder(p, o, paid) ==
  /\ Begin(p, [Idle EXCEPT !.step = "update", !.on = {o}, !.old = ReadOf({o}), !.paid = paid])
  /\ UNCHANGED <<order, rep, revived>>

WriteOrder(p) ==
  /\ req[p].step = "update"
  /\ order' = [o \in Orders |->
                 IF o \in req[p].on
                   THEN [order[o] EXCEPT !.paid = req[p].paid,
                                         !.companyNet = req[p].old[o].companyNet]
                   ELSE order[o]]
  /\ End(p)
  /\ UNCHANGED <<rep, begun, overlapped, revived>>

DeactivateReport(r) ==
  /\ r \in Existing
  /\ rep' = [rep EXCEPT ![r].state = "deleted"]
  /\ UNCHANGED <<order, req, begun, overlapped, revived>>

\* Restored without a look at where its orders are now.
ReactivateReport(r) ==
  /\ r \in Existing
  /\ rep' = [rep EXCEPT ![r].state = "live"]
  /\ revived' = IF rep[r].state = "deleted" THEN revived \cup {r} ELSE revived
  /\ UNCHANGED <<order, req, begun, overlapped>>

DeleteReport(r) ==
  /\ r \in Existing
  /\ rep' = [rep EXCEPT ![r].state = "gone", ![r].orders = {}]
  /\ UNCHANGED <<order, req, begun, overlapped, revived>>

-----------------------------------------------------------------------------
Init ==
  /\ order \in [Orders -> {[Unpaid EXCEPT !.paid = a] : a \in Amounts \cup {0}}]
  /\ rep = [r \in Reports |-> FreeReport]
  /\ req = [p \in Requests |-> Idle]
  /\ begun = 0
  /\ overlapped = {}
  /\ revived = {}

\* The bound is reached and nothing is in flight.
Rest ==
  /\ begun = MaxBegun
  /\ \A p \in Requests : req[p].step = "idle"
  /\ UNCHANGED vars

Next ==
  \/ \E p \in Requests :
       \/ \E S \in SUBSET Orders, kind \in Kinds :
            \E cost \in [S -> Costs] : CreateReport(p, S, kind, cost)
       \/ UpdateOrdersCosts(p)
       \/ Reread(p)
       \/ \E r \in Reports : InsertReport(p, r)
       \/ \E o \in Orders, paid \in Amounts : UpdateOrder(p, o, paid)
       \/ WriteOrder(p)
       \/ Stop(p)
  \/ \E r \in Reports : DeactivateReport(r) \/ ReactivateReport(r) \/ DeleteReport(r)
  \/ Rest

Spec == Init /\ [][Next]_vars

-----------------------------------------------------------------------------
(* Properties *)

\* Every variable has its type; a report lists no order it did not count, and
\* no order is left on a report that is gone.
TypeOK ==
  /\ order \in [Orders -> Order]
  /\ rep \in [Reports -> Report]
  /\ \A r \in Reports : /\ rep[r].orders \subseteq rep[r].counted
                         /\ rep[r].state \in {"free", "gone"} => rep[r].orders = {}
  /\ req \in [Requests -> Request]
  /\ begun \in 0..MaxBegun
  /\ overlapped \subseteq Orders
  /\ revived \subseteq Reports

\* An order is counted in the money of one live report of a kind that is checked,
\* and a live report lists every order its money counts: the early check is enough
\* for any sequence of creations and deletions, and none is taken by a later report
\* of an agent or a governorate, unless two requests worked on it at once or a
\* report was restored.
ListsWhatItCounts ==
  /\ \A r, s \in Reports \ revived :
       /\ r # s
       /\ rep[r].state = "live" /\ rep[s].state = "live"
       /\ rep[r].kind = rep[s].kind /\ rep[r].kind \in Checked
       => rep[r].counted \cap rep[s].counted \subseteq overlapped
  /\ \A r \in Reports \ revived :
       rep[r].state = "live" => rep[r].counted \subseteq rep[r].orders \cup overlapped

\* A report is made for the nets its orders have in the table at that moment,
\* whatever was read, costed and read again before, unless another request worked
\* on one of them meanwhile.  The exception is a company's form that gives the
\* cost of some of the orders only.
MadeForItsOrders ==
  [][\A p \in Requests, r \in Reports :
       /\ rep[r].state = "free" /\ rep'[r].state = "live"
       /\ req[p].step = "insert" /\ req'[p].step = "idle"
       /\ req[p].on \cap overlapped = {}
       /\ req[p].kind = "COMPANY" =>
            \/ \A o \in req[p].on : req[p].cost[o] = 0
            \/ \A o \in req[p].on : req[p].cost[o] # 0
       => rep'[r].amount = MapThenSumSet(LAMBDA o : NetOf(req[p].kind, order[o]), req[p].on)]_vars

=============================================================================
