---------------------------- MODULE OrderUpdates ----------------------------
(***************************************************************************)
(* The money and the status of orders, and everyone who writes them: staff *)
(* editing an order, clients, a partner company, the automatic updates     *)
(* job, forwarding, and the creation of client reports, which first writes *)
(* costs into the orders and then settles them.                            *)
(*                                                                         *)
(* Every writer reads the order, decides, and updates it by its id in a    *)
(* statement of its own that asks for nothing: a request is a process with *)
(* what it read and what it is going to write.                             *)
(*                                                                         *)
(* One price Total for every order.  REPLACED is treated like              *)
(* PARTIALLY_RETURNED, every other open status like WITH_DELIVERY_AGENT.   *)
(* The nets of agents, branches and the company are left out.              *)
(***************************************************************************)
EXTENDS Integers, FiniteSets, FiniteSetsExt

CONSTANTS
  Orders,    \* order ids (bounds the run)
  Reports,   \* ids of client reports (bounds the run)
  Requests,  \* requests in flight at once (bounds the run)
  MaxBegun,  \* requests begun in all (bounds the run)
  Total,     \* totalCost
  Amounts,   \* amounts somebody may enter as paid
  Costs,     \* delivery costs of the tables and of report forms
  Bodies,    \* what staff ask for (bounds the run)
  AutoFrom,  \* the statuses the automatic updates look for
  AutoTo,    \* the statuses they set
  Callers,   \* the rights of the staff, one set for each kind of employee
  Namesakes, \* orders whose client's number is the number of their company
  None       \* undefined: the field is not written

ASSUME MoneyAssumption ==
  /\ Total \in Nat /\ Amounts \subseteq Nat \ {0} /\ Costs \subseteq Nat
  /\ None \notin Int /\ MaxBegun \in Nat

Delivered == {"DELIVERED", "PARTIALLY_RETURNED"}
Statuses == Delivered \cup {"REGISTERED", "WITH_DELIVERY_AGENT", "RESEND", "RETURNED"}
Rights == {"pay", "treasury", "closed", "partial", "delete", "holder"}

\* The body of an update: recost is a field the delivery cost depends on.
Body == [status : Statuses \cup {None}, paid : Amounts \cup {0, None},
         agent : BOOLEAN, recost : BOOLEAN]

ASSUME NoneAssumption == None \notin Statuses /\ None \notin BOOLEAN
ASSUME StaffAssumption ==
  /\ Callers \subseteq SUBSET Rights
  /\ Bodies \subseteq Body
  /\ AutoFrom \subseteq Statuses /\ AutoTo \subseteq Statuses
  /\ Namesakes \subseteq Orders

VARIABLES
  order,       \* the orders; settled is the column hasDeliveredClientReport
  rep,         \* client reports, their join rows and their clientNet
  req,         \* the requests in flight
  begun,       \* how many have begun
  overlapped,  \* orders two requests worked on at once (history)
  askew        \* orders whose net is of another payment or cost (history)

vars == <<order, rep, req, begun, overlapped, askew>>

\* agent: has a delivery agent; sent: secondaryStatus SEND_TO_COMPANY.
Order == [state : {"free", "live", "deleted"}, status : Statuses, paid : Int, cost : Int,
          net : Int, agent : BOOLEAN, forwarded : BOOLEAN, sent : BOOLEAN, settled : BOOLEAN]

FreeOrder == [state |-> "free", status |-> "REGISTERED", paid |-> 0, cost |-> 0, net |-> 0,
              agent |-> FALSE, forwarded |-> FALSE, sent |-> FALSE, settled |-> FALSE]

Report == [state : {"free", "live", "deleted", "gone"}, secondaryType : {"DELIVERED", "RETURNED"},
           orders : SUBSET Orders, clientNet : Int]

FreeReport == [state |-> "free", secondaryType |-> "DELIVERED", orders |-> {}, clientNet |-> 0]

\* What a statement writes into an order.
Data == [status : Statuses \cup {None}, paid : Int \cup {None}, cost : Int \cup {None},
         net : Int \cup {None}, agent : BOOLEAN \cup {None}, forwarded : BOOLEAN \cup {None},
         sent : BOOLEAN \cup {None}]

NoData == [status |-> None, paid |-> None, cost |-> None, net |-> None,
           agent |-> None, forwarded |-> None, sent |-> None]

\* What a request remembers of an order it read.
Seen == [paid : Int, cost : Int, settled : BOOLEAN]

SeenOf(row) == [paid |-> row.paid, cost |-> row.cost, settled |-> row.settled]

\* Steps that end their request by writing what it holds.
LastSteps == {"update", "client", "partner", "auto", "forward"}

\* on: the orders it works on, closed: those it read closed, old: what it read of
\* them, new: what it writes.
Request == [step : {"idle", "delete", "costs", "create"} \cup LastSteps,
            on : SUBSET Orders, closed : SUBSET Orders,
            old : [Orders -> Seen], new : [Orders -> Data],
            who : SUBSET Rights, secondaryType : {"DELIVERED", "RETURNED"}]

Idle == [step |-> "idle", on |-> {}, closed |-> {},
         old |-> [o \in Orders |-> SeenOf(FreeOrder)],
         new |-> [o \in Orders |-> NoData], who |-> {}, secondaryType |-> "DELIVERED"]

Known(o) == order[o].state # "free"

\* Live reports of a kind that list the order.
LiveReportsOf(o, type) ==
  {r \in Reports : rep[r].state = "live" /\ rep[r].secondaryType = type /\ o \in rep[r].orders}

\* An order is read with its live reports only.
InReturnedReport(o) == LiveReportsOf(o, "RETURNED") # {}

Closed(o) == order[o].status = "DELIVERED" \/ InReturnedReport(o)

-----------------------------------------------------------------------------
(* Requests *)

\* A writer of the orders S meets the requests that are working on them.
Meets(S) == overlapped' = overlapped \cup (S \cap UNION {req[q].on : q \in Requests})

\* A request reads the orders S and knows what it is going to write.
Begin(p, step, S, new, who, type) ==
  /\ req[p].step = "idle"
  /\ begun < MaxBegun
  /\ \A o \in S : Known(o)
  /\ begun' = begun + 1
  /\ req' = [req EXCEPT ![p] =
       [step |-> step, on |-> S, closed |-> {o \in S : Closed(o)},
        old |-> [o \in Orders |-> SeenOf(IF o \in S THEN order[o] ELSE FreeOrder)],
        new |-> [o \in Orders |-> IF o \in S THEN new[o] ELSE NoData],
        who |-> who, secondaryType |-> type]]
  /\ Meets(S)
  /\ UNCHANGED <<order, rep, askew>>

BeginOne(p, step, o, new, who) == Begin(p, step, {o}, [x \in {o} |-> new], who, "DELIVERED")

Given(value, before) == IF value = None THEN before ELSE value

Written(row, d) ==
  [row EXCEPT !.status = Given(d.status, @), !.paid = Given(d.paid, @), !.cost = Given(d.cost, @),
              !.net = Given(d.net, @), !.agent = Given(d.agent, @),
              !.forwarded = Given(d.forwarded, @), !.sent = Given(d.sent, @)]

Apply(p) ==
  order' = [o \in Orders |-> IF o \in req[p].on THEN Written(order[o], req[p].new[o]) ELSE order[o]]

End(p) == req' = [req EXCEPT ![p] = Idle]

\* An error answer or a lost connection: what was written stays.
Stop(p) ==
  /\ req[p].step # "idle"
  /\ End(p)
  /\ UNCHANGED <<order, rep, begun, overlapped, askew>>

-----------------------------------------------------------------------------
(* updateOrder *)

\* The price is taken as paid on a delivery that says nothing about it.
Derived(old, b) ==
  IF b.paid = None /\ b.status # old.status /\ b.status \in Delivered /\ old.paid = 0
    THEN Total ELSE b.paid

IsAmount(paid) == paid # None /\ paid # 0

\* Nothing is paid on a return, nor with a status that is not a delivery.
PaidAmount(old, b) ==
  IF \/ b.status = "RETURNED" /\ old.status # "RETURNED"
     \/ IsAmount(Derived(old, b)) /\ b.status # None /\ b.status \notin Delivered
    THEN 0 ELSE Derived(old, b)

\* Another agent for an order that has one: the status that was asked for is dropped.
NewStatus(old, b) == IF old.agent /\ b.agent THEN None ELSE b.status

\* c: what getDeliverCost answers.  A cost of 0 is written and not used.
NewCost(old, b, c) ==
  IF b.recost \/ NewStatus(old, b) \in Delivered THEN c
  ELSE IF old.cost = 0 THEN None ELSE old.cost

\* Slip: the net is of the price, whatever was paid.
NetOfTotal(old, paid, cost) ==
  (IF IsAmount(paid) THEN Total ELSE old.paid) - (IF IsAmount(cost) THEN cost ELSE old.cost)

\* A payment of 0 counts as none given.
Net(old, paid, cost) ==
  (IF IsAmount(paid) THEN paid ELSE old.paid) - (IF IsAmount(cost) THEN cost ELSE old.cost)

UpdateData(old, b, c) ==
  [NoData EXCEPT
     !.status = NewStatus(old, b),
     !.paid = PaidAmount(old, b),
     !.cost = IF NewStatus(old, b) = "RETURNED" THEN 0 ELSE NewCost(old, b, c),
     !.net = IF NewStatus(old, b) = "RETURNED" THEN 0
             ELSE Net(old, PaidAmount(old, b), NewCost(old, b, c)),
     !.agent = IF b.agent THEN TRUE ELSE None,
     !.sent = IF NewStatus(old, b) = "DELIVERED" \/ (old.agent /\ b.agent)
                THEN FALSE ELSE None]

MayPay(old, b, who) ==
  IsAmount(b.paid) => "pay" \in who /\ (old.settled => "treasury" \in who)

MayChangeClosed(o, old, b, who) ==
  (b.status # None /\ Closed(o)) =>
    \/ "closed" \in who
    \/ old.status = "DELIVERED" /\ b.status = "PARTIALLY_RETURNED" /\ "partial" \in who

\* Slip: only the status is asked about.
MayChangeForwardedStatus(old, b, who) ==
  old.forwarded /\ "holder" \notin who => NewStatus(old, b) \in {None, old.status}

MayChangeForwarded(old, b, who) ==
  old.forwarded /\ "holder" \notin who =>
    NewStatus(old, b) \in {None, old.status} /\ ~IsAmount(PaidAmount(old, b))

\* Orders whose writers need a right: the others forget who asked.
Guarded(o) == order[o].settled \/ order[o].forwarded \/ Closed(o)

\* The refusals of an update already made do not apply when the body also
\* gives the recipient's name, so they are left out.
UpdateOrder(p, o, b, c, who) ==
  /\ MayPay(order[o], b, who)
  /\ MayChangeClosed(o, order[o], b, who)
  /\ MayChangeForwarded(order[o], b, who)
  /\ BeginOne(p, "update", o, UpdateData(order[o], b, c), IF Guarded(o) THEN who ELSE {})

-----------------------------------------------------------------------------
(* The other writers of one order *)

\* A client edits an order nobody has received yet.
UpdateOrderForClient(p, o, c) ==
  /\ order[o].status = "REGISTERED"
  /\ BeginOne(p, "client", o, [NoData EXCEPT !.cost = c, !.net = Net(order[o], None, c)], {})

\* A partner edits an order it forwarded and nobody has taken: no net.
UpdateOrderForPartner(p, o, paid) ==
  /\ order[o].sent
  /\ BeginOne(p, "partner", o, [NoData EXCEPT !.paid = paid], {})

\* The job reads the orders a rule matches, deleted ones too, and writes them one
\* by one.  The net it writes is that of the payment before.
AutomaticUpdate(p, o, from, to) ==
  /\ order[o].status = from
  /\ LET pays == from # to /\ to \in Delivered /\ order[o].paid = 0
     IN BeginOne(p, "auto", o,
          [NoData EXCEPT !.status = to, !.sent = FALSE,
                         !.paid = IF pays THEN Total ELSE None,
                         !.net = IF pays THEN order[o].paid - order[o].cost ELSE None], {})

ForwardOrderToCompany(p, o) ==
  /\ order[o].state = "live"
  /\ order[o].status \notin Delivered \cup {"RETURNED"}
  /\ BeginOne(p, "forward", o, [NoData EXCEPT !.forwarded = TRUE, !.sent = TRUE], {})

\* A zero that the code takes for "not given", a second return of an order paid
\* since the first, or a payment without its net.
LeavesAskew(p, o) ==
  LET old == req[p].old[o]
      new == req[p].new[o]
  IN \/ /\ new.status # "RETURNED"
        /\ \/ new.paid = 0 /\ old.paid # 0
           \/ new.cost = 0 /\ old.cost # 0
     \/ new.status = "RETURNED" /\ new.paid = None /\ old.paid # 0
     \/ new.paid # None /\ req[p].step \in {"partner", "auto"}

\* The update by id.
Write(p) ==
  /\ req[p].step \in LastSteps
  /\ Apply(p)
  /\ askew' = {o \in Orders : \/ o \in req[p].on /\ LeavesAskew(p, o)
                              \/ o \in askew /\ (o \in req[p].on => req[p].new[o].net = None)}
  /\ End(p)
  /\ UNCHANGED <<rep, begun, overlapped>>

\* What another company has taken on is deleted with a right only.
MayDelete(o, who) ==
  order[o].forwarded /\ ~order[o].sent /\ o \notin Namesakes => "delete" \in who

\* Slip: reading the flag is left to the screen that offers the button.
DeletesSettled(o, who) == MayDelete(o, who)

DeletesUnsettled(o, who) == ~order[o].settled /\ MayDelete(o, who)

\* By the staff; what a client deletes, an open order, the staff could.
DeactivateOrder(p, o, who) ==
  /\ DeletesUnsettled(o, who)
  /\ BeginOne(p, "delete", o, NoData, {})

WriteDeleted(p) ==
  /\ req[p].step = "delete"
  /\ order' = [o \in Orders |-> IF o \in req[p].on THEN [order[o] EXCEPT !.state = "deleted"]
                                ELSE order[o]]
  /\ End(p)
  /\ UNCHANGED <<rep, begun, overlapped, askew>>

-----------------------------------------------------------------------------
(* Writers of one statement *)

CreateOrder(o, c) ==
  /\ order[o].state = "free"
  /\ order' = [order EXCEPT ![o] = [FreeOrder EXCEPT !.state = "live", !.cost = c]]
  /\ UNCHANGED <<rep, req, begun, overlapped, askew>>

ReactivateOrder(o) ==
  /\ Known(o)
  /\ order' = [order EXCEPT ![o].state = "live"]
  /\ UNCHANGED <<rep, req, begun, overlapped, askew>>

ResendOrderByClient(o) ==
  /\ Known(o)
  /\ order' = [order EXCEPT ![o].status = "RESEND"]
  /\ Meets({o})
  /\ UNCHANGED <<rep, req, begun, askew>>

\* Closed orders too.
BulkForwardOrdersToCompany(S) ==
  /\ S # {}
  /\ \A o \in S : Known(o) /\ ~order[o].forwarded
  /\ order' = [o \in Orders |-> IF o \in S
                                  THEN [order[o] EXCEPT !.forwarded = TRUE, !.sent = TRUE]
                                  ELSE order[o]]
  /\ Meets(S)
  /\ UNCHANGED <<rep, req, begun, askew>>

-----------------------------------------------------------------------------
(* Client reports *)

\* The cost c of the form or of the tables.
CostData(old, c) == [NoData EXCEPT !.cost = c, !.net = old.paid - c]

\* Orders that are read, not on a report of the kind, get their costs.
CreateReport(p, S, type, costs) ==
  /\ S # {}
  /\ \A o \in S : LiveReportsOf(o, type) = {}
  /\ Begin(p, "costs", S,
           [o \in S |-> CostData(order[o], costs[o])], {}, type)

UpdateOrdersCosts(p) ==
  /\ req[p].step = "costs"
  /\ Apply(p)
  /\ askew' = askew \ req[p].on
  /\ req' = [req EXCEPT ![p].step = "create"]
  /\ UNCHANGED <<rep, begun, overlapped>>

\* hasDeliveredClientReport, recomputed for the orders of the report.
Settled(reports, S) ==
  [o \in Orders |-> IF o \in S
                      THEN [order[o] EXCEPT !.settled =
                              \E r \in Reports : /\ reports[r].state = "live"
                                                 /\ reports[r].secondaryType = "DELIVERED"
                                                 /\ o \in reports[r].orders]
                      ELSE order[o]]

\* Slip: the sum is of the orders as they were read.
SumAsRead(p) == MapThenSumSet(LAMBDA o : req[p].old[o].paid - req[p].old[o].cost, req[p].on)

\* applyOrderCostUpdates: the costs written are in the sum.
SumOfNets(p) == MapThenSumSet(LAMBDA o : req[p].new[o].net, req[p].on)

\* The orders are locked and their reports read again; the sums are not made again.
InsertReport(p, r) ==
  /\ req[p].step = "create"
  /\ rep[r].state = "free"
  /\ \A o \in req[p].on : LiveReportsOf(o, req[p].secondaryType) = {}
  /\ rep' = [rep EXCEPT ![r] = [state |-> "live", secondaryType |-> req[p].secondaryType,
                                orders |-> req[p].on, clientNet |-> SumOfNets(p)]]
  /\ order' = Settled(rep', req[p].on)
  /\ End(p)
  /\ UNCHANGED <<begun, overlapped, askew>>

\* deactivateReport and reactivateReport.
SetReport(r, from, to) ==
  /\ rep[r].state = from
  /\ rep' = [rep EXCEPT ![r].state = to]
  /\ order' = Settled(rep', rep[r].orders)
  /\ Meets(rep[r].orders)
  /\ UNCHANGED <<req, begun, askew>>

-----------------------------------------------------------------------------
Init ==
  /\ order = [o \in Orders |-> FreeOrder]
  /\ rep = [r \in Reports |-> FreeReport]
  /\ req = [p \in Requests |-> Idle]
  /\ begun = 0
  /\ overlapped = {}
  /\ askew = {}

OneOrder(p, o) ==
  \/ \E b \in Bodies, c \in Costs, who \in Callers : UpdateOrder(p, o, b, c, who)
  \/ \E c \in Costs : UpdateOrderForClient(p, o, c)
  \/ \E paid \in Amounts : UpdateOrderForPartner(p, o, paid)
  \/ \E from \in AutoFrom, to \in AutoTo : AutomaticUpdate(p, o, from, to)
  \/ ForwardOrderToCompany(p, o)
  \/ \E who \in Callers : DeactivateOrder(p, o, who)

Next ==
  \/ \E p \in Requests :
       \/ \E o \in Orders : OneOrder(p, o)
       \/ \E S \in SUBSET Orders, type \in {"DELIVERED", "RETURNED"} :
            \E costs \in [S -> Costs] : CreateReport(p, S, type, costs)
       \/ \E r \in Reports : InsertReport(p, r)
       \/ Write(p)
       \/ WriteDeleted(p)
       \/ UpdateOrdersCosts(p)
       \/ Stop(p)
  \/ \E o \in Orders : \/ \E c \in Costs : CreateOrder(o, c)
                       \/ ReactivateOrder(o)
                       \/ ResendOrderByClient(o)
  \/ \E S \in SUBSET Orders : BulkForwardOrdersToCompany(S)
  \/ \E r \in Reports : SetReport(r, "live", "deleted") \/ SetReport(r, "deleted", "live")

Spec == Init /\ [][Next]_vars

-----------------------------------------------------------------------------
(* Properties *)

\* Every variable has its type; a free row is empty and a creation knows the net
\* of every order it is going to sum.
TypeOK ==
  /\ order \in [Orders -> Order]
  /\ \A o \in Orders : order[o].state = "free" => order[o] = FreeOrder
  /\ rep \in [Reports -> Report]
  /\ req \in [Requests -> Request]
  /\ \A p \in Requests : req[p].step \in {"costs", "create"} =>
       \A o \in req[p].on : req[p].new[o].net \in Int
  /\ begun \in 0..MaxBegun
  /\ overlapped \subseteq Orders
  /\ askew \subseteq Orders

\* The request that wrote order o in this step.
Wrote(p, o) == req[p].step # "idle" /\ req'[p] # req[p] /\ o \in req[p].on

\* What a paid or delivered order owes its client is what was paid less the
\* delivery, along every sequence of edits, returns, resends, reports and
\* automatic updates that do not overlap.  The exceptions are a zero written over
\* a payment or a cost, a second return, and a payment entered by the automatic
\* update or by a partner; the next update that is none of these repairs them.
NetFollowsPayment ==
  \A o \in Orders \ (overlapped \cup askew) :
    order[o].paid # 0 \/ order[o].status \in Delivered =>
      order[o].net = order[o].paid - order[o].cost

\* A report is settled at the nets its orders have when it locks them, unless
\* another request worked on one of them meanwhile.
SettledAtItsValue ==
  [][\A r \in Reports :
       rep[r].state = "free" /\ rep'[r].state = "live" /\ rep'[r].orders \cap overlapped = {} =>
         rep'[r].clientNet = MapThenSumSet(LAMBDA o : order[o].net, rep'[r].orders)]_vars

\* A closed order, delivered or on a live report of returns, changes its status only
\* by an employee with the right to, a client's resend, the automatic updates, or a
\* request that had read the order before it was closed.  Staff of the company that forwarded an order away
\* neither move its status nor enter a payment, unless their request met another.
GuardedOrderStays ==
  [][\A o \in Orders :
       /\ Closed(o) /\ order'[o].status # order[o].status =>
            \/ order'[o].status = "RESEND" /\ req' = req
            \/ \E p \in Requests :
                 /\ Wrote(p, o)
                 /\ \/ req[p].step = "auto"
                    \/ "closed" \in req[p].who
                    \/ "partial" \in req[p].who /\ order'[o].status = "PARTIALLY_RETURNED"
                    \/ o \notin req[p].closed
       /\ order[o].forwarded =>
            \A p \in Requests :
              /\ Wrote(p, o) /\ req[p].step = "update"
              /\ \/ order'[o].status # order[o].status
                 \/ order'[o].paid # order[o].paid /\ order'[o].paid # 0
              => \/ "holder" \in req[p].who
                 \/ o \in overlapped]_vars

\* A settled order is not deleted, nor its payment replaced by another, unless by
\* the treasury, a partner, or a request that had read it unsettled or unpaid.
SettledOrderStays ==
  [][\A o \in Orders :
       /\ order[o].settled
       /\ \/ order[o].state = "live" /\ order'[o].state = "deleted"
          \/ order[o].paid # 0 /\ order'[o].paid \notin {0, order[o].paid}
       => \E p \in Requests :
            /\ Wrote(p, o)
            /\ \/ "treasury" \in req[p].who /\ req[p].step = "update"
               \/ req[p].step = "partner"
               \/ ~req[p].old[o].settled
               \/ req[p].step \in {"auto", "update"} /\ req[p].old[o].paid = 0]_vars

=============================================================================
