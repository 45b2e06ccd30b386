--------------------------- MODULE BranchProfits ---------------------------
(***************************************************************************)
(* What the branches of a company earn on an order, and what they owe.     *)
(*                                                                         *)
(* An order keeps its fee, its agent's share and three branch nets, written*)
(* by updates and by the cost statements of reports.  The daily job and    *)
(* two screens sum them, each with queries of its own.  One place of       *)
(* delivery, so a table has one price per branch; every write of an order  *)
(* is one step here (see OrderUpdates for what comes between).             *)
(***************************************************************************)
EXTENDS Integers, FiniteSets, FiniteSetsExt

CONSTANTS
  Orders, Branches,
  Main,          \* the branch with the main repository
  ParentOf,      \* the parent of a child branch, or NoBranch
  NoBranch,      \* null
  Baghdad,       \* branches whose governorate is Baghdad
  Abroad,        \* the branch of a client of the company that forwarded the order
  Tariff,        \* a client's price
  CompanyTariff, \* the price of orders forwarded by that company
  ReceivingDeliveryCosts, ForwardedDeliveryCosts,  \* the tables of the branches
  Deal,          \* the shares agreed with a client whose activeProfit is set
  DealAt,        \* the branches it has a row for
  AgentCosts,    \* what agents take for an order
  FormCosts,     \* costs entered in a report's form; 0: none
  AgentCut,      \* 250 in the code
  MaxWrites      \* writes of orders (bounds the run)

ASSUME MainAssumption == Main \in Branches
ASSUME NullAssumption == NoBranch \notin Branches /\ Abroad \notin Branches \cup {NoBranch}
ASSUME FamilyAssumption ==
  /\ ParentOf \in [Branches -> Branches \cup {NoBranch}] /\ ParentOf[Main] = NoBranch
  /\ \A b \in Branches : ParentOf[b] # NoBranch => ParentOf[ParentOf[b]] = NoBranch
  /\ Baghdad \subseteq Branches
ASSUME FiniteAssumption == IsFiniteSet(Orders) /\ IsFiniteSet(Branches)
ASSUME PricesAssumption ==
  /\ Tariff \in Nat /\ CompanyTariff \in Nat /\ AgentCut \in Nat /\ MaxWrites \in Nat
  /\ ReceivingDeliveryCosts \in [Branches -> Nat]
  /\ ForwardedDeliveryCosts \in [Branches -> Nat]
  /\ Deal \in [agent : Nat, main : Nat, forwarded : Nat, receiving : Nat]
  /\ DealAt \subseteq Branches /\ AgentCosts \subseteq Nat /\ FormCosts \subseteq Nat

VARIABLES
  order,    \* the orders
  now,      \* the day: 1, then 2
  daily,    \* the profits of day 1, of the branches the job wrote a row for
  todo,     \* branches the job has still to write
  writes,   \* writes of orders so far
  askew,    \* orders whose fee, agent's share or branch changed after their nets (history)
  touched   \* orders of day 1 written while the job runs (history)

profitVars == <<order, now, daily, todo, writes, askew, touched>>

\* settled: the kinds of live reports that have a flag here.
Order == [status : {"none", "open", "delivered", "returned"},
          branch : Branches \cup {NoBranch}, client : Branches \cup {NoBranch, Abroad},
          deal : BOOLEAN, confirmed : BOOLEAN, fee : Int, oldFee : Int, agent : Int,
          inside : Int, forwarded : Int, receiving : Int, day : 0..2,
          settled : SUBSET {"client", "received", "forwarded"}]

Profit == [inside : Int, received : Int, forwarded : Int]

NoOrder == [status |-> "none", branch |-> NoBranch, client |-> NoBranch, deal |-> FALSE,
            confirmed |-> FALSE, fee |-> 0, oldFee |-> 0, agent |-> 0, inside |-> 0, forwarded |-> 0,
            receiving |-> 0, day |-> 0, settled |-> {}]

\* COALESCE(parentBranchId, branchId)
Family(b) == IF b \in Branches /\ ParentOf[b] # NoBranch THEN ParentOf[b] ELSE b

-----------------------------------------------------------------------------
(* Prices *)

DealSum == Deal.agent + Deal.main + Deal.forwarded + Deal.receiving

\* The fee at branch b; a child branch has no row of its own.
DeliverCost(deal, b) == IF ~deal THEN Tariff ELSE IF b \in DealAt THEN DealSum ELSE 0

Price(table, b) == IF b \in Branches THEN table[b] ELSE 0

Nets(agent, inside, forwarded, receiving) ==
  [agent |-> agent, inside |-> inside, forwarded |-> forwarded, receiving |-> receiving]

\* Slip: the agent's share as the order has it, not as the agent takes it.
ProfitsOfStoredShare(o, agent) ==
  CASE o.branch # NoBranch /\ o.branch = o.client -> Nets(agent, o.fee - o.agent, 0, 0)
    [] OTHER -> Nets(agent, 0, Price(ReceivingDeliveryCosts, o.client),
                     Price(ForwardedDeliveryCosts, o.branch))

\* getProfits of the order as it was read; agent: what its agent takes.
Profits(o, agent) ==
  IF o.branch # NoBranch /\ o.branch = o.client THEN Nets(agent, o.fee - agent, 0, 0)
  ELSE IF o.client = Abroad
       THEN Nets(agent, 0, CompanyTariff, Price(ForwardedDeliveryCosts, o.branch))
  ELSE IF o.deal /\ o.branch \in DealAt /\ o.branch # o.client
       THEN Nets(agent, 0, Deal.agent + Deal.main + Deal.receiving, Deal.agent + Deal.receiving)
  ELSE Nets(agent, 0, Price(ReceivingDeliveryCosts, o.client),
            Price(ForwardedDeliveryCosts, o.branch))

-----------------------------------------------------------------------------
(* Writes of an order *)

\* The run ends with MaxWrites writes.
Put(o, row) ==
  /\ writes < MaxWrites
  /\ writes' = writes + 1
  /\ order' = [order EXCEPT ![o] = row]
  /\ touched' = IF todo # {} /\ order[o].day = 1 THEN touched \cup {o} ELSE touched
  /\ UNCHANGED <<now, daily, todo>>

\* The fee before a return set it to 0.
Kept(o) == IF o.fee # 0 THEN o.fee ELSE o.oldFee

WithNets(o, n) == [o EXCEPT !.agent = n.agent, !.inside = n.inside,
                            !.forwarded = n.forwarded, !.receiving = n.receiving]

\* confirmed: entered by an employee, not by a client.
Create(o, b, client, deal, confirmed) ==
  /\ order[o].status = "none"
  /\ deal => b # NoBranch /\ client # Abroad
  /\ Put(o, [NoOrder EXCEPT !.status = "open", !.branch = b, !.client = client, !.deal = deal,
                            !.confirmed = confirmed, !.fee = DeliverCost(deal, Family(b))])
  /\ UNCHANGED askew

\* The lookups of the prices throw for an order without a branch.
Priced(o, b) == (o.branch = NoBranch) => (b # NoBranch /\ o.client # Abroad)

\* The nets are those of the order as it was read, the fee that of its new branch.
Repriced(o, b, agent) ==
  LET new == IF b # NoBranch THEN b ELSE o.branch
  IN [WithNets(o, Profits(o, agent)) EXCEPT !.fee = DeliverCost(o.deal, new), !.branch = new]

Shifted(o, row) ==
  askew' = IF row.branch # order[o].branch \/ row.fee # order[o].fee THEN askew \cup {o}
           ELSE IF <<row.agent, row.inside>> # <<order[o].agent, order[o].inside>>
                THEN askew \ {o}
           ELSE askew

\* status: a status, or "same"; b: a branch, or NoBranch when the body has none;
\* confirmed: what the body says, or as it was.
UpdateOrder(o, status, b, agent, confirmed) ==
  LET old   == order[o]
      costs == b # NoBranch \/ status = "delivered"
      base  == IF costs THEN Repriced(old, b, agent) ELSE [old EXCEPT !.fee = Kept(old)]
      row   == [base EXCEPT !.oldFee = Kept(old),
                            !.fee = IF status = "returned" THEN 0 ELSE @,
                            !.status = IF status = "same" THEN @ ELSE status,
                            !.confirmed = confirmed,
                            !.day = IF status = "delivered" THEN now ELSE @]
  IN /\ old.status # "none"
     /\ costs => Priced(old, b)
     /\ Put(o, row)
     /\ Shifted(o, row)

\* A client's edit, with or without a place; a place has a branch.
UpdateOrderForClient(o, b, agent) ==
  LET old == order[o]
      row == [IF b # NoBranch THEN Repriced(old, b, agent) ELSE [old EXCEPT !.fee = Kept(old)]
                EXCEPT !.oldFee = Kept(old)]
  IN /\ old.status = "open"
     /\ b # NoBranch => Priced(old, b)
     /\ Put(o, row)
     /\ Shifted(o, row)

-----------------------------------------------------------------------------
(* Reports of delivered orders: their cost statement, and their flag *)

ClientFee(o, given) ==
  IF o.deal /\ Family(o.branch) \in DealAt THEN DealSum
  ELSE IF given # 0 THEN given ELSE Tariff

ClientReport(o, given) ==
  LET old == order[o]
      fee == ClientFee(old, given)
  IN /\ old.status = "delivered"
     /\ Put(o, [old EXCEPT !.fee = fee, !.settled = @ \cup {"client"},
                           !.inside = IF old.branch = old.client THEN fee - old.agent ELSE 0])
     /\ askew' = askew \ {o}

AgentNet(o, given, agent) ==
  LET net == IF given # 0 THEN given ELSE agent
  IN IF ~(o.deal /\ o.branch \in DealAt) THEN net
     ELSE (IF net > Deal.receiving THEN Deal.receiving ELSE net) - AgentCut

AgentReport(o, given, agent) ==
  /\ order[o].status = "delivered"
  /\ Put(o, [order[o] EXCEPT !.agent = AgentNet(order[o], given, agent)])
  /\ askew' = askew \cup {o}

\* A cost of the deal or of the form; if that is 0, of the tables.
BranchNet(o, type, given) ==
  LET deal == o.deal /\ Family(o.branch) \in DealAt
      cost == IF ~deal THEN given
              ELSE Deal.receiving + Deal.agent + IF type = "received" THEN 0 ELSE Deal.main
  IN IF cost # 0 THEN cost
     ELSE IF type = "received" THEN Price(ForwardedDeliveryCosts, o.branch)
     ELSE Price(ReceivingDeliveryCosts, o.client)

\* forChild: made by a branch for its children; such a report has other flags.
BranchReport(o, type, given, forChild) ==
  LET old  == order[o]
      cost == BranchNet(old, type, given)
  IN /\ old.status = "delivered"
     /\ Put(o, [old EXCEPT !.receiving = IF type = "received" THEN cost ELSE @,
                           !.forwarded = IF type = "forwarded" THEN cost ELSE @,
                           !.settled = IF forChild THEN @ ELSE @ \cup {type}])
     /\ UNCHANGED askew

\* The last live report of a kind is hidden; its nets stay.
HideReport(o, kind) ==
  /\ kind \in order[o].settled
  /\ Put(o, [order[o] EXCEPT !.settled = @ \ {kind}])
  /\ UNCHANGED askew

-----------------------------------------------------------------------------
(* Profits *)

Delivered == {o \in Orders : order[o].status = "delivered"}

\* Every sum but one (see ForMainBranch) is over the confirmed orders.
Confirmed == {o \in Delivered : order[o].confirmed}

DeliveredOn(day) == {o \in Confirmed : order[o].day = day}

Total(field, S) == MapThenSumSet(LAMBDA o : order[o][field], S)

\* The three figures, from the orders of each.
Figures(b, inside, received, forwarded) ==
  [inside |-> IF b = Main THEN Total("forwarded", inside) - Total("receiving", inside)
              ELSE Total("inside", inside),
   received |-> Total("receiving", received) - Total("agent", received),
   forwarded |-> Total("fee", forwarded)
                   - Total(IF b = Main THEN "receiving" ELSE "forwarded", forwarded)]

\* The main branch: every order that goes from one branch to another, its own aside.
Inside(b, S) ==
  IF b = Main THEN {o \in S : /\ order[o].client \notin {Main, NoBranch}
                              /\ order[o].branch # order[o].client}
  ELSE {o \in S : order[o].branch = b /\ order[o].client = b}

\* Slip: a branch's own clients are not left out.
JobReceivedOfAll(b, S) == {o \in S : order[o].branch = b}

\* The job compares with IS DISTINCT FROM.
JobReceived(b, S) == {o \in S : order[o].branch = b /\ order[o].client # b}

JobForwarded(b, S) == {o \in S : order[o].branch # b /\ order[o].client = b}

ComputeBranchDayProfit(b, day) ==
  LET S == DeliveredOn(day)
  IN Figures(b, Inside(b, S), JobReceived(b, S), JobForwarded(b, S))

\* The screens compare with "not", which a null never satisfies.
Received(b, S) == {o \in S : order[o].branch = b /\ order[o].client \notin {b, NoBranch}}

Forwarded(b, S) == {o \in S : order[o].branch \notin {b, NoBranch} /\ order[o].client = b}

ComputeProfit(b, S) == Figures(b, Inside(b, S), Received(b, S), Forwarded(b, S))

\* The main branch's list of what goes from one branch to another.
InsideOrders(b, S) ==
  {o \in S : order[o].client \notin {b, NoBranch} /\ order[o].branch # order[o].client}

\* The orders behind a figure, as getProfitOrders lists them.
ProfitOrders(b, bucket, S) ==
  CASE bucket = "inside" ->
         IF b = Main THEN InsideOrders(b, S)
         ELSE {o \in S : order[o].branch = b /\ order[o].client = b}
    [] bucket = "received" ->
         {o \in S : order[o].branch = b /\ order[o].client \notin {b, NoBranch}}
    [] OTHER -> {o \in S : order[o].branch \notin {b, NoBranch} /\ order[o].client = b}

-----------------------------------------------------------------------------
(* Debts between the branches and the main branch *)

Types == {"forMainBranch", "forMyBranch", "allForMyBranch"}

OtherFamily(o) == Family(order[o].branch) # Family(order[o].client)

\* getBranchTotalsByType: the orders family f delivered for others.
TotalForMain(f) ==
  {o \in Confirmed : /\ "received" \notin order[o].settled
                     /\ order[o].branch # NoBranch
                     /\ OtherFamily(o)
                     /\ Family(order[o].branch) = f}

\* And those others delivered for it; forMyBranch: its clients have been paid.
BranchTotals(type, f) ==
  IF type = "forMainBranch" THEN TotalForMain(f)
  ELSE {o \in Confirmed : /\ "forwarded" \notin order[o].settled
                          /\ type = "forMyBranch" => "client" \in order[o].settled
                          /\ order[o].client # Abroad
                          /\ Family(order[o].client) # Main
                          /\ OtherFamily(o)
                          /\ Family(order[o].client) = f}

\* The branch of the viewer, or the one a manager chose, and its children.
BranchScope(b) == {b} \cup {c \in Branches : ParentOf[c] = b}

\* A parentless branch in Baghdad counts what it delivers for its own clients.
OwnInBaghdad(b, o) ==
  b \in Baghdad /\ ParentOf[b] = NoBranch /\ order[o].branch = b /\ order[o].client = b

\* The next three are getStatistics: with applyBranchScope a sum over the company,
\* by COALESCE and IS DISTINCT FROM; else that of branch b, by Prisma's in and notIn.
\* Of these the branch's forMainBranch does not ask whether an order is confirmed.
ForMainBranch(b, applyBranchScope) ==
  {o \in Delivered :
     /\ "received" \notin order[o].settled
     /\ IF applyBranchScope
          THEN order[o].confirmed /\ order[o].branch # NoBranch /\ OtherFamily(o)
        ELSE \/ /\ order[o].branch \in BranchScope(b)
                /\ order[o].client \notin BranchScope(b) \cup {NoBranch}
             \/ OwnInBaghdad(b, o)}

ForMyBranch(b, applyBranchScope) ==
  {o \in Confirmed :
     /\ order[o].settled \cap {"forwarded", "client"} = {"client"}
     /\ IF applyBranchScope
          THEN order[o].client # Abroad /\ Family(order[o].client) # b /\ OtherFamily(o)
        ELSE \/ /\ order[o].branch \notin BranchScope(b) \cup {NoBranch}
                /\ order[o].client \in BranchScope(b)
             \/ OwnInBaghdad(b, o)}

\* Slip: the main branch owes itself for its own clients.
AllForMyBranchAndMain(b, applyBranchScope) ==
  {o \in Confirmed : /\ "forwarded" \notin order[o].settled
                     /\ order[o].client # Abroad
                     /\ OtherFamily(o)}

AllForMyBranch(b, applyBranchScope) ==
  {o \in Confirmed :
     /\ "forwarded" \notin order[o].settled
     /\ IF applyBranchScope
          THEN order[o].client # Abroad /\ Family(order[o].client) # b /\ OtherFamily(o)
        ELSE \/ /\ order[o].branch \notin BranchScope(b) \cup {NoBranch}
                /\ order[o].client \in BranchScope(b)
             \/ OwnInBaghdad(b, o)}

Statistics(b, applyBranchScope, type) ==
  CASE type = "forMainBranch" -> ForMainBranch(b, applyBranchScope)
    [] type = "forMyBranch" -> ForMyBranch(b, applyBranchScope)
    [] OTHER -> AllForMyBranch(b, applyBranchScope)

\* Slip: a parent branch's list leaves out its children.
OrdersByOwnBranch(type, f) ==
  {o \in Statistics(Main, TRUE, type) :
     (IF type = "forMainBranch" THEN order[o].branch ELSE order[o].client) = f}

\* getOrdersByBranch puts its condition together from fragments: whose list it is,
ReportBranch(type, o) ==
  CASE type = "forMainBranch" -> Family(order[o].branch)
    [] type = "forMyBranch" -> Family(order[o].client)
    [] OTHER -> order[o].client

\* what is still owed, and between whom.
StillOwed(type, o) ==
  IF type = "forMainBranch"
    THEN "received" \notin order[o].settled /\ order[o].branch # NoBranch
    ELSE /\ "forwarded" \notin order[o].settled
         /\ type = "forMyBranch" => "client" \in order[o].settled
         /\ ReportBranch(type, o) # Main
         /\ order[o].client # Abroad

CrossBranch(type, o) ==
  IF type = "allForMyBranch" THEN order[o].branch # order[o].client ELSE OtherFamily(o)

\* The list behind a total.
OrdersByBranch(type, f) ==
  {o \in Confirmed : CrossBranch(type, o) /\ StillOwed(type, o) /\ ReportBranch(type, o) = f}

-----------------------------------------------------------------------------
(* The daily job *)

\* At midnight the job starts on the day that ended.
Midnight ==
  /\ now = 1
  /\ now' = 2
  /\ todo' = Branches
  /\ UNCHANGED <<order, daily, writes, askew, touched>>

\* One branch's three sums and its row.
SnapshotBranch(b) ==
  /\ b \in todo
  /\ daily' = [c \in DOMAIN daily \cup {b} |->
                 IF c = b THEN ComputeBranchDayProfit(b, 1) ELSE daily[c]]
  /\ todo' = todo \ {b}
  /\ UNCHANGED <<order, now, writes, askew, touched>>

\* An error is logged; the rest of the branches have no row for the day.
DailyJobFails ==
  /\ todo # {}
  /\ todo' = {}
  /\ UNCHANGED <<order, now, daily, writes, askew, touched>>

-----------------------------------------------------------------------------
ProfitInit ==
  /\ order = [o \in Orders |-> NoOrder]
  /\ now = 1
  /\ daily = [b \in {} |-> 0]
  /\ todo = {}
  /\ writes = 0
  /\ askew = {}
  /\ touched = {}

\* The bound is reached and the job is over.
Rest ==
  /\ writes = MaxWrites /\ now = 2 /\ todo = {}
  /\ UNCHANGED profitVars

ProfitNext ==
  \/ \E o \in Orders :
       \/ \E b \in Branches \cup {NoBranch}, client \in Branches \cup {NoBranch, Abroad},
            deal \in BOOLEAN, confirmed \in BOOLEAN : Create(o, b, client, deal, confirmed)
       \/ \E b \in Branches \cup {NoBranch}, agent \in AgentCosts :
            \/ \E status \in {"open", "delivered", "returned"} :
                 UpdateOrder(o, status, b, agent, order[o].confirmed)
            \/ \E confirmed \in BOOLEAN : UpdateOrder(o, "same", b, agent, confirmed)
            \/ UpdateOrderForClient(o, b, agent)
       \/ \E given \in FormCosts :
            \/ ClientReport(o, given)
            \/ \E agent \in AgentCosts : AgentReport(o, given, agent)
            \/ \E type \in {"received", "forwarded"}, forChild \in BOOLEAN :
                 BranchReport(o, type, given, forChild)
       \/ \E kind \in {"client", "received", "forwarded"} : HideReport(o, kind)
  \/ Midnight
  \/ \E b \in Branches : SnapshotBranch(b)
  \/ DailyJobFails
  \/ Rest

ProfitSpec == ProfitInit /\ [][ProfitNext]_profitVars

-----------------------------------------------------------------------------
(* Properties *)

\* Every variable has its type; an order that was delivered has a branch and a
\* day, and rows of the job are of a day that is over.
ProfitTypeOK ==
  /\ order \in [Orders -> Order]
  /\ \A o \in Delivered : order[o].branch # NoBranch /\ order[o].day \in 1..now
  /\ now \in 1..2
  /\ DOMAIN daily \subseteq Branches
  /\ \A b \in DOMAIN daily : daily[b] \in Profit
  /\ todo \subseteq Branches
  /\ writes \in 0..MaxWrites
  /\ DOMAIN daily \cup todo # {} => now = 2
  /\ askew \subseteq Orders
  /\ touched \subseteq Orders

\* What a branch earns on an order it delivers for its own client is the fee less
\* the agent's share, as long as no agent's report, no new branch and no new fee
\* (a return, then a delivery) came after the nets: a client's report mends it.
InsideNetFits ==
  \A o \in Delivered \ askew :
    order[o].branch = order[o].client => order[o].inside = order[o].fee - order[o].agent

\* What the company has of an order to share among its branches.
Take(o) ==
  (IF order[o].client = Abroad THEN order[o].forwarded ELSE order[o].fee) - order[o].agent

\* Nobody's share: a client without a branch, and the main branch's own orders.
Unshared(o) ==
  \/ order[o].client = NoBranch
  \/ order[o].branch = order[o].client /\ (order[o].client = Main \/ o \in askew)

\* When the job has written its last row, the rows of the day add up to what the
\* day's orders left after their agents: no order counts for two branches or for
\* none, whoever delivered it for whom, unless one was written while the job ran.
SnapshotAddsUp ==
  [][LET S == DeliveredOn(1)
     IN (/\ DOMAIN daily # Branches /\ DOMAIN daily' = Branches
         /\ touched = {}
         /\ \A o \in S : ~Unshared(o))
        => MapThenSumSet(LAMBDA b : daily'[b].inside + daily'[b].received + daily'[b].forwarded,
                         Branches)
             = MapThenSumSet(Take, S)]_profitVars

\* The job's figures of a branch are the screen's and each has the list of its orders
\* ("mirroring computeProfit's logic exactly"); asked where every client has a branch.
JobFits(day) ==
  LET S == DeliveredOn(day)
  IN (\A o \in S : order[o].client # NoBranch) =>
       \A b \in Branches :
         /\ ComputeBranchDayProfit(b, day) = ComputeProfit(b, S)
         /\ ProfitOrders(b, "received", S) = JobReceived(b, S)
         /\ ProfitOrders(b, "forwarded", S) = JobForwarded(b, S)
         /\ ProfitOrders(b, "inside", S) = Inside(b, S)

\* A child branch, or a client of one.
OfChild(o) == Family(order[o].branch) # order[o].branch \/ Family(order[o].client) # order[o].client

\* The same orders are summed in several places by conditions written anew in each.  The
\* job's figures are the screen's, and each figure has the list of its orders; the list of
\* a branch is the one its total was summed over, and the branches' totals are the
\* company's and, family by family, what the branch is shown itself; there a client
\* without a branch is left out (to notIn a null is in no list), and Baghdad's own
\* deliveries come on top, as do, in forMainBranch, orders nobody has confirmed, which
\* every other total and the list leave out.  allForMyBranch, whose list is by branch
\* and whose total is by family, is compared for orders without child branches.
ListsMatchTotals ==
  /\ \A day \in {order[o].day : o \in Confirmed} : JobFits(day)
  /\ \A type \in Types :
       LET Shown == IF type = "allForMyBranch" THEN {o \in Orders : ~OfChild(o)} ELSE Orders
       IN /\ \A f \in Branches \cup {NoBranch} :
               OrdersByBranch(type, f) \cap Shown = BranchTotals(type, f) \cap Shown
          /\ Statistics(Main, TRUE, type)
               = UNION {BranchTotals(type, f) : f \in Branches \cup {NoBranch}}
          /\ \A f \in Branches \ {Main} :
               ParentOf[f] = NoBranch =>
                 {o \in Statistics(f, FALSE, type) \cap (IF type = "forMainBranch" THEN Confirmed
                                                          ELSE Orders) : ~OwnInBaghdad(f, o)}
                   = {o \in BranchTotals(type, f) : order[o].client # NoBranch}

\* While no branch report settled them, the orders one branch owes the main branch
\* and it owes another branch for are those it counts a profit on; not counted in
\* are clients of its own family or of another company and deliveries within one
\* family, and owed without a profit those of clients without a branch.
ProfitIsOwed ==
  LET open == {o \in Confirmed : order[o].settled \cap {"received", "forwarded"} = {}}
  IN Statistics(Main, TRUE, "forMainBranch") \cap Statistics(Main, TRUE, "allForMyBranch") \cap open
       = {o \in Inside(Main, open) \cup {p \in open : order[p].client = NoBranch} :
            Family(order[o].client) # Main /\ order[o].client # Abroad /\ OtherFamily(o)}

=============================================================================
