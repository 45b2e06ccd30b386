---------------------------- MODULE HomeScreens ----------------------------
(***************************************************************************)
(* The home screens: every role is shown tiles that count orders, behind a *)
(* tile the counts it is made of, and behind those a list of orders.  Each *)
(* step is a query of its own, with its own copy of the role's conditions. *)
(*                                                                         *)
(* The screens are drawn for one order, which is counted or not.  Every    *)
(* client has one store.  Filters a user may add (dates, places, search,   *)
(* pages) are not set, nor is orderType: see RepositoryRoute for that.     *)
(* IN_GOV_REPOSITORY stands for IN_MAIN_REPOSITORY too, PARTIALLY_RETURNED *)
(* for REPLACED, WITH_DELIVERY_AGENT for the other open statuses.          *)
(***************************************************************************)
EXTENDS Naturals, FiniteSets

CONSTANTS
  HomeBranches,
  BranchOf,         \* of clients, receiving agents and delivery agents
  HomeClients, ReceivingAgents, Couriers,
  Viewers,          \* the users whose screens are looked at
  NoOne,
  MaxChanges        \* changes to the order, its reports and the assignments (bounds the run)

Closed == {"DELIVERED", "PARTIALLY_RETURNED"}
SentBack == {"PARTIALLY_RETURNED", "RETURNED"}
OnTheWay == {"WITH_RECEIVING_AGENT", "IN_GOV_REPOSITORY"}
HomeStatuses == {"REGISTERED", "READY_TO_SEND", "WITH_DELIVERY_AGENT"}
                  \cup OnTheWay \cup Closed \cup SentBack
ReportKinds == {"DELIVERED", "RETURNED"}
Assistants == {"CLIENT_ASSISTANT", "EMPLOYEE_CLIENT_ASSISTANT"}

\* tiles: the statuses an assistant or an inquiry employee is shown; branches: those an
\* inquiry employee is limited to; client: the client an assistant works for.
Viewer == [id : STRING, branch : HomeBranches, main : BOOLEAN, client : HomeClients \cup {NoOne},
           tiles : SUBSET HomeStatuses, branches : SUBSET HomeBranches,
           role : {"COMPANY_MANAGER", "BRANCH_MANAGER", "REPOSITORIY_EMPLOYEE", "DATA_ENTRY",
                   "CLIENT", "DELIVERY_AGENT", "RECEIVING_AGENT", "RECEIVING_AGENTS_MANAGER",
                   "INQUIRY_EMPLOYEE"} \cup Assistants]

ASSUME HomeAssumption ==
  /\ Viewers \subseteq Viewer
  /\ BranchOf \in [HomeClients \cup ReceivingAgents \cup Couriers -> HomeBranches]
  /\ NoOne \notin HomeClients \cup ReceivingAgents \cup Couriers
  /\ MaxChanges \in Nat
  /\ \A u \in Viewers : u.role = "RECEIVING_AGENT" => u.id \in ReceivingAgents
  /\ \A u, v \in Viewers : u.id = v.id => u.role = v.role

\* Who has clients or their stores assigned to him.
Assignees == ReceivingAgents \cup {u.id : u \in {v \in Viewers : v.role \in Assistants}}

VARIABLES
  parcel,       \* the order
  clientReport, \* its client reports
  assigned,     \* ReceivingAgentClients, and the inquiryStores of assistants
  kept,         \* the statistics kept in Redis: the client whose order is counted, or NoOne
  visit,        \* a request that reads in several steps
  changes

homeVars == <<parcel, clientReport, assigned, kept, visit, changes>>

Parcel == [status : HomeStatuses, branch : HomeBranches, client : HomeClients,
           agent : ReceivingAgents \cup Couriers \cup {NoOne},
           withAgent : BOOLEAN,   \* secondaryStatus WITH_AGENT
           own : BOOLEAN,         \* not forwarded to another company
           printed : BOOLEAN,
           agentReport : {"none", "live", "deleted"}]

\* agent: the receiving agent who carries the report to the client.
ClientReport == [state : {"none", "open", "confirmed", "deleted"},
                 agent : ReceivingAgents \cup {NoOne}]

Visit == [by : {u.id : u \in Viewers} \cup {"nobody"},
          pc : {"idle", "asked", "counted", "answered"},
          mine : SUBSET HomeClients, counted : HomeClients \cup {NoOne},
          groups : SUBSET ReceivingAgents, unassigned : BOOLEAN]

NoVisit == [by |-> "nobody", pc |-> "idle", mine |-> {}, counted |-> NoOne,
            groups |-> {}, unassigned |-> FALSE]

BranchOfClient == BranchOf[parcel.client]
Live(kind) == clientReport[kind].state \in {"open", "confirmed"}
Unreported(kind) == ~Live(kind)                   \* the columns hasDelivered-, hasReturnedClientReport
NoAgentReport == parcel.agentReport # "live"
-----------------------------------------------------------------------------
(* Statistics: the tiles *)

\* getOrdersStatisticsV2: the orders a user is concerned with.  mine is what was
\* assigned to him when his request began.
TileScope(u, mine) ==
  IF u.role = "INQUIRY_EMPLOYEE"
  THEN LET limits == IF u.main /\ u.branches # {} THEN u.branches ELSE {u.branch}
       IN parcel.branch \in limits \/ BranchOfClient \in limits
  ELSE /\ u.role \in Assistants \cup {"RECEIVING_AGENT"} => parcel.client \in mine
       /\ u.role \in {"CLIENT", "CLIENT_ASSISTANT"} => parcel.client = u.client
       /\ u.role = "DELIVERY_AGENT" => parcel.agent = u.id

\* Slip: what came back leaves the agent's screen with his report.
AgentTileOpenUnreturned == NoAgentReport /\ parcel.status # "RETURNED"

AgentTileOpen ==
  \/ NoAgentReport /\ parcel.status # "RETURNED"
  \/ parcel.withAgent /\ parcel.status \in SentBack

\* statusReportOR: what is left to do with an order.
TileOpen(u) ==
  CASE u.role \in Assistants \cup {"CLIENT", "INQUIRY_EMPLOYEE"} ->
         \/ Unreported("DELIVERED") /\ parcel.status # "RETURNED"
         \/ Unreported("RETURNED") /\ parcel.status \in SentBack
    [] u.role = "DELIVERY_AGENT" -> AgentTileOpen
    [] u.role \in {"REPOSITORIY_EMPLOYEE", "BRANCH_MANAGER"} ->
         IF parcel.status = "WITH_RECEIVING_AGENT"
         THEN parcel.agent # NoOne /\ BranchOf[parcel.agent] = u.branch
         ELSE u.branch \in {parcel.branch, BranchOfClient}
    [] u.role \in {"COMPANY_MANAGER", "RECEIVING_AGENT"} -> TRUE
    [] OTHER -> parcel.branch = u.branch

\* The statuses with an order in them.
Statistics(u, mine) == IF TileScope(u, mine) /\ TileOpen(u) THEN {parcel.status} ELSE {}

Assigned(u) == IF u.id \in Assignees THEN assigned[u.id] ELSE {}

\* A report's tile adds up the orders of the reports on their way to the client.
CarriedBy(agent, kind) ==
  clientReport[kind].state = "open" /\ clientReport[kind].agent = agent

\* The client's screen shows three groups as one tile each.
Merged(s) ==
  CASE s \in Closed -> "DELIVERED"
    [] s \in {"REGISTERED", "READY_TO_SEND"} -> "REGISTERED"
    [] s \in OnTheWay -> "WITH_RECEIVING_AGENT"
    [] OTHER -> s

\* What the other roles are shown of the statuses counted.
Shown(u, counted) ==
  CASE u.role \in Assistants \cup {"INQUIRY_EMPLOYEE"} -> counted \cap u.tiles
    [] u.role = "DELIVERY_AGENT" -> counted \ ({"REGISTERED", "READY_TO_SEND"} \cup OnTheWay)
    [] u.role = "BRANCH_MANAGER" -> counted \ {"REGISTERED", "READY_TO_SEND"}
    [] u.role = "REPOSITORIY_EMPLOYEE" -> counted \cap {"WITH_RECEIVING_AGENT", "READY_TO_SEND"}
    [] OTHER -> counted

\* getOrdersStatisticV2
TilesV2(u, counted) ==
  CASE u.role = "RECEIVING_AGENT" ->
         (counted \cap {"READY_TO_SEND", "WITH_RECEIVING_AGENT"})
           \cup {kind \in {"RETURNED"} : CarriedBy(u.id, kind)}
    [] u.role = "CLIENT" -> {Merged(s) : s \in counted}
    [] OTHER -> Shown(u, counted)

\* A receiving agent's first tiles are counted by queries of their own.  REGISTERED are
\* the orders he carries for clients of others.
ReceivingAgentTiles(u) ==
  LET mine == assigned[u.id]
      carried == parcel.own /\ parcel.agent = u.id /\ parcel.status = "WITH_RECEIVING_AGENT"
      tiles == [READY_TO_SEND |-> /\ parcel.own /\ parcel.status = "READY_TO_SEND"
                                  /\ parcel.client \in mine,
                WITH_RECEIVING_AGENT |-> carried /\ parcel.client \in mine,
                REGISTERED |-> carried /\ (mine # {} => parcel.client \notin mine)]
  IN {kind \in ReportKinds : CarriedBy(u.id, kind)} \cup {t \in DOMAIN tiles : tiles[t]}

\* getOrdersStatistic
TilesV1(u, counted) ==
  IF u.role = "RECEIVING_AGENT" THEN ReceivingAgentTiles(u) ELSE Shown(u, counted)

\* Beside the tile of REGISTERED orders: those to be printed and those to be shipped.
ReadyTo(u) ==
  IF /\ parcel.status = "REGISTERED"
     /\ IF u.role = "CLIENT" THEN parcel.client = u.client ELSE parcel.client \in Assigned(u)
  THEN {IF parcel.printed THEN "readyToShip" ELSE "readyToPrint"}
  ELSE {}
-----------------------------------------------------------------------------
(* What a tile is made of *)

\* getStatusOrdersStatistics: the statuses behind a client's tile.
BehindClientTile(u, tile) ==
  {s \in {parcel.status} :
     /\ parcel.client = u.client
     /\ Merged(s) = tile
     /\ tile = "DELIVERED" =>
          Unreported("DELIVERED") \/ (s \in SentBack /\ Unreported("RETURNED"))}

\* Its second version looks at deleted reports too.
BehindClientTileV2(u, tile) ==
  {s \in {parcel.status} :
     /\ parcel.client = u.client
     /\ Merged(s) = tile
     /\ tile = "DELIVERED" =>
          \/ clientReport["DELIVERED"].state = "none"
          \/ s \in SentBack /\ clientReport["RETURNED"].state = "none"}

\* The statuses behind a receiving agent's tile.
AgentTile(tile) ==
  CASE tile = "REGISTERED" -> {"WITH_RECEIVING_AGENT"}
    [] tile = "RETURNED" -> SentBack
    [] OTHER -> {tile}

\* getCLientOrdersStatistics: is there an order of some client behind a tile?
BehindAgentTile(u, tile) ==
  /\ parcel.status \in AgentTile(tile)
  /\ tile = "RETURNED" => \E kind \in ReportKinds : CarriedBy(u.id, kind)
  /\ tile = "REGISTERED" => /\ BranchOfClient = u.branch
                            /\ \A a \in ReceivingAgents : parcel.client \notin assigned[a]
  /\ tile \notin {"RETURNED", "REGISTERED"} => parcel.client \in assigned[u.id]

\* getCLientOrdersStatisticsV2 asks who carries the order instead.
BehindAgentTileV2(u, tile) ==
  /\ parcel.status \in AgentTile(tile)
  /\ tile \in {"REGISTERED", "WITH_RECEIVING_AGENT"} => parcel.agent = u.id
  /\ (parcel.client \in assigned[u.id]) <=> tile # "REGISTERED"
-----------------------------------------------------------------------------
(* The lists *)

\* getAllOrders: some roles' lists are limited to their branch, unless it is the main one.
LimitedToBranch(u) ==
  ~u.main /\ u.role \notin {"COMPANY_MANAGER", "CLIENT", "CLIENT_ASSISTANT", "RECEIVING_AGENT"}

\* An inquiry employee's branches stand in for his own, unless his list is limited.
InquiryBranches(u) ==
  /\ u.branches # {} => parcel.branch \in u.branches
  /\ u.branches = {} /\ ~u.main => parcel.branch = u.branch
  /\ LimitedToBranch(u) => parcel.branch = u.branch

\* Without any limits he sees nothing.
InquiryList(u) == (u.tiles # {} \/ u.branches # {}) /\ InquiryBranches(u)

\* Assistants have the stores, here the clients, assigned to them.
AssistantList(u) == u.role \in Assistants => parcel.client \in Assigned(u)

\* A branch has its own orders and those of its clients.
HomeList(u) ==
  LimitedToBranch(u) /\ u.role # "DELIVERY_AGENT" => u.branch \in {parcel.branch, BranchOfClient}

ListScope(u) ==
  IF u.role = "INQUIRY_EMPLOYEE" THEN InquiryList(u)
  ELSE /\ AssistantList(u)
       /\ u.role \in {"CLIENT", "CLIENT_ASSISTANT"} => parcel.client = u.client
       /\ u.role = "DELIVERY_AGENT" => parcel.agent = u.id
       /\ HomeList(u)

\* getAllOrdersPaginated: the OR of the lists on the phone, unless a receipt is looked up.
ListOpen(u) ==
  CASE u.role \in Assistants \cup {"CLIENT", "INQUIRY_EMPLOYEE"} ->
         \/ Unreported("DELIVERED") /\ parcel.status # "RETURNED"
         \/ Unreported("RETURNED") /\ parcel.status \in SentBack
    [] u.role = "DELIVERY_AGENT" ->
         \/ NoAgentReport /\ parcel.status # "RETURNED"
         \/ parcel.withAgent /\ parcel.status \in SentBack
    [] u.role \in {"REPOSITORIY_EMPLOYEE", "BRANCH_MANAGER"} ->
         \/ /\ parcel.status # "WITH_RECEIVING_AGENT"
            /\ u.branch \in {parcel.branch, BranchOfClient}
         \/ /\ parcel.status = "WITH_RECEIVING_AGENT"
            /\ parcel.agent # NoOne /\ BranchOf[parcel.agent] = u.branch
    [] u.role \in {"COMPANY_MANAGER", "RECEIVING_AGENT"} -> TRUE
    [] OTHER -> parcel.branch = u.branch

\* The statuses whose lists have the order.
PhoneLists(u) == IF ListScope(u) /\ ListOpen(u) THEN {parcel.status} ELSE {}

\* What a receiving agent brings back to a client: a list with a condition of its own.
BroughtBack(a, c) ==
  /\ parcel.status \in SentBack /\ parcel.client = c
  /\ \E kind \in ReportKinds : Live(kind) /\ clientReport[kind].agent = a

\* getReceivingAgentReportsPaginated
CarriedReports(a, kind) ==
  clientReport[kind].state \notin {"none", "deleted", "confirmed"} /\ clientReport[kind].agent = a
-----------------------------------------------------------------------------
(* The receiving agents' manager *)

\* Any employee of the branch counts as an agent; only receiving agents get clients.
AgentsOf(u) == {a \in ReceivingAgents \cup Couriers : BranchOf[a] = u.branch}

\* receivingManagerOrderWhere, for some of the agents of his branch.
ManagerOrder(u, status, agents) ==
  /\ parcel.own /\ parcel.status = status
  /\ IF status = "WITH_RECEIVING_AGENT" THEN parcel.agent \in agents
     ELSE /\ BranchOfClient = u.branch
          /\ \E a \in agents \cap ReceivingAgents : parcel.client \in assigned[a]

Unassigned(u) ==
  /\ parcel.own /\ parcel.status = "READY_TO_SEND"
  /\ BranchOfClient = u.branch
  /\ \A a \in ReceivingAgents : parcel.client \notin assigned[a]

\* receivingManagerReportWhere
ManagerReport(u, kind, agents) ==
  /\ clientReport[kind].state = "open" /\ clientReport[kind].agent \in agents
  /\ BranchOfClient = u.branch

\* getReceivingManagerStatistics
ManagerTiles(u) ==
  {kind \in ReportKinds : ManagerReport(u, kind, AgentsOf(u))}
  \cup {s \in {"READY_TO_SEND"} : ManagerOrder(u, s, AgentsOf(u)) \/ Unassigned(u)}
  \cup {s \in {"WITH_RECEIVING_AGENT"} : ManagerOrder(u, s, AgentsOf(u))}

\* getReceivingManagerAgents, and for READY_TO_SEND, which takes two reads (see CountReady),
\* the lists of getReceivingManagerClients and getAllOrders.
AgentsBehind(u, tile) ==
  {a \in AgentsOf(u) : IF tile \in ReportKinds THEN ManagerReport(u, tile, {a})
                       ELSE ManagerOrder(u, tile, {a})}
-----------------------------------------------------------------------------
(* What changes *)

Change == changes < MaxChanges /\ changes' = changes + 1

Alter(new) == Change /\ parcel' = new /\ UNCHANGED <<clientReport, assigned, kept, visit>>

\* createOrdersReceipts
PrintReceipts == ~parcel.printed /\ Alter([parcel EXCEPT !.printed = TRUE])

\* sendOrdersToReceivingAgent.  Only for a client does the check look at the right orders:
\* an assistant's own id is no client, and a key is not checked.
SendOrders(role) ==
  /\ parcel.status = "REGISTERED"
  /\ role = "CLIENT" => parcel.printed
  /\ Alter([parcel EXCEPT !.status = "READY_TO_SEND"])

\* updateOrder, for someone who may not change closed orders.
MaySet(status) ==
  /\ parcel.own /\ status # parcel.status
  /\ parcel.status # "DELIVERED" /\ ~Live("RETURNED")

\* Somebody takes the order; one that was another's keeps its status.
TakenBy(a, status) ==
  Alter([parcel EXCEPT !.agent = a, !.withAgent = TRUE,
                       !.status = IF parcel.agent = NoOne THEN status ELSE @])

TakeAsReceivingAgent(a) == MaySet("WITH_RECEIVING_AGENT") /\ TakenBy(a, "WITH_RECEIVING_AGENT")

TakeAsCourier(a) ==
  MaySet("WITH_DELIVERY_AGENT") /\ a # parcel.agent /\ TakenBy(a, "WITH_DELIVERY_AGENT")

\* A desk scans the order in.
ScanIn ==
  /\ parcel.own /\ parcel.status \notin Closed \cup SentBack \cup {"IN_GOV_REPOSITORY"}
  /\ Alter([parcel EXCEPT !.status = "IN_GOV_REPOSITORY", !.withAgent = FALSE, !.agent = NoOne])

\* closing: the caller holds CHANGE_CLOSED_ORDER_STATUS.
Patch(status, closing) ==
  /\ IF closing THEN parcel.own /\ status # parcel.status ELSE MaySet(status)
  /\ Alter([parcel EXCEPT !.status = status, !.withAgent = @ /\ status # "DELIVERED"])

\* Another place, another client, another company.
Relocate(b) == b # parcel.branch /\ Alter([parcel EXCEPT !.branch = b])
ChangeClient(c) == c # parcel.client /\ Alter([parcel EXCEPT !.client = c])
ForwardOrder == parcel.own /\ Alter([parcel EXCEPT !.own = FALSE, !.withAgent = FALSE])

\* createReport, for clients; what is returned is no longer with an agent.
CreateClientReport(kind, a) ==
  /\ parcel.status \in IF kind = "DELIVERED" THEN Closed ELSE SentBack
  /\ ~Live(kind)
  /\ Change
  /\ clientReport' = [clientReport EXCEPT ![kind] = [state |-> "open", agent |-> a]]
  /\ parcel' = [parcel EXCEPT !.withAgent = @ /\ kind # "RETURNED"]
  /\ UNCHANGED <<assigned, kept, visit>>

\* updateReport confirms; deactivateReport deletes.
SetReport(kind, state) ==
  /\ Live(kind) /\ clientReport[kind].state # state
  /\ Change
  /\ clientReport' = [clientReport EXCEPT ![kind].state = state]
  /\ UNCHANGED <<parcel, assigned, kept, visit>>

SetAgentReport ==
  IF NoAgentReport
  THEN /\ parcel.agent \in Couriers /\ parcel.status \in Closed
       /\ Alter([parcel EXCEPT !.agentReport = "live"])
  ELSE Alter([parcel EXCEPT !.agentReport = "deleted"])

\* updateEmployee: the assignments are deleted and made anew in one write.
Assign(e, clients) ==
  /\ clients # assigned[e]
  /\ Change
  /\ assigned' = [assigned EXCEPT ![e] = clients]
  /\ UNCHANGED <<parcel, clientReport, kept, visit>>
-----------------------------------------------------------------------------
(* Requests *)

Go(v) == visit' = v /\ UNCHANGED <<parcel, clientReport, assigned, changes>>

\* A user's assignments are read,
AskStatistics(u) ==
  /\ visit = NoVisit
  /\ Go([NoVisit EXCEPT !.by = u.id, !.pc = "asked", !.mine = Assigned(u)])
  /\ UNCHANGED kept

\* Slip: the key of what is kept names the user only.
CacheKeyOfUser(u, mine) == <<u.id>>

CacheKey(u, mine) == <<u.id, mine>>

\* then the statistics that were kept of them, or else the orders.
ReadStatistics(u) ==
  LET hits == {k \in kept : k.key = CacheKey(u, visit.mine)}
      fresh == IF TileScope(u, visit.mine) /\ TileOpen(u) THEN parcel.client ELSE NoOne
  IN /\ visit.by = u.id /\ visit.pc = "asked"
     /\ IF hits # {} THEN \E k \in hits : Go([visit EXCEPT !.pc = "answered", !.counted = k.counted])
        ELSE Go([visit EXCEPT !.pc = "counted", !.counted = fresh])
     /\ UNCHANGED kept

KeepStatistics(u) ==
  LET key == CacheKey(u, visit.mine)
  IN /\ visit.by = u.id /\ visit.pc = "counted"
     /\ kept' = {k \in kept : k.key # key} \cup {[key |-> key, counted |-> visit.counted]}
     /\ Go([visit EXCEPT !.pc = "answered"])

\* Redis drops them after a minute.
Expire == \E k \in kept : kept' = kept \ {k} /\ UNCHANGED <<parcel, clientReport, assigned, visit, changes>>

\* getReceivingManagerAgents for READY_TO_SEND: the orders are counted by client,
CountReady(u) ==
  /\ visit = NoVisit
  /\ Go([NoVisit EXCEPT !.by = u.id, !.pc = "counted",
           !.counted = IF ManagerOrder(u, "READY_TO_SEND", AgentsOf(u)) \/ Unassigned(u)
                       THEN parcel.client ELSE NoOne])
  /\ UNCHANGED kept

AgentsWith(u, c) == {a \in AgentsOf(u) \cap ReceivingAgents : c \in assigned[a]}

\* Slip: the orders without an agent are counted by a query of their own.
LeftOverAfresh(u, c) == Unassigned(u)

LeftOver(u, c) == c # NoOne /\ AgentsWith(u, c) = {}

\* and the clients divided among the agents by the assignments that are there by then.
DivideReady(u) ==
  /\ visit.by = u.id /\ visit.pc = "counted"
  /\ Go([visit EXCEPT !.pc = "answered", !.groups = AgentsWith(u, visit.counted),
                      !.unassigned = LeftOver(u, visit.counted)])
  /\ UNCHANGED kept

Leave == visit.pc = "answered" /\ Go(NoVisit) /\ UNCHANGED kept
-----------------------------------------------------------------------------
Users(roles) == {u \in Viewers : u.role \in roles}
Managers == Users({"RECEIVING_AGENTS_MANAGER"})

\* An order nobody has touched, or one a courier is out with.
HomeInit ==
  /\ parcel \in {p \in Parcel : /\ p.own /\ p.agentReport = "none"
                                /\ \/ /\ p.status = "REGISTERED" /\ p.agent = NoOne
                                      /\ ~p.withAgent /\ ~p.printed
                                   \/ /\ p.status = "WITH_DELIVERY_AGENT" /\ p.agent \in Couriers
                                      /\ p.withAgent /\ p.printed}
  /\ clientReport = [kind \in ReportKinds |-> [state |-> "none", agent |-> NoOne]]
  /\ assigned = [e \in Assignees |-> {parcel.client}]
  /\ kept = {} /\ visit = NoVisit /\ changes = 0

\* The bound is reached.
HomeRest == changes = MaxChanges /\ UNCHANGED homeVars

ScreensChange ==
  \/ PrintReceipts \/ ScanIn \/ ForwardOrder \/ SetAgentReport
  \/ \E role \in Assistants \cup {"CLIENT"} : SendOrders(role)
  \/ \E a \in ReceivingAgents : TakeAsReceivingAgent(a)
  \/ \E a \in Couriers : TakeAsCourier(a)
  \/ \E s \in Closed \cup SentBack, closing \in BOOLEAN : Patch(s, closing)
  \/ \E b \in HomeBranches : Relocate(b)
  \/ \E c \in HomeClients : ChangeClient(c)
  \/ \E kind \in ReportKinds, a \in ReceivingAgents \cup {NoOne} : CreateClientReport(kind, a)
  \/ \E kind \in ReportKinds, s \in {"confirmed", "deleted"} : SetReport(kind, s)
  \/ \E e \in Assignees, clients \in SUBSET HomeClients : Assign(e, clients)

ScreensAsked ==
  \/ \E u \in Users({"RECEIVING_AGENT"} \cup Assistants) :
       AskStatistics(u) \/ ReadStatistics(u) \/ KeepStatistics(u)
  \/ \E u \in Managers : CountReady(u) \/ DivideReady(u)
  \/ Expire \/ Leave

HomeNext == ScreensChange \/ ScreensAsked \/ HomeRest

HomeSpec == HomeInit /\ [][HomeNext]_homeVars
-----------------------------------------------------------------------------
(* Properties *)

\* The rows keep their columns' types and a visit its fields.
HomeTypeOK ==
  /\ parcel \in Parcel
  /\ clientReport \in [ReportKinds -> ClientReport]
  /\ assigned \in [Assignees -> SUBSET HomeClients]
  /\ visit \in Visit
  /\ changes \in 0..MaxChanges

\* A receiving agent of another branch brings the order: his own branch counts it and
\* cannot list it.
OnLoan(u) ==
  /\ u.role \in {"BRANCH_MANAGER", "REPOSITORIY_EMPLOYEE"} /\ ~u.main
  /\ u.branch \notin {parcel.branch, BranchOfClient}

\* An assistant outside the main branch is counted orders of his stores he cannot list.
Elsewhere(u) ==
  /\ u.role = "EMPLOYEE_CLIENT_ASSISTANT" /\ ~u.main
  /\ u.branch \notin {parcel.branch, BranchOfClient}

\* An order in a report though its status went back: behind the tile, not on it.
Reopened == Live("DELIVERED")

\* However the order, its reports and the assignments change, a tile that counts the
\* order opens the list that has it, and a list has no order its tile did not count;
\* a tile of a client or a receiving agent is the sum of the counts behind it.  Excepted
\* are the cases named above, and for inquiry employees lists show less than is counted
\* (at the main branch, without limits, more).
TilesAreTheirLists ==
  \A u \in Viewers :
    LET counted == Statistics(u, Assigned(u))
        listed == TilesV2(u, PhoneLists(u))
        shown == TilesV2(u, counted)
    IN CASE u.role = "CLIENT" ->
              /\ TilesV1(u, counted) = PhoneLists(u)
              /\ \A t \in {"REGISTERED", "WITH_RECEIVING_AGENT", "DELIVERED"} :
                   /\ t = "DELIVERED" \/ ~Reopened =>
                        (t \in shown <=> BehindClientTile(u, t) # {})
                   /\ BehindClientTileV2(u, t) \subseteq BehindClientTile(u, t)
              /\ "REGISTERED" \in counted => ReadyTo(u) # {}
         [] u.role = "RECEIVING_AGENT" ->
              /\ \A t \in {"READY_TO_SEND", "WITH_RECEIVING_AGENT"} :
                   t \in shown <=> BehindAgentTile(u, t)
              /\ parcel.own =>
                   \A t \in {"READY_TO_SEND", "WITH_RECEIVING_AGENT", "REGISTERED"} :
                     t \in TilesV1(u, counted) <=> BehindAgentTileV2(u, t)
              /\ "RETURNED" \in shown /\ parcel.status \in SentBack =>
                   BehindAgentTile(u, "RETURNED") /\ BroughtBack(u.id, parcel.client)
              /\ \A kind \in ReportKinds :
                   kind \in TilesV1(u, counted) <=> CarriedReports(u.id, kind)
         [] u.role = "RECEIVING_AGENTS_MANAGER" ->
              \A t \in {"READY_TO_SEND", "WITH_RECEIVING_AGENT"} \cup ReportKinds :
                t \in ManagerTiles(u) <=>
                  AgentsBehind(u, t) # {} \/ (t = "READY_TO_SEND" /\ Unassigned(u))
         [] u.role = "INQUIRY_EMPLOYEE" ->
              IF u.main /\ u.branches = {} THEN shown \subseteq PhoneLists(u)
              ELSE listed \subseteq shown
         [] OTHER ->
              /\ ~OnLoan(u) /\ ~Elsewhere(u) => shown = listed
              /\ u.role \in Assistants /\ "REGISTERED" \in shown => ReadyTo(u) # {}

\* What an answer says fits together, though it is read in several steps while
\* assignments change: statistics count only orders of the clients and stores that were
\* assigned when they were asked for, kept ones too; and every order the manager is told
\* of is with some agents or with nobody, never both and never neither.
AnswersHoldTogether ==
  visit.pc = "answered" =>
    IF visit.by \in {u.id : u \in Managers}
    THEN IF visit.counted = NoOne THEN visit.groups = {} /\ ~visit.unassigned
         ELSE (visit.groups = {}) = visit.unassigned
    ELSE visit.counted \in visit.mine \cup {NoOne}
=============================================================================
