--------------------------- MODULE RepositoryRoute ---------------------------
(***************************************************************************)
(* The way of an order between the export repositories of the branches:    *)
(* created at a desk or by its client, put into a car, taken out of it at  *)
(* another desk, given to an agent, delivered.  A scan reads the order     *)
(* twice and writes it once, outside any transaction.  The repository      *)
(* screens and the count of orders the branches have to settle read it;    *)
(* for that count, of reports only the kinds of live ones that list it.    *)
(*                                                                         *)
(* A branch stands for its export repository, a client for its branch.     *)
(***************************************************************************)
EXTENDS FiniteSets, Naturals

CONSTANTS Branches, MainBranch, Parent, Governorate, Agents, Requests, Nil, Keep,
          MaxBegun

ASSUME RouteConstants ==
    /\ MaxBegun \in Nat
    /\ MainBranch \in Branches
    /\ Parent \in [Branches -> Branches \cup {Nil}]
    /\ Parent[MainBranch] = Nil
    /\ \A b \in Branches : Parent[b] # Nil => Parent[Parent[b]] = Nil
    /\ DOMAIN Governorate = Branches
    /\ {Nil, Keep} \cap (Branches \cup Agents) = {} /\ Nil # Keep

Governorates == {Governorate[b] : b \in Branches}

VARIABLES
    order,      \* the row of Order
    begun,      \* how many requests began, changes of client and reports included,
                \* at most MaxBegun
    request,    \* what each request is about to write
    ruled       \* history: the client's branch for which updateOrder last wrote
                \* both sides of the order, Nil when something else wrote them

vars == <<order, begun, request, ruled>>

OpenStatuses == {"REGISTERED", "IN_GOV_REPOSITORY", "WITH_DELIVERY_AGENT"}
Statuses == OpenStatuses \cup {"DELIVERED"}
Places == {"WITH_CLIENT", "IN_REPOSITORY", "IN_CAR", "WITH_AGENT", "SEND_TO_COMPANY", Nil}
MaybeBranch == Branches \cup {Nil}

ASSUME MarksAreNoValues ==
    /\ Keep \notin Statuses \cup Places
    /\ Nil \notin {"WITH_CLIENT", "IN_REPOSITORY", "IN_CAR", "WITH_AGENT", "SEND_TO_COMPANY"}

Kinds == {"client", "forwarded", "received"}

\* reports: the kinds of live reports that list it, client those of delivered orders.
Order == [status : Statuses, secondaryStatus : Places,
          repository : MaybeBranch, forwardedRepo : MaybeBranch,
          branch : Branches, client : Branches, governorate : Governorates,
          forwardedBranchId : MaybeBranch, receivedBranchId : MaybeBranch,
          agent : Agents \cup {Nil}, own : BOOLEAN, confirmed : BOOLEAN,
          reports : SUBSET Kinds]

\* The fields a request writes; Keep is a field it does not mention.
Data == [status : Statuses \cup {Keep}, secondaryStatus : Places \cup {Keep},
         repository : Branches \cup {Keep}, forwardedRepo : MaybeBranch \cup {Keep},
         branch : Branches \cup {Keep},
         forwardedBranchId : MaybeBranch \cup {Keep}, receivedBranchId : MaybeBranch \cup {Keep},
         agent : Agents \cup {Nil, Keep}]

Untouched == [f \in {"status", "secondaryStatus", "repository", "forwardedRepo", "branch",
                      "forwardedBranchId", "receivedBranchId", "agent"} |-> Keep]

Idle == [pc |-> "idle", data |-> Untouched, confirms |-> FALSE, location |-> Nil, client |-> Nil]

Given(data, f) == data[f] # Keep
-----------------------------------------------------------------------------
(* Creation *)

Family(b) == {b} \cup {c \in Branches : Parent[c] = b}

NewOrder(b, c) ==
    [status |-> "REGISTERED", secondaryStatus |-> "WITH_CLIENT", repository |-> Nil,
     forwardedRepo |-> Nil, branch |-> b, client |-> c, governorate |-> Governorate[b],
     forwardedBranchId |-> Nil, receivedBranchId |-> Nil, agent |-> Nil, own |-> TRUE,
     confirmed |-> FALSE, reports |-> {}]

\* A client's order waits, unconfirmed, with the client; the main repository's staff
\* send the order to its branch; a branch's staff keep it or send it to the main one.
Created(b, c) ==
    LET byClient == NewOrder(b, c)
        byStaff == [byClient EXCEPT !.confirmed = TRUE]
        inCar(to) == [byStaff EXCEPT !.status = "IN_GOV_REPOSITORY",
                        !.secondaryStatus = "IN_CAR", !.repository = to,
                        !.receivedBranchId = b, !.forwardedBranchId = c]
        kept == [byStaff EXCEPT !.status = "IN_GOV_REPOSITORY",
                        !.secondaryStatus = "IN_REPOSITORY", !.repository = b]
    IN {byClient, inCar(b), IF b = c THEN kept ELSE inCar(MainBranch)}

Init ==
    /\ order \in UNION {Created(b, c) : b, c \in Branches}
    /\ begun = 0
    /\ request = [r \in Requests |-> Idle]
    /\ ruled = IF order.secondaryStatus = "IN_REPOSITORY" THEN order.client ELSE Nil
-----------------------------------------------------------------------------
(* Scans at a desk *)

\* What a desk makes of a scan with secondaryStatus IN_CAR and a chosen repository,
\* or none.  updateOrder overwrites the sides wherever a branch is given, so what the
\* handler puts there for a chosen repository is lost.
SentTo(desk, target) ==
    [Untouched EXCEPT !.secondaryStatus = "IN_CAR", !.repository = target, !.branch = target,
                      !.forwardedRepo = desk, !.agent = Nil]

\* Slip: a car to the main repository does not say who sent it.
SentUpUnsent(desk) ==
    [Untouched EXCEPT !.secondaryStatus = "IN_CAR",
                      !.repository = IF Parent[desk] # Nil THEN Parent[desk] ELSE MainBranch,
                      !.forwardedBranchId = desk, !.agent = Nil]

SentUp(desk) ==
    [Untouched EXCEPT !.secondaryStatus = "IN_CAR",
                      !.repository = IF Parent[desk] # Nil THEN Parent[desk] ELSE MainBranch,
                      !.forwardedRepo = desk, !.forwardedBranchId = desk, !.agent = Nil]

TakenIn(desk) ==
    [Untouched EXCEPT !.secondaryStatus = "IN_REPOSITORY", !.repository = desk, !.branch = desk]

Departures(desk) ==
    {SentTo(desk, t) : t \in {t \in Branches \ {desk} :
                                desk = MainBranch => Governorate[t] = order.governorate}}
      \cup IF desk = MainBranch THEN {} ELSE {SentUp(desk)}

Begin(r, fields) ==
    /\ request[r].pc = "idle" /\ begun < MaxBegun
    /\ begun' = begun + 1
    /\ \E f \in fields : request' = [request EXCEPT ![r] = f]
    /\ UNCHANGED <<order, ruled>>

With(data) == [Idle EXCEPT !.pc = "given", !.data = data]

\* The scans a desk may make of the order as it stands.
Scans(desk) == Departures(desk) \cup {TakenIn(desk)}

\* Scanning reads the order, open and of the desk's company or forwarded by it, and
\* confirms it.
Scan(r, desk, status) ==
    /\ order.status \in OpenStatuses
    /\ Begin(r, {[With([data EXCEPT !.status = status]) EXCEPT !.confirms = TRUE] :
                   data \in Scans(desk)})

\* PATCH /orders/:orderID: an agent takes the order, it is delivered, or it is sent
\* to a place of another branch.
Patches ==
    {[Untouched EXCEPT !.status = "WITH_DELIVERY_AGENT", !.secondaryStatus = "WITH_AGENT",
                       !.agent = a] : a \in Agents}
    \cup {[Untouched EXCEPT !.status = "DELIVERED"]}

Patch(r) ==
    Begin(r, {With(data) : data \in Patches}
               \cup {[With(Untouched) EXCEPT !.location = b] : b \in Branches})

\* "Already added" and the order of another company, as the second read shows them.
AlreadyAdded(data) ==
    /\ data.status = order.status
    /\ \/ /\ data.secondaryStatus = order.secondaryStatus
          /\ data.repository = order.repository /\ data.agent \notin Agents
       \/ data.agent = IF order.agent = Nil THEN Keep ELSE order.agent

OfAnother(data) ==
    ~order.own /\ Given(data, "status") /\ data.status # order.status

\* The agent leaves an order that enters a repository with its status.
Unlinked(data) ==
    IF /\ data.secondaryStatus = "IN_REPOSITORY" /\ order.secondaryStatus # "IN_REPOSITORY"
       /\ data.status = "IN_GOV_REPOSITORY"
    THEN [data EXCEPT !.agent = Nil]
    ELSE data

Relocated(data, location) ==
    IF location # Nil /\ order.status = "REGISTERED" THEN [data EXCEPT !.branch = location] ELSE data

\* Slip: an order that comes home keeps its receiving side.
SidedAway(data) ==
    IF ~Given(data, "branch") THEN data
    ELSE IF data.branch = order.client THEN [data EXCEPT !.forwardedBranchId = Nil]
         ELSE [data EXCEPT !.forwardedBranchId = order.client, !.receivedBranchId = data.branch]

\* Where a branch is given, the sides are the client's branch and it, or none.
Sided(data) ==
    IF ~Given(data, "branch") THEN data
    ELSE IF data.branch = order.client
         THEN [data EXCEPT !.forwardedBranchId = Nil, !.receivedBranchId = Nil]
         ELSE [data EXCEPT !.forwardedBranchId = order.client, !.receivedBranchId = data.branch]

\* An order that changes agents keeps its status.
Handed(data) ==
    IF order.agent # Nil /\ data.agent \in Agents
    THEN [data EXCEPT !.status = Keep, !.secondaryStatus = "WITH_AGENT"]
    ELSE data

\* closing: the caller holds CHANGE_CLOSED_ORDER_STATUS.
MaySetStatus(data, closing) ==
    Given(data, "status") /\ order.status = "DELIVERED" => closing

Check(r, closing) ==
    LET given == Unlinked(request[r].data)
    IN /\ request[r].pc = "given"
       /\ IF AlreadyAdded(given) \/ ~MaySetStatus(given, closing) \/ OfAnother(Handed(given))
          THEN request' = [request EXCEPT ![r] = Idle]
          ELSE request' = [request EXCEPT ![r] =
                 [@ EXCEPT !.pc = "checked", !.client = order.client,
                           !.data = Handed(Sided(Relocated(given, request[r].location)))]]
       /\ UNCHANGED <<order, begun, ruled>>

\* The one write: fields not given stay.  An order in a repository has no sender, a
\* delivered one is nowhere.
Place(r) ==
    LET data == request[r].data
        written == [f \in DOMAIN order |->
                      IF f = "secondaryStatus" /\ data.status = "DELIVERED" THEN Nil
                      ELSE IF f = "forwardedRepo" /\ data.secondaryStatus = "IN_REPOSITORY" THEN Nil
                      ELSE IF f = "governorate" /\ request[r].location # Nil
                           THEN Governorate[request[r].location]
                      ELSE IF f = "confirmed" /\ request[r].confirms THEN TRUE
                      ELSE IF f \in DOMAIN data /\ Given(data, f) THEN data[f] ELSE order[f]]
    IN /\ request[r].pc = "checked"
       /\ order' = written
       /\ ruled' = IF Given(data, "branch") THEN request[r].client
                   ELSE IF Given(data, "forwardedBranchId") THEN Nil ELSE ruled
       /\ request' = [request EXCEPT ![r] = Idle]
       /\ UNCHANGED begun
-----------------------------------------------------------------------------
(* Others who move the order *)

\* changeOrderClient leaves the sides alone.
ChangeOrderClient(c) ==
    /\ c # order.client
    /\ begun < MaxBegun /\ begun' = begun + 1
    /\ order' = [order EXCEPT !.client = c]
    /\ UNCHANGED <<request, ruled>>

\* A report lists the order, or its last live one of the kind goes.
SetReport(kind) ==
    /\ begun < MaxBegun /\ begun' = begun + 1
    /\ order' = [order EXCEPT !.reports = IF kind \in @ THEN @ \ {kind} ELSE @ \cup {kind}]
    /\ UNCHANGED <<request, ruled>>

Sent == [order EXCEPT !.own = FALSE, !.secondaryStatus = "SEND_TO_COMPANY"]

ForwardOrderToCompany(r) ==
    \/ /\ order.own /\ order.status \in OpenStatuses
       /\ Begin(r, {[Idle EXCEPT !.pc = "forwarding"]})
    \/ /\ request[r].pc = "forwarding"
       /\ order' = Sent
       /\ request' = [request EXCEPT ![r] = Idle]
       /\ UNCHANGED <<begun, ruled>>

BulkForwardOrdersToCompany ==
    /\ order.own
    /\ order' = Sent
    /\ UNCHANGED <<begun, request, ruled>>

\* The bound is reached and every request is answered.
Rest ==
    /\ begun = MaxBegun /\ \A r \in Requests : request[r].pc = "idle"
    /\ UNCHANGED vars

Next ==
    \/ \E r \in Requests :
         \/ \E desk \in Branches : \E status \in {Keep, "IN_GOV_REPOSITORY"} : Scan(r, desk, status)
         \/ Patch(r) \/ Place(r) \/ ForwardOrderToCompany(r)
         \/ \E closing \in BOOLEAN : Check(r, closing)
    \/ \E c \in Branches : ChangeOrderClient(c)
    \/ \E kind \in Kinds : SetReport(kind)
    \/ BulkForwardOrdersToCompany
    \/ Rest

Spec == Init /\ [][Next]_vars
-----------------------------------------------------------------------------
(* The screens of a desk *)

\* getRepositorOrdersStatistics: the tiles on which the order is counted, each with the
\* group it is counted in.  The tiles do not look at the company.
Tiles(desk) ==
    (IF order.secondaryStatus = "IN_CAR" /\ order.forwardedRepo = desk
     THEN {<<"forwarded", order.branch>>} ELSE {})
    \cup (IF order.secondaryStatus = "IN_REPOSITORY" /\ order.repository = desk
          THEN {<<"inrepo", order.governorate>>} ELSE {})
    \cup (IF order.secondaryStatus = "IN_CAR" /\ order.repository = desk
          THEN {<<"incoming", order.forwardedBranchId>>} ELSE {})

\* getRepositoryOrders: is the order on the list a tile opens?  A group without a branch
\* opens the list without that filter.
OnList(desk, tile) ==
    LET kind == tile[1]  group == tile[2] IN
    /\ order.own
    /\ order.secondaryStatus = IF kind = "inrepo" THEN "IN_REPOSITORY" ELSE "IN_CAR"
    /\ kind # "forwarded" => order.repository = desk
    /\ kind = "forwarded" => order.forwardedRepo = desk /\ order.branch = group
    /\ kind = "incoming" => group \in {Nil, order.forwardedBranchId}
    /\ kind = "inrepo" => order.governorate = group

\* getRepositoryOrdersPDF: is it on the print of that list?  The same queries again.
Printed(desk, tile) ==
    LET kind == tile[1]  group == tile[2] IN
    /\ CASE kind = "inrepo" -> /\ order.secondaryStatus = "IN_REPOSITORY"
                               /\ order.repository = desk /\ order.governorate = group
         [] kind = "forwarded" -> /\ order.secondaryStatus = "IN_CAR"
                                  /\ order.forwardedRepo = desk /\ order.branch = group
         [] kind = "incoming" -> /\ order.secondaryStatus = "IN_CAR" /\ order.repository = desk
                                 /\ group \in {Nil, order.forwardedBranchId}
    /\ order.own

\* getRepositoryOrderCount: the totals of the desk's home screen.
HomeCounts(desk) ==
    (IF order.secondaryStatus = "IN_REPOSITORY" /\ order.repository = desk THEN {"inrepo"} ELSE {})
    \cup (IF order.secondaryStatus = "IN_CAR" /\ order.forwardedRepo = desk THEN {"forwarded"} ELSE {})
    \cup (IF order.secondaryStatus = "IN_CAR" /\ order.repository = desk THEN {"incoming"} ELSE {})

\* getBranchsOrdersCount: the branches that are told to settle the order as its sender
\* and as its receiver.  A sender is told once its client was paid, nobody after a
\* report of that kind.
TopLevel == {b \in Branches : b # MainBranch /\ Parent[b] = Nil}

SettlesAtHome(b) == order.branch = b /\ Governorate[b] = "BAGHDAD" /\ order.client = b

Countable == order.confirmed /\ order.status = "DELIVERED"

CountForwarded(b) ==
    /\ Countable
    /\ order.reports \cap {"client", "forwarded"} = {"client"}
    /\ \/ order.client \in Family(b) /\ order.branch \notin Family(b)
       \/ SettlesAtHome(b)

\* Slip: the client's own family receives from itself.
CountReceivedAnyway(b) ==
    /\ Countable
    /\ "received" \notin order.reports
    /\ \/ order.client # b /\ order.branch \in Family(b)
       \/ SettlesAtHome(b)

CountReceived(b) ==
    /\ Countable
    /\ "received" \notin order.reports
    /\ \/ order.client \notin Family(b) /\ order.branch \in Family(b)
       \/ SettlesAtHome(b)
-----------------------------------------------------------------------------
(* Properties *)

Request == [pc : {"idle", "given", "checked", "forwarding"}, data : Data,
            confirms : BOOLEAN, location : MaybeBranch, client : MaybeBranch]

\* The row of an order keeps its columns' types and a request its fields.
TypeOK ==
    /\ order \in Order
    /\ request \in [Requests -> Request]
    /\ ruled \in MaybeBranch
    /\ begun \in 0..MaxBegun

\* The desks that show the order of their company under one kind of tile.
Showing(kind) == {desk \in Branches : \E t \in Tiles(desk) : t[1] = kind /\ OnList(desk, t)}

\* However scans, agents and changes of client overlap, an order in a repository is on
\* one desk's shelf and on nobody's road; an order in a car has no agent, is awaited at
\* one desk and, unless it was created on the road, was sent by one other desk; and each
\* tile that counts an order of the company opens a list and a print that have it, as
\* the home screen counts it.
ScreensAgree ==
    /\ order.own /\ order.secondaryStatus = "IN_REPOSITORY" =>
         /\ Cardinality(Showing("inrepo")) = 1
         /\ Showing("forwarded") = {} /\ Showing("incoming") = {}
    /\ order.own /\ order.secondaryStatus = "IN_CAR" =>
         /\ order.agent = Nil /\ Showing("inrepo") = {}
         /\ Cardinality(Showing("incoming")) = 1
         /\ order.forwardedRepo # Nil =>
              Cardinality(Showing("forwarded")) = 1 /\ Showing("forwarded") # Showing("incoming")
    /\ \A desk \in Branches :
         /\ order.own => \A t \in Tiles(desk) : OnList(desk, t) /\ Printed(desk, t)
         /\ HomeCounts(desk) = {t[1] : t \in Tiles(desk)}

\* Arriving at a desk repairs the sides: whatever cars left there, an order in a
\* repository has none if that is its client's branch, and else the client's branch
\* and this one, unless the client changed since.
SidesFollowClient ==
    order.secondaryStatus = "IN_REPOSITORY" /\ ruled \in {Nil, order.client} =>
      <<order.forwardedBranchId, order.receivedBranchId>>
        = IF order.client = order.branch THEN <<Nil, Nil>> ELSE <<order.client, order.branch>>

\* The counts ask for the order's branch and its client's, the sides are written by the
\* scans: a branch is told to settle as sender a delivered order, confirmed and paid to
\* its client, exactly if the order's recorded sender is of its family and the receiver
\* is not, or if it has no sides and is delivered at home in the capital, until a
\* report of forwarded orders lists it; and as receiver the other way round, paid or
\* not.  The exceptions are orders no desk took in, and changed clients.
BilledSides ==
    ruled = order.client =>
      LET sender == order.forwardedBranchId  receiver == order.receivedBranchId
          own(b, side) == \/ sender = Nil /\ SettlesAtHome(b)
                          \/ /\ sender # Nil /\ side \in Family(b)
                             /\ (sender \in Family(b)) # (receiver \in Family(b))
          open == order.status = "DELIVERED" /\ order.confirmed
      IN \A b \in TopLevel :
           /\ CountForwarded(b) <=> /\ open /\ own(b, sender)
                                    /\ "client" \in order.reports
                                    /\ "forwarded" \notin order.reports
           /\ CountReceived(b) <=> open /\ own(b, receiver) /\ "received" \notin order.reports
=============================================================================
