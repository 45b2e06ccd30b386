------------------------ MODULE RepositoryRouteProofs ------------------------
(***************************************************************************)
(* The way of an order of RepositoryRoute, for any branches, agents and    *)
(* requests: where the order is, which sides it has and which screens and  *)
(* counts show it.                                                         *)
(***************************************************************************)
EXTENDS RepositoryRoute, FiniteSetTheorems, TLAPS

\* The sides updateOrder writes for the client's branch c and the branch b.
SidesOf(c, b) == IF b = c THEN <<Nil, Nil>> ELSE <<c, b>>

\* An order on a shelf or a road has a desk, and one on the road has no agent and is
\* not awaited at the desk that sent it.
Standing ==
  /\ order.secondaryStatus \in {"IN_REPOSITORY", "IN_CAR"} => order.repository \in Branches
  /\ order.secondaryStatus = "IN_CAR" =>
       order.agent = Nil /\ order.forwardedRepo # order.repository

\* While no car wrote one side alone, the sides are those of the branch recorded; and
\* an order on a shelf has had its sides written.
Ruled ==
  /\ ruled # Nil =>
       <<order.forwardedBranchId, order.receivedBranchId>> = SidesOf(ruled, order.branch)
  /\ order.secondaryStatus = "IN_REPOSITORY" => ruled # Nil

\* What a request is to write names a place with all that belongs to it, or no place.
Whole(data) ==
  /\ data.secondaryStatus = "IN_CAR" =>
       /\ data.repository \in Branches /\ data.forwardedRepo \in Branches
       /\ data.repository # data.forwardedRepo /\ data.agent = Nil
  /\ data.secondaryStatus = "IN_REPOSITORY" =>
       data.repository \in Branches /\ data.branch \in Branches
  /\ data.secondaryStatus = Keep =>
       data.repository = Keep /\ data.forwardedRepo = Keep /\ data.agent = Keep
  /\ ~Given(data, "branch") => /\ data.secondaryStatus # "IN_CAR" => data.forwardedBranchId = Keep
                               /\ data.receivedBranchId = Keep

\* Once checked, what it writes has both sides of the branch it gives, for the client
\* the order had then.
Checked(q) ==
  /\ q.client \in Branches
  /\ Given(q.data, "branch") =>
       <<q.data.forwardedBranchId, q.data.receivedBranchId>> = SidesOf(q.client, q.data.branch)

Prepared(q) ==
  /\ q.pc \in {"given", "checked"} => Whole(q.data)
  /\ q.pc = "checked" => Checked(q)

IInv == TypeOK /\ Standing /\ Ruled /\ \A r \in Requests : Prepared(request[r])

-----------------------------------------------------------------------------
(* The values *)

LEMMA Apart ==
  /\ Keep \notin Branches /\ Nil \notin Branches /\ Keep \notin Agents /\ Nil \notin Agents
  /\ Nil # Keep /\ Keep \notin Statuses /\ Keep \notin Places
  /\ \A p \in {"WITH_CLIENT", "IN_REPOSITORY", "IN_CAR", "WITH_AGENT", "SEND_TO_COMPANY"} :
       p # Nil /\ p # Keep
BY RouteConstants, MarksAreNoValues DEF Places

LEMMA UntouchedFacts ==
  /\ Untouched \in Data /\ Whole(Untouched) /\ ~Given(Untouched, "branch")
  /\ Untouched.secondaryStatus = Keep /\ Untouched.status = Keep /\ Untouched.agent = Keep
BY Apart DEF Untouched, Data, Whole, Given

LEMMA IdleFacts == Idle \in Request /\ Prepared(Idle) /\ Idle.pc = "idle" /\ Idle.location = Nil
BY UntouchedFacts DEF Idle, Request, MaybeBranch, Prepared

\* A desk's scans: what they write is whole.
LEMMA ScansAreWhole ==
  ASSUME NEW desk \in Branches, NEW data \in Scans(desk), NEW status \in {Keep, "IN_GOV_REPOSITORY"}
  PROVE  /\ [data EXCEPT !.status = status] \in Data
         /\ Whole([data EXCEPT !.status = status])
<1>1. CASE data = TakenIn(desk)
  BY <1>1, Apart DEF TakenIn, Untouched, Data, Whole, Given, Statuses, OpenStatuses, Places
<1>2. CASE \E t \in Branches \ {desk} : data = SentTo(desk, t)
  <2>1. PICK t \in Branches \ {desk} : data = SentTo(desk, t)
    BY <1>2
  <2>2. data \in Data
    BY <2>1 DEF SentTo, Untouched, Data, Places, MaybeBranch
  <2>5. /\ data.secondaryStatus = "IN_CAR" /\ data.repository = t /\ data.branch = t
        /\ data.forwardedRepo = desk /\ data.agent = Nil
    BY <2>1 DEF SentTo, Untouched
  <2>3. [data EXCEPT !.status = status] \in Data
    BY <2>2 DEF Data, Statuses, OpenStatuses
  <2>4. Whole([data EXCEPT !.status = status])
    BY <2>2, <2>5, Apart DEF Whole, Given, Data
  <2> QED BY <2>3, <2>4
<1>3. CASE desk # MainBranch /\ data = SentUp(desk)
  <2> DEFINE up == IF Parent[desk] # Nil THEN Parent[desk] ELSE MainBranch
  <2>1. up \in Branches /\ up # desk
    BY <1>3, RouteConstants
  <2> QED BY <1>3, <2>1, Apart DEF SentUp, Untouched, Data, Whole, Given, Statuses,
                                   OpenStatuses, Places, MaybeBranch
<1> QED BY <1>1, <1>2, <1>3 DEF Scans, Departures

LEMMA PatchesAreWhole ==
  ASSUME NEW data \in Patches
  PROVE  data \in Data /\ Whole(data)
BY Apart DEF Patches, Untouched, Data, Whole, Given, Statuses, OpenStatuses, Places, MaybeBranch

LEMMA CreatedFacts ==
  ASSUME NEW b \in Branches, NEW c \in Branches, NEW o \in Created(b, c)
  PROVE  /\ o \in Order
         /\ o.secondaryStatus \in {"IN_REPOSITORY", "IN_CAR"} => o.repository \in Branches
         /\ o.secondaryStatus = "IN_CAR" => o.agent = Nil /\ o.forwardedRepo = Nil
         /\ o.secondaryStatus = "IN_REPOSITORY" =>
              o.branch = o.client /\ o.forwardedBranchId = Nil /\ o.receivedBranchId = Nil
<1> Governorate[b] \in Governorates
  BY DEF Governorates
<1> MainBranch \in Branches
  BY RouteConstants
<1> DEFINE byStaff == [NewOrder(b, c) EXCEPT !.confirmed = TRUE]
           shelved == b = c /\ o = [byStaff EXCEPT !.status = "IN_GOV_REPOSITORY",
                        !.secondaryStatus = "IN_REPOSITORY", !.repository = b]
           onRoad(to) == o = [byStaff EXCEPT !.status = "IN_GOV_REPOSITORY",
                        !.secondaryStatus = "IN_CAR", !.repository = to,
                        !.receivedBranchId = b, !.forwardedBranchId = c]
<1>1. o = NewOrder(b, c) \/ onRoad(b) \/ onRoad(MainBranch) \/ shelved
  BY DEF Created
<1>2. CASE o = NewOrder(b, c)
  BY <1>2, Apart DEF NewOrder, Order, Statuses, OpenStatuses, Places, MaybeBranch
<1>3. ASSUME NEW to \in Branches, onRoad(to)
      PROVE  /\ o \in Order /\ o.secondaryStatus = "IN_CAR" /\ o.repository = to
             /\ o.agent = Nil /\ o.forwardedRepo = Nil
  BY <1>3 DEF NewOrder, Order, Statuses, OpenStatuses, Places, MaybeBranch
<1>4. CASE shelved
  BY <1>4, Apart DEF NewOrder, Order, Statuses, OpenStatuses, Places, MaybeBranch
<1> HIDE DEF shelved, onRoad
<1> QED BY <1>1, <1>2, <1>3, <1>4, Apart

-----------------------------------------------------------------------------
(* Every step keeps IInv *)

LEMMA InitIInv == Init => IInv
<1> SUFFICES ASSUME Init PROVE IInv
  OBVIOUS
<1>1. PICK b \in Branches, c \in Branches : order \in Created(b, c)
  BY DEF Init
<1>2. order \in Order
  BY <1>1, CreatedFacts
<1>3. ruled \in MaybeBranch
  BY <1>2, <1>1 DEF Init, Order, MaybeBranch
<1>4. TypeOK
  BY <1>2, <1>3, IdleFacts, RouteConstants DEF Init, TypeOK
<1>5. Standing
  BY <1>1, CreatedFacts, Apart DEF Standing
<1>6. Ruled
  BY <1>1, <1>2, CreatedFacts, Apart DEF Ruled, Init, SidesOf, Order
<1> QED BY <1>4, <1>5, <1>6, IdleFacts DEF IInv, Init

LEMMA BeginKeeps ==
  ASSUME IInv, NEW r \in Requests, NEW fields, Begin(r, fields),
         \A f \in fields : f \in Request /\ Prepared(f)
  PROVE  IInv'
<1>1. PICK f \in fields : request' = [request EXCEPT ![r] = f]
  BY DEF Begin
<1>2. TypeOK'
  BY <1>1, RouteConstants DEF IInv, TypeOK, Begin
<1>3. \A q \in Requests : Prepared(request'[q])
  BY <1>1 DEF IInv, TypeOK
<1>4. Standing' /\ Ruled'
  BY DEF Begin, IInv, Standing, Ruled
<1> QED BY <1>2, <1>3, <1>4 DEF IInv, Prepared, Checked, Whole, Given

LEMMA GivenFacts ==
  ASSUME NEW data \in Data, Whole(data)
  PROVE  With(data) \in Request /\ Prepared(With(data))
BY DEF With, Idle, Request, MaybeBranch, Prepared

LEMMA ScanKeeps ==
  ASSUME IInv, NEW r \in Requests, NEW desk \in Branches,
         NEW status \in {Keep, "IN_GOV_REPOSITORY"}, Scan(r, desk, status)
  PROVE  IInv'
<1> DEFINE fields == {[With([data EXCEPT !.status = status]) EXCEPT !.confirms = TRUE] :
                        data \in Scans(desk)}
<1>1. \A f \in fields : f \in Request /\ Prepared(f)
  <2> SUFFICES ASSUME NEW data \in Scans(desk)
               PROVE  LET f == [With([data EXCEPT !.status = status]) EXCEPT !.confirms = TRUE]
                      IN  f \in Request /\ Prepared(f)
    OBVIOUS
  <2> DEFINE made == [data EXCEPT !.status = status]
  <2>1. With(made) \in Request /\ Prepared(With(made))
    BY ScansAreWhole, GivenFacts
  <2> HIDE DEF made
  <2>2. [With(made) EXCEPT !.confirms = TRUE] \in Request
    BY <2>1 DEF Request
  <2>3. Prepared([With(made) EXCEPT !.confirms = TRUE])
    BY <2>1 DEF With, Idle, Prepared
  <2> QED BY <2>2, <2>3 DEF made
<1>2. Begin(r, fields)
  BY DEF Scan
<1> QED BY <1>1, <1>2, BeginKeeps

LEMMA PatchKeeps ==
  ASSUME IInv, NEW r \in Requests, Patch(r)
  PROVE  IInv'
<1> DEFINE fields == {With(data) : data \in Patches}
                       \cup {[With(Untouched) EXCEPT !.location = b] : b \in Branches}
<1>1. \A data \in Patches : With(data) \in Request /\ Prepared(With(data))
  BY PatchesAreWhole, GivenFacts
<1>2. \A b \in Branches : /\ [With(Untouched) EXCEPT !.location = b] \in Request
                          /\ Prepared([With(Untouched) EXCEPT !.location = b])
  BY UntouchedFacts DEF With, Idle, Request, MaybeBranch, Prepared
<1>3. Begin(r, fields)
  BY DEF Patch
<1> QED BY <1>1, <1>2, <1>3, BeginKeeps

\* What updateOrder makes of a request's fields before it writes them stays whole, and
\* has both sides of the branch it gives.
LEMMA PreparedFields ==
  ASSUME TypeOK, NEW data \in Data, Whole(data), NEW location \in MaybeBranch
  PROVE  LET made == Handed(Sided(Relocated(Unlinked(data), location)))
         IN  /\ made \in Data /\ Whole(made)
             /\ Given(made, "branch") =>
                  <<made.forwardedBranchId, made.receivedBranchId>>
                    = SidesOf(order.client, made.branch)
<1> DEFINE d1 == Unlinked(data)
           d2 == Relocated(d1, location)
           d3 == Sided(d2)
<1>0. order.client \in Branches /\ order \in Order
  BY DEF TypeOK, Order
<1>1. d1 \in Data /\ Whole(d1)
  BY Apart DEF Unlinked, Data, Whole, Given
<1>2. d2 \in Data /\ Whole(d2)
  <2> HIDE DEF d1
  <2> QED BY <1>1, Apart DEF Relocated, Data, Whole, Given, MaybeBranch
<1>3. /\ d3 \in Data /\ Whole(d3)
      /\ Given(d3, "branch") =>
           <<d3.forwardedBranchId, d3.receivedBranchId>> = SidesOf(order.client, d3.branch)
  <2> HIDE DEF d2
  <2>1. CASE ~Given(d2, "branch")
    BY <1>2, <2>1 DEF Sided
  <2>2. CASE Given(d2, "branch") /\ d2.branch = order.client
    BY <1>2, <2>2, Apart DEF Sided, Data, Whole, Given, MaybeBranch, SidesOf
  <2>3. CASE Given(d2, "branch") /\ d2.branch # order.client
    <3>1. d3 = [d2 EXCEPT !.forwardedBranchId = order.client, !.receivedBranchId = d2.branch]
      BY <2>3 DEF Sided
    <3>2. d3 \in Data /\ Whole(d3)
      BY <1>0, <1>2, <2>3, <3>1 DEF Data, Whole, Given, MaybeBranch
    <3> QED BY <1>2, <2>3, <3>1, <3>2 DEF Data, SidesOf
  <2> QED BY <2>1, <2>2, <2>3
<1>4. /\ Handed(d3) \in Data /\ Whole(Handed(d3))
      /\ Handed(d3).branch = d3.branch
      /\ Handed(d3).forwardedBranchId = d3.forwardedBranchId
      /\ Handed(d3).receivedBranchId = d3.receivedBranchId
  <2> HIDE DEF d3
  <2>1. CASE order.agent # Nil /\ d3.agent \in Agents
    <3>1. Handed(d3) = [d3 EXCEPT !.status = Keep, !.secondaryStatus = "WITH_AGENT"]
      BY <2>1 DEF Handed
    <3>2. d3.secondaryStatus # "IN_CAR"
      BY <1>3, <2>1, Apart DEF Whole
    <3> QED BY <1>3, <3>1, <3>2, Apart DEF Data, Whole, Given, Places
  <2>2. CASE ~(order.agent # Nil /\ d3.agent \in Agents)
    <3>1. Handed(d3) = d3
      BY <2>2 DEF Handed
    <3> QED BY <1>3, <3>1
  <2> QED BY <2>1, <2>2
<1> QED BY <1>3, <1>4 DEF Given

LEMMA CheckKeeps ==
  ASSUME IInv, NEW r \in Requests, NEW closing \in BOOLEAN, Check(r, closing)
  PROVE  IInv'
<1> DEFINE q == request[r]
           made == Handed(Sided(Relocated(Unlinked(q.data), q.location)))
           next == [q EXCEPT !.pc = "checked", !.client = order.client, !.data = made]
<1>1. q \in Request /\ q.pc = "given" /\ Prepared(q)
  BY DEF IInv, TypeOK, Check
<1>2. q.data \in Data /\ q.location \in MaybeBranch /\ Whole(q.data)
  BY <1>1 DEF Request, Prepared
<1>3. order.client \in Branches
  BY DEF IInv, TypeOK, Order
<1>4. /\ made \in Data /\ Whole(made)
      /\ Given(made, "branch") =>
           <<made.forwardedBranchId, made.receivedBranchId>> = SidesOf(order.client, made.branch)
  BY <1>2, PreparedFields DEF IInv
<1>5. next \in Request /\ Prepared(next)
  <2> HIDE DEF made
  <2> QED BY <1>1, <1>3, <1>4 DEF Request, Prepared, Checked, MaybeBranch
<1>6. request' = [request EXCEPT ![r] = Idle] \/ request' = [request EXCEPT ![r] = next]
  BY DEF Check
<1>7. request' \in [Requests -> Request] /\ \A p \in Requests : Prepared(request'[p])
  <2> HIDE DEF next
  <2> QED BY <1>5, <1>6, IdleFacts DEF IInv, TypeOK
<1>8. UNCHANGED <<order, begun, ruled>>
  BY DEF Check
<1> QED BY <1>7, <1>8 DEF IInv, TypeOK, Standing, Ruled, Prepared, Checked, Whole, Given

\* The row after the write of a checked request.
LEMMA PlaceFacts ==
  ASSUME IInv, NEW r \in Requests, Place(r)
  PROVE  LET data == request[r].data IN
         /\ order' \in Order
         /\ data \in Data /\ Whole(data) /\ Checked(request[r])
         /\ order'.secondaryStatus = IF data.status = "DELIVERED" THEN Nil
                                     ELSE IF Given(data, "secondaryStatus")
                                          THEN data.secondaryStatus ELSE order.secondaryStatus
         /\ order'.repository = IF Given(data, "repository") THEN data.repository
                                ELSE order.repository
         /\ order'.forwardedRepo = IF data.secondaryStatus = "IN_REPOSITORY" THEN Nil
                                   ELSE IF Given(data, "forwardedRepo")
                                        THEN data.forwardedRepo ELSE order.forwardedRepo
         /\ order'.agent = IF Given(data, "agent") THEN data.agent ELSE order.agent
         /\ order'.branch = IF Given(data, "branch") THEN data.branch ELSE order.branch
         /\ order'.forwardedBranchId = IF Given(data, "forwardedBranchId")
                                       THEN data.forwardedBranchId ELSE order.forwardedBranchId
         /\ order'.receivedBranchId = IF Given(data, "receivedBranchId")
                                      THEN data.receivedBranchId ELSE order.receivedBranchId
<1> DEFINE data == request[r].data
           location == request[r].location
<1>1. data \in Data /\ Whole(data) /\ Checked(request[r]) /\ location \in MaybeBranch
  BY DEF IInv, TypeOK, Place, Request, Prepared
<1>2. location # Nil => Governorate[location] \in Governorates
  BY <1>1 DEF MaybeBranch, Governorates
<1>3. order \in Order
  BY DEF IInv, TypeOK
<1>4. order' = [f \in DOMAIN order |->
                  IF f = "secondaryStatus" /\ data.status = "DELIVERED" THEN Nil
                  ELSE IF f = "forwardedRepo" /\ data.secondaryStatus = "IN_REPOSITORY" THEN Nil
                  ELSE IF f = "governorate" /\ location # Nil THEN Governorate[location]
                  ELSE IF f = "confirmed" /\ request[r].confirms THEN TRUE
                  ELSE IF f \in DOMAIN data /\ Given(data, f) THEN data[f] ELSE order[f]]
  BY DEF Place
<1>5. DOMAIN order = {"status", "secondaryStatus", "repository", "forwardedRepo", "branch",
                      "client", "governorate", "forwardedBranchId", "receivedBranchId", "agent",
                      "own", "confirmed", "reports"}
  BY <1>3 DEF Order
<1>6. DOMAIN data = {"status", "secondaryStatus", "repository", "forwardedRepo", "branch",
                     "forwardedBranchId", "receivedBranchId", "agent"}
  BY <1>1 DEF Data
<1> HIDE DEF data, location
<1>7. order' \in Order
  <2>1. /\ order'.status \in Statuses /\ order'.secondaryStatus \in Places
        /\ order'.repository \in MaybeBranch /\ order'.forwardedRepo \in MaybeBranch
    BY <1>1, <1>3, <1>4, <1>5, <1>6 DEF Order, Data, Given, MaybeBranch, Places
  <2>2. /\ order'.branch \in Branches /\ order'.client \in Branches
        /\ order'.governorate \in Governorates
    BY <1>1, <1>2, <1>3, <1>4, <1>5, <1>6 DEF Order, Data, Given
  <2>3. /\ order'.forwardedBranchId \in MaybeBranch /\ order'.receivedBranchId \in MaybeBranch
        /\ order'.agent \in Agents \cup {Nil} /\ order'.own \in BOOLEAN
        /\ order'.reports \in SUBSET Kinds
    BY <1>1, <1>3, <1>4, <1>5, <1>6 DEF Order, Data, Given
  <2>4. order' = [status |-> order'.status, secondaryStatus |-> order'.secondaryStatus,
                  repository |-> order'.repository, forwardedRepo |-> order'.forwardedRepo,
                  branch |-> order'.branch, client |-> order'.client,
                  governorate |-> order'.governorate,
                  forwardedBranchId |-> order'.forwardedBranchId,
                  receivedBranchId |-> order'.receivedBranchId, agent |-> order'.agent,
                  own |-> order'.own, confirmed |-> order'.confirmed,
                  reports |-> order'.reports]
    BY <1>4, <1>5
  <2>5. order'.confirmed \in BOOLEAN
    <3>1. order'.confirmed = IF request[r].confirms THEN TRUE ELSE order.confirmed
      BY <1>4, <1>5, <1>6
    <3>2. order.confirmed \in BOOLEAN
      BY <1>3 DEF Order
    <3> QED BY <3>1, <3>2
  <2> QED BY <2>1, <2>2, <2>3, <2>4, <2>5 DEF Order
<1>8. /\ order'.secondaryStatus = IF data.status = "DELIVERED" THEN Nil
                                  ELSE IF Given(data, "secondaryStatus")
                                       THEN data.secondaryStatus ELSE order.secondaryStatus
      /\ order'.repository = IF Given(data, "repository") THEN data.repository
                             ELSE order.repository
      /\ order'.forwardedRepo = IF data.secondaryStatus = "IN_REPOSITORY" THEN Nil
                                ELSE IF Given(data, "forwardedRepo")
                                     THEN data.forwardedRepo ELSE order.forwardedRepo
      /\ order'.agent = IF Given(data, "agent") THEN data.agent ELSE order.agent
      /\ order'.branch = IF Given(data, "branch") THEN data.branch ELSE order.branch
      /\ order'.forwardedBranchId = IF Given(data, "forwardedBranchId")
                                    THEN data.forwardedBranchId ELSE order.forwardedBranchId
      /\ order'.receivedBranchId = IF Given(data, "receivedBranchId")
                                   THEN data.receivedBranchId ELSE order.receivedBranchId
  BY <1>4, <1>5, <1>6
<1> QED BY <1>1, <1>7, <1>8 DEF data

LEMMA PlaceKeeps ==
  ASSUME IInv, NEW r \in Requests, Place(r)
  PROVE  IInv'
<1> DEFINE data == request[r].data
<1>1. data \in Data /\ Whole(data) /\ Checked(request[r]) /\ order' \in Order
  BY PlaceFacts
<1>2. ruled' = IF Given(data, "branch") THEN request[r].client
               ELSE IF Given(data, "forwardedBranchId") THEN Nil ELSE ruled
  BY DEF Place
<1>3. TypeOK'
  BY <1>1, <1>2, IdleFacts DEF IInv, TypeOK, Place, MaybeBranch, Checked
<1>4. \A p \in Requests : Prepared(request'[p])
  BY IdleFacts DEF IInv, TypeOK, Place
<1>5. Standing'
  <2>1. CASE data.status = "DELIVERED"
    <3>1. order'.secondaryStatus = Nil
      BY <2>1, PlaceFacts
    <3> QED BY <3>1, Apart DEF Standing
  <2>2. CASE data.status # "DELIVERED" /\ data.secondaryStatus = Keep
    <3>1. /\ order'.secondaryStatus = order.secondaryStatus
          /\ order'.repository = order.repository
          /\ order'.forwardedRepo = order.forwardedRepo /\ order'.agent = order.agent
      BY <1>1, <2>2, PlaceFacts, Apart DEF Whole, Given
    <3> QED BY <3>1 DEF Standing, IInv
  <2>3. CASE data.status # "DELIVERED" /\ data.secondaryStatus = "IN_CAR"
    <3>1. /\ order'.repository = data.repository /\ order'.forwardedRepo = data.forwardedRepo
          /\ order'.agent = Nil
      BY <1>1, <2>3, PlaceFacts, Apart DEF Whole, Given
    <3> QED BY <1>1, <2>3, <3>1 DEF Standing, Whole
  <2>4. CASE /\ data.status # "DELIVERED" /\ data.secondaryStatus # Keep
             /\ data.secondaryStatus # "IN_CAR"
    <3>1. order'.secondaryStatus = data.secondaryStatus
      BY <2>4, PlaceFacts DEF Given
    <3>2. order'.secondaryStatus = "IN_REPOSITORY" => order'.repository \in Branches
      BY <1>1, <3>1, PlaceFacts, Apart DEF Whole, Given
    <3> QED BY <2>4, <3>1, <3>2 DEF Standing
  <2> QED BY <2>1, <2>2, <2>3, <2>4
<1>6. Ruled'
  <2>1. CASE Given(data, "branch")
    <3>1. order'.branch = data.branch /\ ruled' = request[r].client
      BY <2>1, <1>2, PlaceFacts
    <3>2. /\ order'.forwardedBranchId = data.forwardedBranchId
          /\ order'.receivedBranchId = data.receivedBranchId
      BY <1>1, <2>1, PlaceFacts, Apart DEF Checked, SidesOf, Given, Data
    <3> QED BY <1>1, <2>1, <3>1, <3>2, Apart DEF Ruled, Checked
  <2>2. CASE ~Given(data, "branch")
    <3>1. order'.branch = order.branch /\ order'.receivedBranchId = order.receivedBranchId
      BY <1>1, <2>2, PlaceFacts DEF Whole, Given
    <3>2. CASE Given(data, "forwardedBranchId")
      <4>1. ruled' = Nil /\ data.secondaryStatus = "IN_CAR"
        BY <1>1, <1>2, <2>2, <3>2 DEF Whole, Given
      <4>2. order'.secondaryStatus # "IN_REPOSITORY"
        BY <4>1, PlaceFacts, Apart DEF Given
      <4> QED BY <4>1, <4>2 DEF Ruled
    <3>3. CASE ~Given(data, "forwardedBranchId")
      <4>1. ruled' = ruled /\ order'.forwardedBranchId = order.forwardedBranchId
        BY <1>2, <2>2, <3>3, PlaceFacts
      <4>2. order'.secondaryStatus = "IN_REPOSITORY" => order.secondaryStatus = "IN_REPOSITORY"
        BY <1>1, <2>2, PlaceFacts, Apart DEF Whole, Given, Data
      <4> QED BY <3>1, <4>1, <4>2 DEF Ruled, IInv
    <3> QED BY <3>2, <3>3
  <2> QED BY <2>1, <2>2
<1> QED BY <1>3, <1>4, <1>5, <1>6 DEF IInv, Prepared, Checked, Whole, Given

LEMMA SentFacts ==
  ASSUME IInv
  PROVE  /\ Sent \in Order /\ Sent.secondaryStatus = "SEND_TO_COMPANY"
         /\ Sent.forwardedBranchId = order.forwardedBranchId
         /\ Sent.receivedBranchId = order.receivedBranchId /\ Sent.branch = order.branch
BY DEF IInv, TypeOK, Sent, Order, Places

LEMMA ForwardKeeps ==
  ASSUME IInv, NEW r \in Requests, ForwardOrderToCompany(r)
  PROVE  IInv'
<1>1. CASE Begin(r, {[Idle EXCEPT !.pc = "forwarding"]})
  <2>1. [Idle EXCEPT !.pc = "forwarding"] \in Request /\ Prepared([Idle EXCEPT !.pc = "forwarding"])
    BY IdleFacts DEF Request, Prepared
  <2> QED BY <1>1, <2>1, BeginKeeps
<1>2. CASE /\ order' = Sent /\ request' = [request EXCEPT ![r] = Idle]
           /\ UNCHANGED <<begun, ruled>>
  <2>1. TypeOK'
    BY <1>2, SentFacts, IdleFacts DEF IInv, TypeOK
  <2>2. \A p \in Requests : Prepared(request'[p])
    BY <1>2, IdleFacts DEF IInv, TypeOK
  <2>3. Standing' /\ Ruled'
    BY <1>2, SentFacts DEF IInv, Standing, Ruled
  <2> QED BY <2>1, <2>2, <2>3 DEF IInv, Prepared, Checked, Whole, Given
<1> QED BY <1>1, <1>2 DEF ForwardOrderToCompany

LEMMA NextIInv == IInv /\ [Next]_vars => IInv'
<1> SUFFICES ASSUME IInv, [Next]_vars PROVE IInv'
  OBVIOUS
<1>1. ASSUME NEW r \in Requests, NEW desk \in Branches,
             NEW status \in {Keep, "IN_GOV_REPOSITORY"}, Scan(r, desk, status)
      PROVE  IInv'
  BY <1>1, ScanKeeps
<1>2. ASSUME NEW r \in Requests, Patch(r) \/ Place(r) \/ ForwardOrderToCompany(r)
      PROVE  IInv'
  BY <1>2, PatchKeeps, PlaceKeeps, ForwardKeeps
<1>3. ASSUME NEW r \in Requests, NEW closing \in BOOLEAN, Check(r, closing)
      PROVE  IInv'
  BY <1>3, CheckKeeps
<1>4. ASSUME NEW c \in Branches, ChangeOrderClient(c)
      PROVE  IInv'
  <2>1. TypeOK'
    BY <1>4, RouteConstants DEF ChangeOrderClient, IInv, TypeOK, Order
  <2>2. Standing' /\ Ruled'
    BY <1>4 DEF ChangeOrderClient, IInv, TypeOK, Order, Standing, Ruled
  <2> QED BY <1>4, <2>1, <2>2 DEF ChangeOrderClient, IInv, Prepared, Checked, Whole, Given
<1>5. ASSUME BulkForwardOrdersToCompany
      PROVE  IInv'
  <2>1. TypeOK'
    BY <1>5, SentFacts DEF BulkForwardOrdersToCompany, IInv, TypeOK
  <2>2. Standing' /\ Ruled'
    BY <1>5, SentFacts DEF BulkForwardOrdersToCompany, IInv, Standing, Ruled
  <2> QED BY <1>5, <2>1, <2>2 DEF BulkForwardOrdersToCompany, IInv, Prepared, Checked, Whole, Given
<1>7. ASSUME NEW kind \in Kinds, SetReport(kind)
      PROVE  IInv'
  <2>1. TypeOK'
    BY <1>7, RouteConstants DEF SetReport, IInv, TypeOK, Order
  <2>2. Standing' /\ Ruled'
    BY <1>7 DEF SetReport, IInv, TypeOK, Order, Standing, Ruled
  <2> QED BY <1>7, <2>1, <2>2 DEF SetReport, IInv, Prepared, Checked, Whole, Given
<1>6. ASSUME UNCHANGED vars
      PROVE  IInv'
  BY <1>6 DEF vars, IInv, TypeOK, Standing, Ruled, Prepared, Checked, Whole, Given
<1> QED BY <1>1, <1>2, <1>3, <1>4, <1>5, <1>6, <1>7 DEF Next, Rest

\* IInv holds in every reachable state.
THEOREM Inductive == Spec => []IInv
BY InitIInv, NextIInv, PTL DEF Spec

-----------------------------------------------------------------------------
(* The properties *)

\* The row of an order keeps its columns' types and a request its fields, whatever
\* writes overlap.
THEOREM RouteTypes == Spec => []TypeOK
<1>1. IInv => TypeOK
  BY DEF IInv
<1> QED BY <1>1, Inductive, PTL

LEMMA Alone ==
  ASSUME NEW S, NEW b, b \in S, \A x \in S : x = b
  PROVE  Cardinality(S) = 1
<1>1. S = {b}
  OBVIOUS
<1> QED BY <1>1, FS_Singleton

\* However scans, agents and changes of client overlap, an order on a shelf is shown by
\* one desk and an order on the road by the desk that awaits it and the one that sent
\* it, and every tile opens a list and a print that have the order it counts.
THEOREM ScreensAgreeHolds == Spec => []ScreensAgree
<1>1. IInv => ScreensAgree
  <2> SUFFICES ASSUME IInv PROVE ScreensAgree
    OBVIOUS
  <2>0. \A desk, t : t \in Tiles(desk) <=>
           \/ /\ t = <<"forwarded", order.branch>> /\ order.secondaryStatus = "IN_CAR"
              /\ order.forwardedRepo = desk
           \/ /\ t = <<"inrepo", order.governorate>> /\ order.secondaryStatus = "IN_REPOSITORY"
              /\ order.repository = desk
           \/ /\ t = <<"incoming", order.forwardedBranchId>> /\ order.secondaryStatus = "IN_CAR"
              /\ order.repository = desk
    BY DEF Tiles
  <2> DEFINE forwarded == <<"forwarded", order.branch>>
             inrepo == <<"inrepo", order.governorate>>
             incoming == <<"incoming", order.forwardedBranchId>>
  <2>a. ASSUME NEW desk, order.own, forwarded \in Tiles(desk)
        PROVE  OnList(desk, forwarded) /\ Printed(desk, forwarded)
    <3>1. order.secondaryStatus = "IN_CAR" /\ order.forwardedRepo = desk
      BY <2>a, <2>0
    <3> QED BY <2>a, <3>1 DEF OnList, Printed
  <2>b. ASSUME NEW desk, order.own, inrepo \in Tiles(desk)
        PROVE  OnList(desk, inrepo) /\ Printed(desk, inrepo)
    <3>1. order.secondaryStatus = "IN_REPOSITORY" /\ order.repository = desk
      BY <2>b, <2>0
    <3> QED BY <2>b, <3>1 DEF OnList, Printed
  <2>c. ASSUME NEW desk, order.own, incoming \in Tiles(desk)
        PROVE  OnList(desk, incoming) /\ Printed(desk, incoming)
    <3>1. order.secondaryStatus = "IN_CAR" /\ order.repository = desk
      BY <2>c, <2>0
    <3> QED BY <2>c, <3>1 DEF OnList, Printed
  <2>d. forwarded[1] = "forwarded" /\ inrepo[1] = "inrepo" /\ incoming[1] = "incoming"
    OBVIOUS
  <2>e. /\ \A desk : forwarded \in Tiles(desk) <=>
                      order.secondaryStatus = "IN_CAR" /\ order.forwardedRepo = desk
        /\ \A desk : inrepo \in Tiles(desk) <=>
                      order.secondaryStatus = "IN_REPOSITORY" /\ order.repository = desk
        /\ \A desk : incoming \in Tiles(desk) <=>
                      order.secondaryStatus = "IN_CAR" /\ order.repository = desk
    BY <2>0
  <2>f. \A desk, t : t \in Tiles(desk) => t = forwarded \/ t = inrepo \/ t = incoming
    BY <2>0
  <2> HIDE DEF forwarded, inrepo, incoming
  <2>1. \A desk \in Branches : order.own => \A t \in Tiles(desk) : OnList(desk, t) /\ Printed(desk, t)
    BY <2>a, <2>b, <2>c, <2>f
  <2>2. \A desk \in Branches : HomeCounts(desk) = {t[1] : t \in Tiles(desk)}
    <3> TAKE desk \in Branches
    <3>1. \A k : k \in {t[1] : t \in Tiles(desk)} <=>
                 \/ k = "forwarded" /\ forwarded \in Tiles(desk)
                 \/ k = "inrepo" /\ inrepo \in Tiles(desk)
                 \/ k = "incoming" /\ incoming \in Tiles(desk)
      BY <2>d, <2>f
    <3>2. \A k : k \in HomeCounts(desk) <=>
                 \/ k = "forwarded" /\ forwarded \in Tiles(desk)
                 \/ k = "inrepo" /\ inrepo \in Tiles(desk)
                 \/ k = "incoming" /\ incoming \in Tiles(desk)
      BY <2>e DEF HomeCounts
    <3> QED BY <3>1, <3>2
  <2>3. ASSUME order.own
        PROVE  /\ \A d : d \in Showing("inrepo") <=>
                    d \in Branches /\ order.secondaryStatus = "IN_REPOSITORY" /\ order.repository = d
               /\ \A d : d \in Showing("incoming") <=>
                    d \in Branches /\ order.secondaryStatus = "IN_CAR" /\ order.repository = d
               /\ \A d : d \in Showing("forwarded") <=>
                    d \in Branches /\ order.secondaryStatus = "IN_CAR" /\ order.forwardedRepo = d
    <3>1. \A kind : \A d : d \in Showing(kind) <=>
            d \in Branches /\ \E t \in Tiles(d) : t[1] = kind
      BY <2>1, <2>3 DEF Showing
    <3>2. \A d : (\E t \in Tiles(d) : t[1] = "inrepo") <=> inrepo \in Tiles(d)
      BY <2>d, <2>f
    <3>3. \A d : (\E t \in Tiles(d) : t[1] = "incoming") <=> incoming \in Tiles(d)
      BY <2>d, <2>f
    <3>4. \A d : (\E t \in Tiles(d) : t[1] = "forwarded") <=> forwarded \in Tiles(d)
      BY <2>d, <2>f
    <3>5. \A d : d \in Showing("inrepo") <=> d \in Branches /\ inrepo \in Tiles(d)
      BY <3>1, <3>2
    <3>6. \A d : d \in Showing("incoming") <=> d \in Branches /\ incoming \in Tiles(d)
      BY <3>1, <3>3
    <3>7. \A d : d \in Showing("forwarded") <=> d \in Branches /\ forwarded \in Tiles(d)
      BY <3>1, <3>4
    <3> QED BY <2>e, <3>5, <3>6, <3>7
  <2>4. ASSUME order.own, order.secondaryStatus = "IN_REPOSITORY"
        PROVE  /\ Cardinality(Showing("inrepo")) = 1
               /\ Showing("forwarded") = {} /\ Showing("incoming") = {}
    <3>1. order.repository \in Showing("inrepo") /\ \A x \in Showing("inrepo") : x = order.repository
      BY <2>3, <2>4 DEF IInv, Standing
    <3> QED BY <2>3, <2>4, <3>1, Alone
  <2>5. ASSUME order.own, order.secondaryStatus = "IN_CAR"
        PROVE  /\ order.agent = Nil /\ Showing("inrepo") = {}
               /\ Cardinality(Showing("incoming")) = 1
               /\ order.forwardedRepo # Nil =>
                    Cardinality(Showing("forwarded")) = 1 /\ Showing("forwarded") # Showing("incoming")
    <3>1. /\ order.repository \in Branches /\ order.agent = Nil
          /\ order.forwardedRepo # order.repository
          /\ order.forwardedRepo # Nil => order.forwardedRepo \in Branches
      BY <2>5 DEF IInv, Standing, TypeOK, Order, MaybeBranch
    <3>2. order.repository \in Showing("incoming") /\ \A x \in Showing("incoming") : x = order.repository
      BY <2>3, <2>5, <3>1
    <3>3. order.forwardedRepo # Nil => /\ order.forwardedRepo \in Showing("forwarded")
                                       /\ \A x \in Showing("forwarded") : x = order.forwardedRepo
      BY <2>3, <2>5, <3>1
    <3>4. Showing("inrepo") = {}
      BY <2>3, <2>5
    <3> QED BY <3>1, <3>2, <3>3, <3>4, Alone
  <2> QED BY <2>1, <2>2, <2>4, <2>5 DEF ScreensAgree
<1> QED BY <1>1, Inductive, PTL

\* An order on a shelf has the sides of its client's branch and its own, unless the
\* client changed since they were written.
THEOREM SidesFollowClientHolds == Spec => []SidesFollowClient
<1>1. IInv => SidesFollowClient
  BY DEF IInv, Ruled, SidesOf, SidesFollowClient
<1> QED BY <1>1, Inductive, PTL

\* A branch is told to settle a delivered and confirmed order as sender, once its client
\* was paid, or as receiver, exactly if the recorded side is of its family and the other
\* is not, or there are none and it is delivered at home, until such a report lists it.
THEOREM BilledSidesHolds == Spec => []BilledSides
<1>1. IInv => BilledSides
  <2> SUFFICES ASSUME IInv, ruled = order.client, NEW b \in TopLevel
               PROVE  LET sender == order.forwardedBranchId  receiver == order.receivedBranchId
                          own(c, side) == \/ sender = Nil /\ SettlesAtHome(c)
                                          \/ /\ sender # Nil /\ side \in Family(c)
                                             /\ (sender \in Family(c)) # (receiver \in Family(c))
                          open == order.status = "DELIVERED" /\ order.confirmed
                      IN /\ CountForwarded(b) <=> /\ open /\ own(b, sender)
                                                  /\ "client" \in order.reports
                                                  /\ "forwarded" \notin order.reports
                         /\ CountReceived(b) <=> /\ open /\ own(b, receiver)
                                                 /\ "received" \notin order.reports
    BY DEF BilledSides
  <2>1. order.client \in Branches /\ ruled # Nil /\ order.reports \subseteq Kinds
    BY Apart DEF IInv, TypeOK, Order
  <2>2. <<order.forwardedBranchId, order.receivedBranchId>> = SidesOf(order.client, order.branch)
    BY <2>1 DEF IInv, Ruled
  <2> QED BY <2>1, <2>2, Apart DEF SidesOf, CountForwarded, CountReceived, SettlesAtHome, Countable
<1> QED BY <1>1, Inductive, PTL
=============================================================================
