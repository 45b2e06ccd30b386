------------------------- MODULE OrderUpdatesProofs -------------------------
(***************************************************************************)
(* The writers of orders, for any number of orders, reports and requests,  *)
(* and for whatever staff ask.  The invariant says how much of what a      *)
(* request has read and decided is still so when it comes to write.        *)
(***************************************************************************)
EXTENDS OrderUpdates, TLAPS

\* A report whose sum is one of A: that a sum is a number is left to TLC.
ReportOf(A) == [state : {"free", "live", "deleted", "gone"},
                secondaryType : {"DELIVERED", "RETURNED"},
                orders : SUBSET Orders, clientNet : A]

Shape ==
  /\ order \in [Orders -> Order]
  /\ \E A : rep \in [Reports -> ReportOf(A)]
  /\ req \in [Requests -> Request]
  /\ \A p \in Requests : req[p].step = "idle" => req[p] = Idle
  /\ begun \in 0..MaxBegun
  /\ overlapped \subseteq Orders
  /\ askew \subseteq Orders

\* Free rows are empty, and no request and no report has them.
FreeRows ==
  \A o \in Orders : order[o].state = "free" =>
    /\ order[o] = FreeOrder
    /\ \A p \in Requests : o \notin req[p].on
    /\ \A r \in Reports : o \notin rep[r].orders

\* Orders that two requests hold at once are on record.
Apart ==
  \A p, q \in Requests : p # q => req[p].on \cap req[q].on \subseteq overlapped

\* What was decided from old, what was read, whatever became of the order since.
Decided(step, closed, old, new, who) ==
  /\ new.status # None => step \in {"update", "auto"}
  /\ new.paid # None => step \in {"update", "auto", "partner"}
  /\ step = "update" /\ closed =>
       \/ new.status = None
       \/ "closed" \in who
       \/ "partial" \in who /\ new.status = "PARTIALLY_RETURNED"
  /\ new.paid \notin {None, 0} =>
       \/ step = "partner"
       \/ step = "auto" /\ old.paid = 0
       \/ step = "update" /\ (old.paid = 0 \/ ~old.settled \/ "treasury" \in who)
  /\ step = "delete" => ~old.settled

\* What is going to be written is right for the row.
Fitting(step, row, new, who) ==
  /\ step = "update" =>
       /\ \E b \in Body, c \in Costs : new = UpdateData(row, b, c)
       /\ row.forwarded /\ "holder" \notin who =>
            new.status \in {None, row.status} /\ ~IsAmount(new.paid)
  /\ step = "client" => \E c \in Costs : new = [NoData EXCEPT !.cost = c, !.net = Net(row, None, c)]
  /\ step = "partner" => new.paid # None
  /\ step = "auto" =>
       /\ new.cost = None
       /\ new.paid = None =>
            new.net = None /\ (new.status \in Delivered => new.status = row.status \/ row.paid # 0)
  /\ step = "forward" => new.status = None /\ new.paid = None /\ new.cost = None /\ new.net = None
  /\ step = "costs" => \E c \in Costs : new = CostData(row, c)
  /\ step = "create" => new.net = row.net

\* A request that met no other has read the row as it is.
Faithful(p) ==
  \A o \in req[p].on :
    /\ Decided(req[p].step, o \in req[p].closed, req[p].old[o], req[p].new[o], req[p].who)
    /\ o \notin overlapped =>
         /\ req[p].step # "create" => req[p].old[o] = SeenOf(order[o])
         /\ Fitting(req[p].step, order[o], req[p].new[o], req[p].who)

IInv == Shape /\ FreeRows /\ Apart /\ (\A p \in Requests : Faithful(p)) /\ NetFollowsPayment

-----------------------------------------------------------------------------
(* Operators *)

LEMMA NoneFacts ==
  /\ None \notin Int /\ None # 0 /\ Costs \subseteq Int /\ Amounts \subseteq Int /\ Total \in Int
  /\ 0 \notin Amounts /\ None \notin Statuses
BY MoneyAssumption, NoneAssumption

LEMMA IdleFacts ==
  Idle \in Request /\ Idle.step = "idle" /\ Idle.on = {} /\ NoData \in Data
BY DEF Idle, Request, SeenOf, FreeOrder, Seen, NoData, Data, LastSteps

LEMMA SeenFacts ==
  ASSUME NEW row \in Order
  PROVE  /\ SeenOf(row) \in Seen
         /\ SeenOf(row).paid = row.paid /\ SeenOf(row).cost = row.cost
         /\ SeenOf(row).settled = row.settled
BY DEF SeenOf, Seen, Order

LEMMA FreeOrderFacts == FreeOrder \in Order /\ FreeOrder.state = "free"
BY DEF FreeOrder, Order, Statuses

\* Rows that differ in their state at most.
Alike(row, now) ==
  /\ now.status = row.status /\ now.paid = row.paid /\ now.cost = row.cost /\ now.net = row.net
  /\ now.agent = row.agent /\ now.forwarded = row.forwarded /\ now.settled = row.settled

LEMMA AlikeFacts ==
  ASSUME NEW row, NEW now, Alike(row, now)
  PROVE  /\ SeenOf(now) = SeenOf(row)
         /\ \A b, c : UpdateData(now, b, c) = UpdateData(row, b, c)
         /\ \A paid, c : Net(now, paid, c) = Net(row, paid, c)
         /\ \A c : CostData(now, c) = CostData(row, c)
         /\ \A step, new, who : Fitting(step, row, new, who) => Fitting(step, now, new, who)
<1>1. SeenOf(now) = SeenOf(row)
  BY DEF Alike, SeenOf
<1>2. \A b : Derived(now, b) = Derived(row, b)
  BY DEF Alike, Derived
<1>3. \A b : PaidAmount(now, b) = PaidAmount(row, b)
  BY <1>2 DEF Alike, PaidAmount
<1>4. \A b : NewStatus(now, b) = NewStatus(row, b)
  BY DEF Alike, NewStatus
<1>5. \A b, c : NewCost(now, b, c) = NewCost(row, b, c)
  BY <1>4 DEF Alike, NewCost
<1>6. \A paid, c : Net(now, paid, c) = Net(row, paid, c)
  BY DEF Alike, Net
<1>7. \A b, c : UpdateData(now, b, c) = UpdateData(row, b, c)
  <2> SUFFICES ASSUME NEW b, NEW c PROVE UpdateData(now, b, c) = UpdateData(row, b, c)
    OBVIOUS
  <2>1. Net(now, PaidAmount(now, b), NewCost(now, b, c)) = Net(row, PaidAmount(row, b), NewCost(row, b, c))
    BY <1>3, <1>5, <1>6
  <2>2. (now.agent /\ b.agent) = (row.agent /\ b.agent)
    BY DEF Alike
  <2> QED BY <1>3, <1>4, <1>5, <2>1, <2>2 DEF UpdateData
<1>8. \A c : CostData(now, c) = CostData(row, c)
  BY DEF Alike, CostData
<1>9. \A step, new, who : Fitting(step, row, new, who) => Fitting(step, now, new, who)
  <2> SUFFICES ASSUME NEW step, NEW new, NEW who, Fitting(step, row, new, who)
               PROVE  Fitting(step, now, new, who)
    OBVIOUS
  <2>1. step = "update" => \E b \in Body, c \in Costs : new = UpdateData(now, b, c)
    BY <1>7 DEF Fitting
  <2>2. step = "client" =>
          \E c \in Costs : new = [NoData EXCEPT !.cost = c, !.net = Net(now, None, c)]
    BY <1>6 DEF Fitting
  <2>3. step = "costs" => \E c \in Costs : new = CostData(now, c)
    BY <1>8 DEF Fitting
  <2> QED BY <2>1, <2>2, <2>3 DEF Fitting, Alike
<1> QED BY <1>1, <1>6, <1>7, <1>8, <1>9

LEMMA WrittenFacts ==
  ASSUME NEW row \in Order, NEW d \in Data
  PROVE  /\ Written(row, d) \in Order
         /\ Written(row, d).state = row.state
         /\ Written(row, d).settled = row.settled
         /\ Written(row, d).status = Given(d.status, row.status)
         /\ Written(row, d).paid = Given(d.paid, row.paid)
         /\ Written(row, d).cost = Given(d.cost, row.cost)
         /\ Written(row, d).net = Given(d.net, row.net)
<1>1. /\ Given(d.status, row.status) \in Statuses /\ Given(d.paid, row.paid) \in Int
      /\ Given(d.cost, row.cost) \in Int /\ Given(d.net, row.net) \in Int
      /\ Given(d.agent, row.agent) \in BOOLEAN /\ Given(d.forwarded, row.forwarded) \in BOOLEAN
      /\ Given(d.sent, row.sent) \in BOOLEAN
  BY DEF Given, Order, Data
<1> DEFINE status == Given(d.status, row.status)
           paid == Given(d.paid, row.paid)
           cost == Given(d.cost, row.cost)
           net == Given(d.net, row.net)
           agent == Given(d.agent, row.agent)
           forwarded == Given(d.forwarded, row.forwarded)
           sent == Given(d.sent, row.sent)
<1>2. Written(row, d) = [row EXCEPT !.status = status, !.paid = paid, !.cost = cost, !.net = net,
                                    !.agent = agent, !.forwarded = forwarded, !.sent = sent]
  BY DEF Written, Order
<1>4. /\ status \in Statuses /\ paid \in Int /\ cost \in Int /\ net \in Int
      /\ agent \in BOOLEAN /\ forwarded \in BOOLEAN /\ sent \in BOOLEAN
  BY <1>1
<1> HIDE DEF status, paid, cost, net, agent, forwarded, sent
<1>3. Written(row, d).state = row.state /\ Written(row, d).settled = row.settled
  BY <1>2 DEF Order
<1>5. Written(row, d).status = status /\ Written(row, d).paid = paid
  BY <1>2 DEF Order
<1>6. Written(row, d).cost = cost /\ Written(row, d).net = net
  BY <1>2 DEF Order
<1>7. Written(row, d) \in Order
  BY <1>2, <1>4 DEF Order
<1> QED BY <1>3, <1>5, <1>6, <1>7 DEF status, paid, cost, net

LEMMA UpdateDataFacts ==
  ASSUME NEW row \in Order, NEW b \in Body, NEW c \in Costs
  PROVE  /\ UpdateData(row, b, c) \in Data
         /\ UpdateData(row, b, c).status = NewStatus(row, b)
         /\ UpdateData(row, b, c).paid = PaidAmount(row, b)
         /\ UpdateData(row, b, c).cost =
              IF NewStatus(row, b) = "RETURNED" THEN 0 ELSE NewCost(row, b, c)
         /\ UpdateData(row, b, c).net =
              IF NewStatus(row, b) = "RETURNED" THEN 0
              ELSE Net(row, PaidAmount(row, b), NewCost(row, b, c))
<1>1. b.status \in Statuses \cup {None} /\ b.paid \in Int \cup {None}
  <2>1. b.status \in Statuses \cup {None} /\ b.paid \in Amounts \cup {0, None}
    BY DEF Body
  <2>2. \A x \in Amounts \cup {0} : x \in Int
    BY NoneFacts
  <2> QED BY <2>1, <2>2
<1>2. NewStatus(row, b) \in Statuses \cup {None}
  BY <1>1 DEF NewStatus
<1>3. PaidAmount(row, b) \in Int \cup {None}
  BY <1>1, NoneFacts DEF PaidAmount, Derived
<1>4. NewCost(row, b, c) \in Int \cup {None}
  BY NoneFacts DEF NewCost, Order
<1>5. Net(row, PaidAmount(row, b), NewCost(row, b, c)) \in Int
  BY <1>3, <1>4, NoneFacts DEF Net, IsAmount, Order
<1> DEFINE status == NewStatus(row, b)
           paid == PaidAmount(row, b)
           cost == IF NewStatus(row, b) = "RETURNED" THEN 0 ELSE NewCost(row, b, c)
           net == IF NewStatus(row, b) = "RETURNED" THEN 0
                  ELSE Net(row, PaidAmount(row, b), NewCost(row, b, c))
           agent == IF b.agent THEN TRUE ELSE None
           sent == IF NewStatus(row, b) = "DELIVERED" \/ (row.agent /\ b.agent) THEN FALSE ELSE None
<1>6. /\ status \in Statuses \cup {None} /\ paid \in Int \cup {None}
      /\ cost \in Int \cup {None} /\ net \in Int \cup {None}
  BY <1>2, <1>3, <1>4, <1>5
<1>7. agent \in BOOLEAN \cup {None} /\ sent \in BOOLEAN \cup {None}
  OBVIOUS
<1>8. UpdateData(row, b, c) = [NoData EXCEPT !.status = status, !.paid = paid, !.cost = cost,
                                             !.net = net, !.agent = agent, !.sent = sent]
  BY DEF UpdateData
<1> HIDE DEF status, paid, cost, net, agent, sent
<1>9. /\ UpdateData(row, b, c) \in Data
      /\ UpdateData(row, b, c).status = status /\ UpdateData(row, b, c).paid = paid
      /\ UpdateData(row, b, c).cost = cost /\ UpdateData(row, b, c).net = net
  BY <1>6, <1>7, <1>8, IdleFacts DEF Data
<1> QED BY <1>9 DEF status, paid, cost, net

LEMMA CostDataFacts ==
  ASSUME NEW row \in Order, NEW c \in Costs
  PROVE  /\ CostData(row, c) \in Data
         /\ CostData(row, c).status = None /\ CostData(row, c).paid = None
         /\ CostData(row, c).cost = c /\ CostData(row, c).net = row.paid - c
<1>1. row.paid - c \in Int /\ c \in Int
  BY NoneFacts DEF Order
<1> QED BY <1>1, IdleFacts DEF CostData, NoData, Data

-----------------------------------------------------------------------------
(* What a row owes its client *)

Owed(row) == row.paid # 0 \/ row.status \in Delivered => row.net = row.paid - row.cost

\* An update that is not one of the exceptions writes the net of what it leaves.
LEMMA UpdateOwes ==
  ASSUME NEW row \in Order, NEW b \in Body, NEW c \in Costs, NEW new, new = UpdateData(row, b, c),
         new.status # "RETURNED" =>
           ~(new.paid = 0 /\ row.paid # 0) /\ ~(new.cost = 0 /\ row.cost # 0),
         new.status = "RETURNED" => new.paid # None \/ row.paid = 0
  PROVE  Owed(Written(row, new))
<1>1. /\ new \in Data /\ new.status = NewStatus(row, b) /\ new.paid = PaidAmount(row, b)
      /\ new.cost = IF NewStatus(row, b) = "RETURNED" THEN 0 ELSE NewCost(row, b, c)
      /\ new.net = IF NewStatus(row, b) = "RETURNED" THEN 0
                   ELSE Net(row, PaidAmount(row, b), NewCost(row, b, c))
  BY UpdateDataFacts
<1>2. /\ Written(row, new).status = Given(new.status, row.status)
      /\ Written(row, new).paid = Given(new.paid, row.paid)
      /\ Written(row, new).cost = Given(new.cost, row.cost)
      /\ Written(row, new).net = Given(new.net, row.net)
  BY <1>1, WrittenFacts
<1>3. row.paid \in Int /\ row.cost \in Int /\ row.status \in Statuses
  BY DEF Order
<1>4. CASE NewStatus(row, b) = "RETURNED"
  <2>1. PaidAmount(row, b) \in {0, None}
    <3>1. b.status = "RETURNED"
      BY <1>4, NoneFacts DEF NewStatus, Statuses
    <3> QED BY <3>1, NoneFacts DEF PaidAmount, IsAmount, Delivered, Statuses
  <2> QED BY <1>1, <1>2, <1>3, <1>4, <2>1, NoneFacts DEF Owed, Given
<1>5. CASE NewStatus(row, b) # "RETURNED"
  <2> DEFINE paid == PaidAmount(row, b)
             cost == NewCost(row, b, c)
  <2>1. /\ new.paid = paid /\ new.cost = cost /\ new.net = Net(row, paid, cost)
        /\ ~(paid = 0 /\ row.paid # 0) /\ ~(cost = 0 /\ row.cost # 0)
    BY <1>1, <1>5
  <2>2. paid \in Int \cup {None} /\ cost \in Int \cup {None}
    BY <1>1, <2>1 DEF Data
  <2>3. cost = None => row.cost = 0
    BY NoneFacts, <1>3 DEF NewCost
  <2> HIDE DEF paid, cost
  <2>4. Net(row, paid, cost) = Given(paid, row.paid) - Given(cost, row.cost)
    BY <1>3, <2>1, <2>2, <2>3, NoneFacts DEF Net, IsAmount, Given
  <2>5. Given(new.net, row.net) = Net(row, paid, cost)
    <3>1. Given(paid, row.paid) - Given(cost, row.cost) \in Int
      BY <1>3, <2>2 DEF Given
    <3> QED BY <2>1, <2>4, <3>1, NoneFacts DEF Given
  <2> QED BY <1>2, <2>1, <2>4, <2>5 DEF Owed
<1> QED BY <1>4, <1>5

-----------------------------------------------------------------------------
(* What a step of somebody else leaves to a request *)

\* A request keeps what it has, and the rows it has to itself are as they were.
LEMMA OthersKeep ==
  ASSUME IInv, NEW q \in Requests, req'[q] = req[q], overlapped \subseteq overlapped',
         \A o \in req[q].on \ overlapped' : Alike(order[o], order'[o])
  PROVE  Faithful(q)'
<1>1. Faithful(q)
  BY DEF IInv
<1>2. \A o \in req[q].on \ overlapped' :
        /\ SeenOf(order'[o]) = SeenOf(order[o])
        /\ \A step, new, who : Fitting(step, order[o], new, who) => Fitting(step, order'[o], new, who)
  BY AlikeFacts
<1> QED BY <1>1, <1>2 DEF Faithful

LEMMA IdleFaithful ==
  ASSUME NEW p \in Requests, req'[p] = Idle
  PROVE  Faithful(p)'
BY IdleFacts DEF Faithful

\* A request that ends, having written into its own orders or not.
LEMMA EndKeeps ==
  ASSUME IInv, NEW p \in Requests, End(p), UNCHANGED <<begun, overlapped>>,
         askew' \subseteq Orders, order' \in [Orders -> Order],
         \A o \in Orders \ req[p].on : Alike(order[o], order'[o]),
         \A o \in Orders : order'[o].state = "free" => order'[o] = FreeOrder /\ order[o].state = "free",
         \E A : rep' \in [Reports -> ReportOf(A)],
         \A o \in Orders, r \in Reports : order[o].state = "free" => o \notin rep'[r].orders,
         NetFollowsPayment'
  PROVE  IInv'
<1> USE DEF IInv
<1>1. /\ req \in [Requests -> Request] /\ req' \in [Requests -> Request]
      /\ req'[p] = Idle /\ \A q \in Requests \ {p} : req'[q] = req[q]
  BY IdleFacts DEF Shape, End
<1>2. Shape'
  BY <1>1, IdleFacts DEF Shape
<1>3. FreeRows'
  BY <1>1, IdleFacts DEF FreeRows
<1>4. Apart'
  BY <1>1, IdleFacts DEF Apart
<1>5. ASSUME NEW q \in Requests PROVE Faithful(q)'
  <2>1. CASE q = p
    BY <1>1, <2>1, IdleFaithful
  <2>2. CASE q # p
    <3>1. \A o \in req[q].on \ overlapped' : Alike(order[o], order'[o])
      BY <1>1, <2>2 DEF Apart, Request
    <3> QED BY <1>1, <2>2, <3>1, OthersKeep
  <2> QED BY <2>1, <2>2
<1> QED BY <1>2, <1>3, <1>4, <1>5

\* A writer of one statement meets the requests that have the rows it changes.
LEMMA StatementKeeps ==
  ASSUME IInv, UNCHANGED <<req, begun, askew>>,
         overlapped \subseteq overlapped', overlapped' \subseteq Orders,
         order' \in [Orders -> Order],
         \A q \in Requests : \A o \in req[q].on \ overlapped' : Alike(order[o], order'[o]),
         \A o \in Orders : order'[o].state = "free" => order'[o] = FreeOrder /\ order[o].state = "free",
         \E A : rep' \in [Reports -> ReportOf(A)],
         \A r \in Reports : rep'[r].orders = rep[r].orders,
         NetFollowsPayment'
  PROVE  IInv'
<1> USE DEF IInv
<1>1. Shape'
  BY DEF Shape
<1>2. FreeRows'
  BY DEF FreeRows
<1>3. Apart'
  BY DEF Apart
<1>4. \A q \in Requests : Faithful(q)'
  BY OthersKeep
<1> QED BY <1>1, <1>2, <1>3, <1>4

-----------------------------------------------------------------------------
(* Requests begin *)

LEMMA BeginKeeps ==
  ASSUME IInv, NEW p \in Requests, NEW step, NEW S \in SUBSET Orders, NEW new,
         NEW who \in SUBSET Rights, NEW type \in {"DELIVERED", "RETURNED"},
         Begin(p, step, S, new, who, type),
         step \in LastSteps \cup {"delete", "costs"},
         \A o \in S : new[o] \in Data,
         \A o \in S : Decided(step, Closed(o), SeenOf(order[o]), new[o], who),
         \A o \in S : Fitting(step, order[o], new[o], who)
  PROVE  IInv'
<1> USE DEF IInv
<1> DEFINE r == [step |-> step, on |-> S, closed |-> {o \in S : Closed(o)},
                 old |-> [o \in Orders |-> SeenOf(IF o \in S THEN order[o] ELSE FreeOrder)],
                 new |-> [o \in Orders |-> IF o \in S THEN new[o] ELSE NoData],
                 who |-> who, secondaryType |-> type]
<1>1. /\ req' = [req EXCEPT ![p] = r] /\ Meets(S) /\ \A o \in S : Known(o)
      /\ begun < MaxBegun /\ begun' = begun + 1 /\ UNCHANGED <<order, rep, askew>>
  BY DEF Begin
<1>2. order \in [Orders -> Order] /\ req \in [Requests -> Request] /\ overlapped \subseteq Orders
  BY DEF Shape
<1>3. r \in Request
  <2>1. \A o \in Orders : SeenOf(IF o \in S THEN order[o] ELSE FreeOrder) \in Seen
    BY <1>2, SeenFacts, FreeOrderFacts
  <2>2. r.old \in [Orders -> Seen]
    BY <2>1
  <2>3. r.new \in [Orders -> Data]
    BY IdleFacts
  <2>4. step \in {"idle", "delete", "costs", "create"} \cup LastSteps
    OBVIOUS
  <2>5. r.closed \in SUBSET Orders
    OBVIOUS
  <2> QED BY <2>2, <2>3, <2>4, <2>5 DEF Request
<1>4. /\ r.step = step /\ r.on = S /\ r.who = who
      /\ \A o \in S : r.old[o] = SeenOf(order[o]) /\ r.new[o] = new[o]
      /\ \A o \in S : (o \in r.closed) <=> Closed(o)
  <2>1. r.closed = {o \in S : Closed(o)} /\ r.step = step /\ r.on = S /\ r.who = who
    OBVIOUS
  <2>2. \A o \in S : r.old[o] = SeenOf(order[o]) /\ r.new[o] = new[o]
    OBVIOUS
  <2> HIDE DEF r
  <2> QED BY <2>1, <2>2
<1> HIDE DEF r
<1>5. req' \in [Requests -> Request] /\ req'[p] = r /\ \A q \in Requests \ {p} : req'[q] = req[q]
  BY <1>1, <1>2, <1>3
<1>6. /\ overlapped \subseteq overlapped' /\ overlapped' \subseteq Orders
      /\ \A q \in Requests : S \cap req[q].on \subseteq overlapped'
  BY <1>1, <1>2 DEF Meets
<1>7. begun' \in 0..MaxBegun
  BY <1>1, MoneyAssumption DEF Shape
<1>8. step # "idle"
  BY DEF LastSteps
<1>9. Shape'
  BY <1>1, <1>4, <1>5, <1>6, <1>7, <1>8 DEF Shape
<1>10. FreeRows'
  BY <1>1, <1>4, <1>5 DEF FreeRows, Known
<1>11. Apart'
  BY <1>4, <1>5, <1>6 DEF Apart
<1>12. NetFollowsPayment'
  BY <1>1, <1>6 DEF NetFollowsPayment
<1>13. Faithful(p)'
  <2> SUFFICES ASSUME NEW o \in S
               PROVE  /\ Decided(step, o \in r.closed, r.old[o], r.new[o], who)
                      /\ r.old[o] = SeenOf(order[o]) /\ Fitting(step, order[o], r.new[o], who)
    BY <1>1, <1>4, <1>5 DEF Faithful
  <2>1. Decided(step, o \in r.closed, SeenOf(order[o]), new[o], who)
    BY <1>4 DEF Decided
  <2> QED BY <1>4, <2>1
<1>14. \A q \in Requests \ {p} : Faithful(q)'
  BY <1>1, <1>5, <1>6, OthersKeep DEF Alike
<1> QED BY <1>9, <1>10, <1>11, <1>12, <1>13, <1>14

\* The same for a request that works on one order.
LEMMA BeginOneKeeps ==
  ASSUME IInv, NEW p \in Requests, NEW step, NEW o \in Orders, NEW new \in Data,
         NEW who \in SUBSET Rights, BeginOne(p, step, o, new, who),
         step \in LastSteps \cup {"delete"},
         Decided(step, Closed(o), SeenOf(order[o]), new, who),
         Fitting(step, order[o], new, who)
  PROVE  IInv'
<1> DEFINE all == [x \in {o} |-> new]
<1>1. Begin(p, step, {o}, all, who, "DELIVERED")
  BY DEF BeginOne
<1>2. all[o] = new
  OBVIOUS
<1> HIDE DEF all
<1> QED BY <1>1, <1>2, BeginKeeps

\* updateOrder: whose rights are asked for are on record when the row needs them.
LEMMA UpdateOrderKeeps ==
  ASSUME IInv, NEW p \in Requests, NEW o \in Orders, NEW b \in Bodies, NEW c \in Costs,
         NEW caller \in Callers, UpdateOrder(p, o, b, c, caller)
  PROVE  IInv'
<1> DEFINE row == order[o]
           new == UpdateData(row, b, c)
           who == IF Guarded(o) THEN caller ELSE {}
<1>1. row \in Order /\ b \in Body /\ who \in SUBSET Rights
  BY StaffAssumption DEF IInv, Shape
<1>2. /\ MayPay(row, b, caller) /\ MayChangeClosed(o, row, b, caller)
      /\ MayChangeForwarded(row, b, caller)
      /\ BeginOne(p, "update", o, new, who)
  BY DEF UpdateOrder
<1>3. /\ new \in Data /\ new.status = NewStatus(row, b) /\ new.paid = PaidAmount(row, b)
  BY <1>1, UpdateDataFacts
<1>4. /\ SeenOf(row).paid = row.paid /\ SeenOf(row).settled = row.settled
  BY <1>1, SeenFacts
<1>5. Closed(o) \/ row.settled \/ row.forwarded => who = caller
  BY DEF Guarded
<1>6. Decided("update", Closed(o), SeenOf(row), new, who)
  <2>1. Closed(o) =>
          \/ new.status = None
          \/ "closed" \in who
          \/ "partial" \in who /\ new.status = "PARTIALLY_RETURNED"
    BY <1>2, <1>3, <1>4, <1>5 DEF MayChangeClosed, NewStatus
  <2>2. new.paid \notin {None, 0} =>
          SeenOf(row).paid = 0 \/ ~SeenOf(row).settled \/ "treasury" \in who
    BY <1>2, <1>3, <1>4, <1>5 DEF MayPay, PaidAmount, Derived, IsAmount
  <2> QED BY <2>1, <2>2 DEF Decided
<1>7. Fitting("update", row, new, who)
  BY <1>1, <1>2, <1>3, <1>5 DEF Fitting, MayChangeForwarded
<1> HIDE DEF new, who
<1> QED BY <1>1, <1>2, <1>3, <1>6, <1>7, BeginOneKeeps DEF LastSteps

LEMMA ClientKeeps ==
  ASSUME IInv, NEW p \in Requests, NEW o \in Orders, NEW c \in Costs, UpdateOrderForClient(p, o, c)
  PROVE  IInv'
<1> DEFINE new == [NoData EXCEPT !.cost = c, !.net = Net(order[o], None, c)]
<1>1. order[o] \in Order /\ c \in Int
  BY NoneFacts DEF IInv, Shape
<1>2. Net(order[o], None, c) \in Int
  BY <1>1 DEF Net, IsAmount, Order
<1>3. new \in Data /\ new.status = None /\ new.paid = None
  BY <1>1, <1>2, IdleFacts DEF Data, NoData
<1>4. BeginOne(p, "client", o, new, {})
  BY DEF UpdateOrderForClient
<1>5. Fitting("client", order[o], new, {})
  BY DEF Fitting
<1> HIDE DEF new
<1>6. Decided("client", Closed(o), SeenOf(order[o]), new, {})
  BY <1>3 DEF Decided
<1> QED BY <1>3, <1>4, <1>5, <1>6, BeginOneKeeps DEF LastSteps

LEMMA PartnerKeeps ==
  ASSUME IInv, NEW p \in Requests, NEW o \in Orders, NEW paid \in Amounts,
         UpdateOrderForPartner(p, o, paid)
  PROVE  IInv'
<1> DEFINE new == [NoData EXCEPT !.paid = paid]
<1>1. paid \in Int
  BY NoneFacts
<1>2. new \in Data /\ new.status = None /\ new.paid = paid
  BY <1>1, IdleFacts DEF Data, NoData
<1>3. BeginOne(p, "partner", o, new, {})
  BY DEF UpdateOrderForPartner
<1> HIDE DEF new
<1>4. /\ Decided("partner", Closed(o), SeenOf(order[o]), new, {})
      /\ Fitting("partner", order[o], new, {})
  BY <1>1, <1>2, NoneFacts DEF Decided, Fitting
<1> QED BY <1>2, <1>3, <1>4, BeginOneKeeps DEF LastSteps

LEMMA AutomaticUpdateKeeps ==
  ASSUME IInv, NEW p \in Requests, NEW o \in Orders, NEW from \in AutoFrom, NEW to \in AutoTo,
         AutomaticUpdate(p, o, from, to)
  PROVE  IInv'
<1> DEFINE pays == from # to /\ to \in Delivered /\ order[o].paid = 0
           paid == IF pays THEN Total ELSE None
           net == IF pays THEN order[o].paid - order[o].cost ELSE None
           new == [NoData EXCEPT !.status = to, !.sent = FALSE, !.paid = paid, !.net = net]
<1>1. order[o] \in Order /\ order[o].status = from /\ to \in Statuses
  BY StaffAssumption DEF IInv, Shape, AutomaticUpdate
<1>2. BeginOne(p, "auto", o, new, {})
  BY DEF AutomaticUpdate
<1>3. paid \in Int \cup {None} /\ net \in Int \cup {None}
  BY <1>1, NoneFacts DEF Order
<1>4. /\ paid = None => ~pays /\ net = None
      /\ paid # None => order[o].paid = 0
  BY NoneFacts
<1>5. ~pays => (to \in Delivered => to = order[o].status \/ order[o].paid # 0)
  BY <1>1
<1> HIDE DEF paid, net, pays
<1>6. new \in Data /\ new.status = to /\ new.paid = paid /\ new.net = net /\ new.cost = None
  BY <1>1, <1>3, IdleFacts DEF Data, NoData
<1> HIDE DEF new
<1>7. SeenOf(order[o]).paid = order[o].paid
  BY <1>1, SeenFacts
<1>8. Decided("auto", Closed(o), SeenOf(order[o]), new, {}) /\ Fitting("auto", order[o], new, {})
  BY <1>4, <1>5, <1>6, <1>7 DEF Decided, Fitting, LastSteps
<1> QED BY <1>2, <1>6, <1>8, BeginOneKeeps DEF LastSteps

LEMMA ForwardKeeps ==
  ASSUME IInv, NEW p \in Requests, NEW o \in Orders, ForwardOrderToCompany(p, o)
  PROVE  IInv'
<1> DEFINE new == [NoData EXCEPT !.forwarded = TRUE, !.sent = TRUE]
<1>1. /\ new \in Data
      /\ new.status = None /\ new.paid = None /\ new.cost = None /\ new.net = None
  BY IdleFacts DEF Data, NoData
<1>2. BeginOne(p, "forward", o, new, {})
  BY DEF ForwardOrderToCompany
<1> HIDE DEF new
<1>3. /\ Decided("forward", Closed(o), SeenOf(order[o]), new, {})
      /\ Fitting("forward", order[o], new, {})
  BY <1>1 DEF Decided, Fitting
<1> QED BY <1>1, <1>2, <1>3, BeginOneKeeps DEF LastSteps

LEMMA DeactivateOrderKeeps ==
  ASSUME IInv, NEW p \in Requests, NEW o \in Orders, NEW who \in Callers, DeactivateOrder(p, o, who)
  PROVE  IInv'
<1>1. NoData \in Data /\ NoData.status = None /\ NoData.paid = None
  BY IdleFacts DEF NoData
<1>2. order[o] \in Order /\ ~order[o].settled
  BY DEF IInv, Shape, DeactivateOrder, DeletesUnsettled
<1>3. ~SeenOf(order[o]).settled
  BY <1>2, SeenFacts
<1>4. /\ Decided("delete", Closed(o), SeenOf(order[o]), NoData, {})
      /\ Fitting("delete", order[o], NoData, {})
  BY <1>1, <1>3 DEF Decided, Fitting
<1> QED BY <1>1, <1>4, BeginOneKeeps DEF DeactivateOrder

LEMMA CreateReportKeeps ==
  ASSUME IInv, NEW p \in Requests, NEW S \in SUBSET Orders, NEW type \in {"DELIVERED", "RETURNED"},
         NEW costs \in [S -> Costs], CreateReport(p, S, type, costs)
  PROVE  IInv'
<1> DEFINE new == [o \in S |-> CostData(order[o], costs[o])]
<1>1. Begin(p, "costs", S, new, {}, type)
  BY DEF CreateReport
<1>2. \A o \in S : order[o] \in Order /\ costs[o] \in Costs /\ new[o] = CostData(order[o], costs[o])
  BY DEF IInv, Shape
<1> HIDE DEF new
<1>3. \A o \in S : new[o] \in Data /\ new[o].status = None /\ new[o].paid = None
  BY <1>2, CostDataFacts
<1>4. \A o \in S : Decided("costs", Closed(o), SeenOf(order[o]), new[o], {})
  BY <1>3 DEF Decided
<1>5. \A o \in S : Fitting("costs", order[o], new[o], {})
  BY <1>2 DEF Fitting
<1> QED BY <1>1, <1>3, <1>4, <1>5, BeginKeeps

-----------------------------------------------------------------------------
(* Requests write *)

\* The rows after the update by id.
LEMMA ApplyFacts ==
  ASSUME Shape, NEW p \in Requests, Apply(p)
  PROVE  /\ order' \in [Orders -> Order]
         /\ \A o \in Orders : order'[o].state = order[o].state /\ order'[o].settled = order[o].settled
         /\ \A o \in Orders \ req[p].on : order'[o] = order[o]
         /\ \A o \in req[p].on :
              /\ o \in Orders /\ order[o] \in Order /\ req[p].new[o] \in Data
              /\ order'[o] = Written(order[o], req[p].new[o])
<1>1. \A o \in Orders : order[o] \in Order /\ req[p].new[o] \in Data
  BY DEF Shape, Request
<1>2. req[p].on \subseteq Orders
  BY DEF Shape, Request
<1>3. \A o \in Orders :
        order'[o] = IF o \in req[p].on THEN Written(order[o], req[p].new[o]) ELSE order[o]
  BY DEF Apply
<1>4. \A o \in Orders : /\ order'[o] \in Order
                        /\ order'[o].state = order[o].state /\ order'[o].settled = order[o].settled
  BY <1>1, <1>3, WrittenFacts
<1>5. order' = [o \in Orders |-> order'[o]]
  BY DEF Apply
<1> QED BY <1>1, <1>2, <1>3, <1>4, <1>5

\* What a request writes, when it met no other and leaves nothing askew, is owed.
LEMMA WriteOwes ==
  ASSUME IInv, NEW p \in Requests, req[p].step \in LastSteps, NEW o \in req[p].on,
         o \in Orders \ overlapped, ~LeavesAskew(p, o),
         req[p].new[o].net # None \/ o \notin askew
  PROVE  Owed(Written(order[o], req[p].new[o]))
<1> DEFINE row == order[o]
           old == req[p].old[o]
           new == req[p].new[o]
           step == req[p].step
<1>1. row \in Order /\ new \in Data
  BY DEF IInv, Shape, Request
<1>2. old = SeenOf(row) /\ Fitting(step, row, new, req[p].who)
  BY DEF IInv, Faithful, LastSteps
<1>3. old.paid = row.paid /\ old.cost = row.cost
  BY <1>1, <1>2, SeenFacts
<1>4. /\ new.status # "RETURNED" =>
           ~(new.paid = 0 /\ row.paid # 0) /\ ~(new.cost = 0 /\ row.cost # 0)
      /\ new.status = "RETURNED" => new.paid # None \/ row.paid = 0
      /\ step \in {"partner", "auto"} => new.paid = None
  BY <1>3 DEF LeavesAskew
<1>5. o \notin askew => Owed(row)
  BY DEF IInv, NetFollowsPayment, Owed
<1>6. /\ Written(row, new).status = Given(new.status, row.status)
      /\ Written(row, new).paid = Given(new.paid, row.paid)
      /\ Written(row, new).cost = Given(new.cost, row.cost)
      /\ Written(row, new).net = Given(new.net, row.net)
  BY <1>1, WrittenFacts
<1>7. step \in LastSteps /\ (new.net # None \/ o \notin askew)
  OBVIOUS
<1> HIDE DEF row, old, new, step
<1>8. ASSUME step = "update" PROVE Owed(Written(row, new))
  <2>1. PICK b \in Body, c \in Costs : new = UpdateData(row, b, c)
    BY <1>2, <1>8 DEF Fitting
  <2> QED BY <1>1, <1>4, <2>1, UpdateOwes
<1>9. ASSUME step = "client" PROVE Owed(Written(row, new))
  <2>1. PICK c \in Costs : new = [NoData EXCEPT !.cost = c, !.net = Net(row, None, c)]
    BY <1>2, <1>9 DEF Fitting
  <2>2. c \in Int /\ row.paid \in Int /\ row.cost \in Int
    BY <1>1, NoneFacts DEF Order
  <2>3. Net(row, None, c) = row.paid - (IF c = 0 THEN row.cost ELSE c)
    BY <2>2, NoneFacts DEF Net, IsAmount
  <2> DEFINE net == Net(row, None, c)
  <2>4. net \in Int
    BY <2>2, <2>3
  <2> HIDE DEF net
  <2>5. new.status = None /\ new.paid = None /\ new.cost = c /\ new.net = net
    BY <2>1 DEF NoData, net
  <2>6. net = row.paid - c
    BY <1>4, <2>2, <2>3, <2>5, NoneFacts, NoneAssumption DEF net, Statuses
  <2> QED BY <1>6, <2>2, <2>4, <2>5, <2>6, NoneFacts DEF Owed, Given
<1>10. ASSUME step = "partner" PROVE Owed(Written(row, new))
  BY <1>2, <1>4, <1>10 DEF Fitting
<1>11. ASSUME step = "auto" PROVE Owed(Written(row, new))
  <2>1. /\ new.paid = None /\ new.cost = None /\ new.net = None
        /\ new.status \in Delivered => new.status = row.status \/ row.paid # 0
    BY <1>2, <1>4, <1>11 DEF Fitting
  <2>2. Owed(row)
    BY <1>5, <1>7, <2>1
  <2> QED BY <1>6, <2>1, <2>2 DEF Owed, Given
<1>12. ASSUME step = "forward" PROVE Owed(Written(row, new))
  <2>1. new.status = None /\ new.paid = None /\ new.cost = None /\ new.net = None
    BY <1>2, <1>12 DEF Fitting
  <2>2. Owed(row)
    BY <1>5, <1>7, <2>1
  <2> QED BY <1>6, <2>1, <2>2 DEF Owed, Given
<1>13. Owed(Written(row, new))
  BY <1>7, <1>8, <1>9, <1>10, <1>11, <1>12 DEF LastSteps
<1> QED BY <1>13 DEF row, new

LEMMA WriteKeeps ==
  ASSUME IInv, NEW p \in Requests, Write(p)
  PROVE  IInv'
<1>1. /\ Apply(p) /\ End(p) /\ req[p].step \in LastSteps /\ UNCHANGED <<rep, begun, overlapped>>
      /\ askew' = {o \in Orders : \/ o \in req[p].on /\ LeavesAskew(p, o)
                                  \/ o \in askew /\ (o \in req[p].on => req[p].new[o].net = None)}
  BY DEF Write
<1>2. NetFollowsPayment'
  <2> SUFFICES ASSUME NEW o \in Orders \ (overlapped \cup askew') PROVE Owed(order'[o])
    BY <1>1 DEF NetFollowsPayment, Owed
  <2>1. CASE o \in req[p].on
    <3>1. ~LeavesAskew(p, o) /\ (req[p].new[o].net # None \/ o \notin askew)
      BY <1>1, <2>1
    <3> QED BY <1>1, <2>1, <3>1, WriteOwes, ApplyFacts DEF IInv
  <2>2. CASE o \notin req[p].on
    <3>1. o \notin askew /\ order'[o] = order[o]
      BY <1>1, <2>2, ApplyFacts DEF IInv
    <3> QED BY <3>1 DEF IInv, NetFollowsPayment, Owed
  <2> QED BY <2>1, <2>2
<1>3. /\ order' \in [Orders -> Order]
      /\ \A o \in Orders : order'[o].state = order[o].state
      /\ \A o \in Orders \ req[p].on : order'[o] = order[o]
  BY <1>1, ApplyFacts DEF IInv
<1>4. \A o \in Orders : order'[o].state = "free" => order'[o] = FreeOrder
  BY <1>3 DEF IInv, FreeRows
<1>5. askew' \subseteq Orders /\ \A o \in Orders \ req[p].on : Alike(order[o], order'[o])
  BY <1>1, <1>3 DEF Alike
<1> QED BY <1>1, <1>2, <1>3, <1>4, <1>5, EndKeeps DEF IInv, Shape, FreeRows

LEMMA StopKeeps ==
  ASSUME IInv, NEW p \in Requests, Stop(p)
  PROVE  IInv'
<1>1. End(p) /\ UNCHANGED <<order, rep, begun, overlapped, askew>>
  BY DEF Stop
<1>2. NetFollowsPayment'
  BY <1>1 DEF IInv, NetFollowsPayment
<1>3. \A o \in Orders : Alike(order[o], order'[o])
  BY <1>1 DEF Alike
<1> QED BY <1>1, <1>2, <1>3, EndKeeps DEF IInv, Shape, FreeRows

\* Rows whose money and status stay owe what they owed.
LEMMA SameOwed ==
  ASSUME IInv, overlapped \subseteq overlapped', UNCHANGED askew,
         \A o \in Orders : /\ order'[o].status = order[o].status /\ order'[o].paid = order[o].paid
                           /\ order'[o].cost = order[o].cost /\ order'[o].net = order[o].net
  PROVE  NetFollowsPayment'
<1>1. ASSUME NEW o \in Orders \ (overlapped' \cup askew) PROVE Owed(order'[o])
  <2>1. Owed(order[o])
    BY DEF IInv, NetFollowsPayment, Owed
  <2> QED BY <2>1 DEF Owed
<1> QED BY <1>1 DEF NetFollowsPayment, Owed

LEMMA WriteDeletedKeeps ==
  ASSUME IInv, NEW p \in Requests, WriteDeleted(p)
  PROVE  IInv'
<1>1. /\ End(p) /\ UNCHANGED <<rep, begun, overlapped, askew>>
      /\ order' = [o \in Orders |-> IF o \in req[p].on THEN [order[o] EXCEPT !.state = "deleted"]
                                    ELSE order[o]]
  BY DEF WriteDeleted
<1>2. order \in [Orders -> Order]
  BY DEF IInv, Shape
<1>3. /\ order' \in [Orders -> Order]
      /\ \A o \in Orders : /\ Alike(order[o], order'[o])
                           /\ order'[o].state = "free" => order'[o] = order[o]
  BY <1>1, <1>2 DEF Alike, Order
<1>4. NetFollowsPayment'
  BY <1>1, <1>3, SameOwed DEF Alike
<1> QED BY <1>1, <1>3, <1>4, EndKeeps DEF IInv, Shape, FreeRows

\* The costs are in the rows, and the nets that are going to be summed with them.
LEMMA CostsKeep ==
  ASSUME IInv, NEW p \in Requests, UpdateOrdersCosts(p)
  PROVE  IInv'
<1> USE DEF IInv
<1> DEFINE r == [req[p] EXCEPT !.step = "create"]
<1>1. /\ Apply(p) /\ req[p].step = "costs" /\ req' = [req EXCEPT ![p] = r]
      /\ askew' = askew \ req[p].on /\ UNCHANGED <<rep, begun, overlapped>>
  BY DEF UpdateOrdersCosts
<1>2. req \in [Requests -> Request] /\ req[p] \in Request
  BY DEF Shape
<1>3. /\ r \in Request /\ r.step = "create" /\ r.on = req[p].on /\ r.who = req[p].who
      /\ r.old = req[p].old /\ r.new = req[p].new /\ r.closed = req[p].closed
  BY <1>2 DEF Request
<1> HIDE DEF r
<1>4. req' \in [Requests -> Request] /\ req'[p] = r /\ \A q \in Requests \ {p} : req'[q] = req[q]
  BY <1>1, <1>2, <1>3
<1>5. /\ order' \in [Orders -> Order]
      /\ \A o \in Orders : order'[o].state = order[o].state
      /\ \A o \in Orders \ req[p].on : order'[o] = order[o]
      /\ \A o \in req[p].on : /\ o \in Orders /\ order[o] \in Order
                              /\ order'[o] = Written(order[o], req[p].new[o])
  BY <1>1, ApplyFacts
<1>6. ASSUME NEW o \in req[p].on \ overlapped
      PROVE  /\ order'[o].net = req[p].new[o].net
             /\ Owed(order'[o])
  <2>1. PICK c \in Costs : req[p].new[o] = CostData(order[o], c)
    BY <1>1, <1>6 DEF Faithful, Fitting
  <2>2. /\ order[o] \in Order /\ CostData(order[o], c) \in Data
        /\ CostData(order[o], c).status = None /\ CostData(order[o], c).paid = None
        /\ CostData(order[o], c).cost = c /\ CostData(order[o], c).net = order[o].paid - c
    BY <1>5, <1>6, CostDataFacts
  <2>3. c \in Int /\ order[o].paid \in Int /\ order[o].paid - c \in Int
    BY <2>2, NoneFacts DEF Order
  <2> DEFINE d == CostData(order[o], c)
  <2> HIDE DEF d
  <2>4. /\ order'[o] = Written(order[o], d)
        /\ Written(order[o], d).paid = Given(d.paid, order[o].paid)
        /\ Written(order[o], d).cost = Given(d.cost, order[o].cost)
        /\ Written(order[o], d).net = Given(d.net, order[o].net)
    BY <1>5, <1>6, <2>1, <2>2, WrittenFacts DEF d
  <2>5. d.paid = None /\ d.cost = c /\ d.net = order[o].paid - c
    BY <2>2 DEF d
  <2>6. /\ order'[o].paid = order[o].paid /\ order'[o].cost = c
        /\ order'[o].net = order[o].paid - c
    BY <2>3, <2>4, <2>5, NoneFacts DEF Given
  <2> QED BY <2>1, <2>5, <2>6 DEF Owed, d
<1>7. Shape'
  BY <1>1, <1>3, <1>4, <1>5 DEF Shape
<1>8. FreeRows' /\ Apart'
  BY <1>1, <1>3, <1>4, <1>5 DEF FreeRows, Apart
<1>9. NetFollowsPayment'
  <2> SUFFICES ASSUME NEW o \in Orders \ (overlapped \cup askew') PROVE Owed(order'[o])
    BY <1>1 DEF NetFollowsPayment, Owed
  <2>1. CASE o \in req[p].on
    BY <1>6, <2>1
  <2>2. CASE o \notin req[p].on
    BY <1>1, <1>5, <2>2 DEF NetFollowsPayment, Owed
  <2> QED BY <2>1, <2>2
<1>10. Faithful(p)'
  <2> SUFFICES ASSUME NEW o \in req[p].on
               PROVE  /\ Decided("create", o \in req[p].closed, req[p].old[o], req[p].new[o], req[p].who)
                      /\ o \notin overlapped =>
                           Fitting("create", order'[o], req[p].new[o], req[p].who)
    BY <1>1, <1>3, <1>4 DEF Faithful
  <2>1. Decided("costs", o \in req[p].closed, req[p].old[o], req[p].new[o], req[p].who)
    BY <1>1 DEF Faithful
  <2>2. Decided("create", o \in req[p].closed, req[p].old[o], req[p].new[o], req[p].who)
    BY <2>1 DEF Decided, LastSteps
  <2> QED BY <1>6, <2>2 DEF Fitting
<1>11. ASSUME NEW q \in Requests \ {p} PROVE Faithful(q)'
  <2>1. \A o \in req[q].on \ overlapped' : Alike(order[o], order'[o])
    BY <1>1, <1>2, <1>5 DEF Apart, Alike, Shape, Request
  <2> QED BY <1>1, <1>4, <2>1, OthersKeep
<1> QED BY <1>7, <1>8, <1>9, <1>10, <1>11

-----------------------------------------------------------------------------
(* Writers of one statement *)

LEMMA CreateOrderKeeps ==
  ASSUME IInv, NEW o \in Orders, NEW c \in Costs, CreateOrder(o, c)
  PROVE  IInv'
<1> USE DEF IInv
<1> DEFINE new == [FreeOrder EXCEPT !.state = "live", !.cost = c]
<1>1. /\ order[o].state = "free" /\ order' = [order EXCEPT ![o] = new]
      /\ UNCHANGED <<rep, req, begun, overlapped, askew>>
  BY DEF CreateOrder
<1>2. c \in Int /\ order \in [Orders -> Order]
  BY NoneFacts DEF Shape
<1>3. new \in Order /\ new.state = "live" /\ new.paid = 0 /\ new.status = "REGISTERED"
  BY <1>2, FreeOrderFacts DEF Order, FreeOrder
<1> HIDE DEF new
<1>4. order' \in [Orders -> Order] /\ order'[o] = new /\ \A x \in Orders \ {o} : order'[x] = order[x]
  BY <1>1, <1>2, <1>3
<1>5. \A q \in Requests : \A x \in req[q].on : x \in Orders \ {o}
  BY <1>1 DEF FreeRows, Shape, Request
<1>6. \A q \in Requests : \A x \in req[q].on \ overlapped' : Alike(order[x], order'[x])
  BY <1>4, <1>5 DEF Alike
<1>7. NetFollowsPayment'
  BY <1>1, <1>3, <1>4 DEF NetFollowsPayment, Delivered
<1> QED BY <1>1, <1>3, <1>4, <1>6, <1>7, StatementKeeps DEF Shape, FreeRows

LEMMA ReactivateOrderKeeps ==
  ASSUME IInv, NEW o \in Orders, ReactivateOrder(o)
  PROVE  IInv'
<1> USE DEF IInv
<1>1. /\ order' = [order EXCEPT ![o].state = "live"] /\ Known(o)
      /\ UNCHANGED <<rep, req, begun, overlapped, askew>>
  BY DEF ReactivateOrder
<1>2. /\ order' \in [Orders -> Order]
      /\ \A x \in Orders : /\ Alike(order[x], order'[x])
                           /\ order'[x].state = "free" => order'[x] = order[x]
  BY <1>1 DEF Shape, Alike, Order
<1>3. NetFollowsPayment'
  BY <1>1, <1>2, SameOwed DEF Alike
<1>4. \A q \in Requests : req[q].on \subseteq Orders
  BY DEF Shape, Request
<1> QED BY <1>1, <1>2, <1>3, <1>4, StatementKeeps DEF Shape, FreeRows

LEMMA MeetsFacts ==
  ASSUME IInv, NEW S \in SUBSET Orders, Meets(S)
  PROVE  /\ overlapped \subseteq overlapped' /\ overlapped' \subseteq Orders
         /\ \A q \in Requests : \A x \in req[q].on \ overlapped' : x \in Orders \ S
BY DEF Meets, IInv, Shape, Request

LEMMA ResendKeeps ==
  ASSUME IInv, NEW o \in Orders, ResendOrderByClient(o)
  PROVE  IInv'
<1> USE DEF IInv
<1> DEFINE new == [order[o] EXCEPT !.status = "RESEND"]
<1>1. /\ order' = [order EXCEPT ![o] = new] /\ Known(o) /\ Meets({o})
      /\ UNCHANGED <<rep, req, begun, askew>>
  BY DEF ResendOrderByClient
<1>2. order \in [Orders -> Order] /\ order[o] \in Order
  BY DEF Shape
<1>3. /\ new \in Order /\ new.state = order[o].state /\ new.status = "RESEND"
      /\ new.paid = order[o].paid /\ new.cost = order[o].cost /\ new.net = order[o].net
  BY <1>2 DEF Order, Statuses
<1> HIDE DEF new
<1>4. order' \in [Orders -> Order] /\ order'[o] = new /\ \A x \in Orders \ {o} : order'[x] = order[x]
  BY <1>1, <1>2, <1>3
<1>5. \A q \in Requests : \A x \in req[q].on \ overlapped' : Alike(order[x], order'[x])
  BY <1>1, <1>4, MeetsFacts DEF Alike
<1>6. NetFollowsPayment'
  BY <1>1, <1>3, <1>4, MeetsFacts DEF NetFollowsPayment, Delivered
<1>7. \A x \in Orders : order'[x].state = "free" => order'[x] = FreeOrder /\ order[x].state = "free"
  BY <1>1, <1>3, <1>4 DEF FreeRows, Known
<1> QED BY <1>1, <1>4, <1>5, <1>6, <1>7, MeetsFacts, StatementKeeps DEF Shape

LEMMA BulkForwardKeeps ==
  ASSUME IInv, NEW S \in SUBSET Orders, BulkForwardOrdersToCompany(S)
  PROVE  IInv'
<1> USE DEF IInv
<1>1. /\ \A x \in S : Known(x)
      /\ Meets(S) /\ UNCHANGED <<rep, req, begun, askew>>
      /\ order' = [x \in Orders |-> IF x \in S
                                      THEN [order[x] EXCEPT !.forwarded = TRUE, !.sent = TRUE]
                                      ELSE order[x]]
  BY DEF BulkForwardOrdersToCompany
<1>2. order \in [Orders -> Order]
  BY DEF Shape
<1>3. /\ order' \in [Orders -> Order]
      /\ \A x \in Orders : /\ order'[x].state = order[x].state /\ order'[x].status = order[x].status
                           /\ order'[x].paid = order[x].paid /\ order'[x].cost = order[x].cost
                           /\ order'[x].net = order[x].net
      /\ \A x \in Orders \ S : order'[x] = order[x]
  BY <1>1, <1>2 DEF Order
<1>4. \A q \in Requests : \A x \in req[q].on \ overlapped' : Alike(order[x], order'[x])
  BY <1>1, <1>3, MeetsFacts DEF Alike
<1>5. NetFollowsPayment'
  BY <1>1, <1>3, MeetsFacts, SameOwed
<1>6. \A x \in Orders : order'[x].state = "free" => order'[x] = FreeOrder /\ order[x].state = "free"
  BY <1>1, <1>3 DEF FreeRows, Known
<1> QED BY <1>1, <1>3, <1>4, <1>5, <1>6, MeetsFacts, StatementKeeps DEF Shape

-----------------------------------------------------------------------------
(* Client reports *)

\* Recomputing the flag writes nothing else, and not into other rows.
LEMMA SettledFacts ==
  ASSUME IInv, NEW reports, NEW S \in SUBSET Orders, \A o \in S : Known(o),
         order' = Settled(reports, S)
  PROVE  /\ order' \in [Orders -> Order]
         /\ \A o \in Orders : /\ order'[o].status = order[o].status /\ order'[o].paid = order[o].paid
                              /\ order'[o].cost = order[o].cost /\ order'[o].net = order[o].net
                              /\ order'[o].state = order[o].state
         /\ \A o \in Orders \ S : order'[o] = order[o]
         /\ \A o \in Orders : order'[o].state = "free" =>
              order'[o] = FreeOrder /\ order[o].state = "free"
<1> DEFINE flag(o) == \E r \in Reports : /\ reports[r].state = "live"
                                         /\ reports[r].secondaryType = "DELIVERED"
                                         /\ o \in reports[r].orders
<1>1. order \in [Orders -> Order] /\ \A o \in Orders : flag(o) \in BOOLEAN
  BY DEF IInv, Shape
<1>2. order' = [o \in Orders |-> IF o \in S THEN [order[o] EXCEPT !.settled = flag(o)] ELSE order[o]]
  BY DEF Settled
<1> HIDE DEF flag
<1>3. \A o \in Orders : [order[o] EXCEPT !.settled = flag(o)] \in Order
  BY <1>1 DEF Order
<1>4. order' \in [Orders -> Order]
  BY <1>1, <1>2, <1>3
<1>5. \A o \in Orders : /\ order'[o].status = order[o].status /\ order'[o].paid = order[o].paid
                        /\ order'[o].cost = order[o].cost /\ order'[o].net = order[o].net
                        /\ order'[o].state = order[o].state
  BY <1>1, <1>2 DEF Order
<1>6. \A o \in Orders \ S : order'[o] = order[o]
  BY <1>2
<1> QED BY <1>4, <1>5, <1>6 DEF IInv, FreeRows, Known

LEMMA InsertReportKeeps ==
  ASSUME IInv, NEW p \in Requests, NEW r \in Reports, InsertReport(p, r)
  PROVE  IInv'
<1> USE DEF IInv
<1> DEFINE sum == SumOfNets(p)
           new == [state |-> "live", secondaryType |-> req[p].secondaryType,
                   orders |-> req[p].on, clientNet |-> sum]
<1>1. /\ rep' = [rep EXCEPT ![r] = new] /\ order' = Settled(rep', req[p].on) /\ End(p)
      /\ UNCHANGED <<begun, overlapped, askew>>
  BY DEF InsertReport
<1>2. req[p] \in Request /\ req[p].on \in SUBSET Orders
  BY DEF Shape, Request
<1>3. PICK A : rep \in [Reports -> ReportOf(A)]
  BY DEF Shape
<1> HIDE DEF sum
<1>4. new \in ReportOf(A \cup {sum}) /\ new.orders = req[p].on
  BY <1>2 DEF Request, ReportOf
<1> HIDE DEF new
<1>5. \A s \in Reports : rep[s] \in ReportOf(A \cup {sum})
  BY <1>3 DEF ReportOf
<1>6. /\ rep' \in [Reports -> ReportOf(A \cup {sum})]
      /\ rep'[r].orders = req[p].on /\ \A s \in Reports \ {r} : rep'[s] = rep[s]
  BY <1>1, <1>3, <1>4, <1>5
<1>7. \A o \in req[p].on : Known(o)
  BY <1>2 DEF FreeRows, Known
<1>8. /\ order' \in [Orders -> Order]
      /\ \A o \in Orders : /\ order'[o].status = order[o].status /\ order'[o].paid = order[o].paid
                           /\ order'[o].cost = order[o].cost /\ order'[o].net = order[o].net
      /\ \A o \in Orders \ req[p].on : order'[o] = order[o]
      /\ \A o \in Orders : order'[o].state = "free" =>
           order'[o] = FreeOrder /\ order[o].state = "free"
  BY <1>1, <1>2, <1>7, SettledFacts
<1>9. \A o \in Orders, s \in Reports : order[o].state = "free" => o \notin rep'[s].orders
  BY <1>6, <1>7 DEF FreeRows, Known
<1>10. NetFollowsPayment'
  BY <1>1, <1>8, SameOwed
<1>11. \A o \in Orders \ req[p].on : Alike(order[o], order'[o])
  BY <1>8 DEF Alike
<1> QED BY <1>1, <1>6, <1>8, <1>9, <1>10, <1>11, EndKeeps DEF Shape

LEMMA SetReportKeeps ==
  ASSUME IInv, NEW r \in Reports, NEW from, NEW to \in {"live", "deleted"}, SetReport(r, from, to)
  PROVE  IInv'
<1> USE DEF IInv
<1>1. /\ rep' = [rep EXCEPT ![r].state = to] /\ order' = Settled(rep', rep[r].orders)
      /\ Meets(rep[r].orders) /\ UNCHANGED <<req, begun, askew>>
  BY DEF SetReport
<1>2. PICK A : rep \in [Reports -> ReportOf(A)]
  BY DEF Shape
<1>3. /\ rep' \in [Reports -> ReportOf(A)]
      /\ \A s \in Reports : rep'[s].orders = rep[s].orders
      /\ rep[r].orders \in SUBSET Orders
  BY <1>1, <1>2 DEF ReportOf
<1>4. \A o \in rep[r].orders : Known(o)
  BY <1>3 DEF FreeRows, Known
<1>5. /\ order' \in [Orders -> Order]
      /\ \A o \in Orders : /\ order'[o].status = order[o].status /\ order'[o].paid = order[o].paid
                           /\ order'[o].cost = order[o].cost /\ order'[o].net = order[o].net
      /\ \A o \in Orders \ rep[r].orders : order'[o] = order[o]
      /\ \A o \in Orders : order'[o].state = "free" =>
           order'[o] = FreeOrder /\ order[o].state = "free"
  BY <1>1, <1>3, <1>4, SettledFacts
<1>6. /\ overlapped \subseteq overlapped' /\ overlapped' \subseteq Orders
      /\ \A q \in Requests : \A x \in req[q].on \ overlapped' : x \in Orders \ rep[r].orders
  BY <1>1, <1>3, MeetsFacts
<1>7. \A q \in Requests : \A x \in req[q].on \ overlapped' : Alike(order[x], order'[x])
  BY <1>5, <1>6 DEF Alike
<1>8. NetFollowsPayment'
  BY <1>1, <1>5, <1>6, SameOwed
<1> QED BY <1>1, <1>3, <1>5, <1>6, <1>7, <1>8, StatementKeeps

-----------------------------------------------------------------------------
(* The inductive invariant *)

LEMMA InitIInv == Init => IInv
<1> SUFFICES ASSUME Init PROVE IInv
  OBVIOUS
<1>1. /\ \A o \in Orders : order[o] = FreeOrder
      /\ \A r \in Reports : rep[r] = FreeReport
      /\ \A p \in Requests : req[p] = Idle
      /\ begun = 0 /\ overlapped = {} /\ askew = {}
  BY DEF Init
<1>2. rep \in [Reports -> ReportOf({0})] /\ FreeReport.orders = {}
  BY DEF Init, FreeReport, ReportOf
<1>3. order \in [Orders -> Order] /\ req \in [Requests -> Request]
  BY FreeOrderFacts, IdleFacts DEF Init
<1>4. Shape
  BY <1>1, <1>2, <1>3, MoneyAssumption DEF Shape
<1>5. FreeRows /\ Apart
  BY <1>1, <1>2, IdleFacts DEF FreeRows, Apart
<1>6. \A p \in Requests : Faithful(p)
  BY <1>1, IdleFacts DEF Faithful
<1>7. NetFollowsPayment
  BY <1>1 DEF NetFollowsPayment, FreeOrder, Delivered
<1> QED BY <1>4, <1>5, <1>6, <1>7 DEF IInv

LEMMA NextIInv == IInv /\ [Next]_vars => IInv'
<1> SUFFICES ASSUME IInv, [Next]_vars PROVE IInv'
  OBVIOUS
<1>1. ASSUME NEW p \in Requests, NEW o \in Orders, OneOrder(p, o) PROVE IInv'
  BY <1>1, UpdateOrderKeeps, ClientKeeps, PartnerKeeps, AutomaticUpdateKeeps, ForwardKeeps,
     DeactivateOrderKeeps DEF OneOrder
<1>2. ASSUME NEW p \in Requests, NEW S \in SUBSET Orders, NEW type \in {"DELIVERED", "RETURNED"},
             NEW costs \in [S -> Costs], CreateReport(p, S, type, costs)
      PROVE  IInv'
  BY <1>2, CreateReportKeeps
<1>3. ASSUME NEW p \in Requests, NEW r \in Reports, InsertReport(p, r) PROVE IInv'
  BY <1>3, InsertReportKeeps
<1>4. ASSUME NEW p \in Requests, Write(p) \/ WriteDeleted(p) \/ UpdateOrdersCosts(p) \/ Stop(p)
      PROVE  IInv'
  BY <1>4, WriteKeeps, WriteDeletedKeeps, CostsKeep, StopKeeps
<1>5. ASSUME NEW o \in Orders,
             (\E c \in Costs : CreateOrder(o, c)) \/ ReactivateOrder(o) \/ ResendOrderByClient(o)
      PROVE  IInv'
  BY <1>5, CreateOrderKeeps, ReactivateOrderKeeps, ResendKeeps
<1>6. ASSUME NEW S \in SUBSET Orders, BulkForwardOrdersToCompany(S) PROVE IInv'
  BY <1>6, BulkForwardKeeps
<1>7. ASSUME NEW r \in Reports, SetReport(r, "live", "deleted") \/ SetReport(r, "deleted", "live")
      PROVE  IInv'
  BY <1>7, SetReportKeeps
<1>8. CASE UNCHANGED vars
  BY <1>8 DEF vars, IInv, Shape, FreeRows, Apart, Faithful, NetFollowsPayment
<1> QED BY <1>1, <1>2, <1>3, <1>4, <1>5, <1>6, <1>7, <1>8 DEF Next

\* IInv holds in every reachable state.
THEOREM Inductive == Spec => []IInv
BY InitIInv, NextIInv, PTL DEF Spec

-----------------------------------------------------------------------------
(* The properties *)

\* However edits, reports, forwarding and the job interleave, an order that two
\* requests never held at once has the net of what is paid and what it costs, but
\* for the exceptions on record: updateOrder, the update of a client, updateOrdersCosts
\* and the automatic updates agree on it.
THEOREM NetsFollowPayments == Spec => []NetFollowsPayment
<1>1. IInv => NetFollowsPayment
  BY DEF IInv
<1> QED BY <1>1, Inductive, PTL

\* The clientNet of a report on the orders S, as they are in the table "of".
NetSum(of, S) == MapThenSumSet(LAMBDA o : of[o].net, S)

\* Sums over the same orders are equal when every net is.
LEMMA SameSum ==
  ASSUME NEW S, NEW old, NEW now, \A o \in S : old[o].net = now[o].net
  PROVE  NetSum(old, S) = NetSum(now, S)
<1> DEFINE Sum(of) == [s \in SUBSET S |-> IF s = {} THEN 0
                         ELSE old[CHOOSE x \in s : TRUE].net + of[s \ {CHOOSE x \in s : TRUE}]]
           SumNow(of) == [s \in SUBSET S |-> IF s = {} THEN 0
                            ELSE now[CHOOSE x \in s : TRUE].net + of[s \ {CHOOSE x \in s : TRUE}]]
<1>1. \A of : Sum(of) = SumNow(of)
  <2> SUFFICES ASSUME NEW s \in SUBSET S, s # {}
               PROVE  old[CHOOSE x \in s : TRUE].net = now[CHOOSE x \in s : TRUE].net
    OBVIOUS
  <2>1. (CHOOSE x \in s : TRUE) \in s
    OBVIOUS
  <2> QED BY <2>1
<1> HIDE DEF Sum, SumNow
<1>2. (CHOOSE of : of = Sum(of)) = (CHOOSE of : of = SumNow(of))
  BY <1>1
<1>3. NetSum(old, S) = (CHOOSE of : of = Sum(of))[S]
  BY DEF NetSum, MapThenSumSet, MapThenFoldSet, Sum
<1>4. NetSum(now, S) = (CHOOSE of : of = SumNow(of))[S]
  BY DEF NetSum, MapThenSumSet, MapThenFoldSet, SumNow
<1> QED BY <1>2, <1>3, <1>4

\* A request that begins writes into no table.
LEMMA BeginsOnly ==
  ASSUME NEW p, NEW o, OneOrder(p, o)
  PROVE  order' = order /\ rep' = rep
<1>1. ASSUME NEW step, NEW new, NEW who, BeginOne(p, step, o, new, who)
      PROVE  order' = order /\ rep' = rep
  BY <1>1 DEF BeginOne, Begin
<1>2. PICK step, new, who : BeginOne(p, step, o, new, who)
  <2>1. ASSUME NEW b, NEW c, NEW who, UpdateOrder(p, o, b, c, who)
        PROVE  \E step, new, by : BeginOne(p, step, o, new, by)
    BY <2>1 DEF UpdateOrder
  <2>2. ASSUME NEW c, UpdateOrderForClient(p, o, c) \/ UpdateOrderForPartner(p, o, c)
        PROVE  \E step, new, by : BeginOne(p, step, o, new, by)
    BY <2>2 DEF UpdateOrderForClient, UpdateOrderForPartner
  <2>3. ASSUME NEW from, NEW to, AutomaticUpdate(p, o, from, to)
        PROVE  \E step, new, by : BeginOne(p, step, o, new, by)
    BY <2>3 DEF AutomaticUpdate
  <2>4. ASSUME NEW who, ForwardOrderToCompany(p, o) \/ DeactivateOrder(p, o, who)
        PROVE  \E step, new, by : BeginOne(p, step, o, new, by)
    BY <2>4 DEF ForwardOrderToCompany, DeactivateOrder
  <2> QED BY <2>1, <2>2, <2>3, <2>4 DEF OneOrder
<1> QED BY <1>1, <1>2

\* createReport sums the nets it wrote into the orders one statement before: they are
\* the nets the orders have when they are locked, if nobody else worked on them.
THEOREM ReportsSettleAtTheirValue == Spec => SettledAtItsValue
<1> DEFINE Settles ==
      \A r \in Reports :
        rep[r].state = "free" /\ rep'[r].state = "live" /\ rep'[r].orders \cap overlapped = {} =>
          rep'[r].clientNet = MapThenSumSet(LAMBDA o : order[o].net, rep'[r].orders)
<1>1. IInv /\ [Next]_vars => [Settles]_vars
  <2> SUFFICES ASSUME IInv, Next, NEW r \in Reports, rep[r].state = "free",
                      rep'[r].state = "live", rep'[r].orders \cap overlapped = {}
               PROVE  rep'[r].clientNet = NetSum(order, rep'[r].orders)
    BY DEF NetSum
  <2>1. PICK A : rep \in [Reports -> ReportOf(A)]
    BY DEF IInv, Shape
  <2>2. PICK p \in Requests, s \in Reports : InsertReport(p, s)
    <3>1. rep' # rep
      OBVIOUS
    <3>2. ~\E s \in Reports : SetReport(s, "live", "deleted") \/ SetReport(s, "deleted", "live")
      BY <2>1 DEF SetReport
    <3>3. ~\E p \in Requests, o \in Orders : OneOrder(p, o)
      BY <3>1, BeginsOnly
    <3> QED BY <3>1, <3>2, <3>3 DEF Next, CreateReport, Begin, Write, WriteDeleted,
              UpdateOrdersCosts, Stop, CreateOrder, ReactivateOrder, ResendOrderByClient,
              BulkForwardOrdersToCompany
  <2>3. s = r
    BY <2>1, <2>2 DEF InsertReport
  <2>4. /\ rep'[r].orders = req[p].on /\ req[p].step = "create"
        /\ rep'[r].clientNet = NetSum(req[p].new, req[p].on)
    BY <2>1, <2>2, <2>3 DEF InsertReport, SumOfNets, NetSum
  <2>5. \A o \in req[p].on : req[p].new[o].net = order[o].net
    BY <2>4 DEF IInv, Faithful, Fitting
  <2> QED BY <2>4, <2>5, SameSum
<1>2. [][Settles]_vars => SettledAtItsValue
  BY PTL DEF SettledAtItsValue
<1> QED BY <1>1, <1>2, Inductive, PTL DEF Spec

\* What the properties of statuses, payments and deletions are about stays.
Kept(o) ==
  /\ order'[o].status = order[o].status /\ order'[o].paid = order[o].paid
  /\ order[o].state = "live" => order'[o].state # "deleted"

\* Who changes the status or the payment of an order, or deletes it.
LEMMA WhoWrites ==
  ASSUME IInv, Next, NEW o \in Orders, order[o] # FreeOrder
  PROVE  \/ Kept(o)
         \/ \E p \in Requests : Write(p) /\ o \in req[p].on
         \/ order'[o].status = "RESEND" /\ req' = req /\ order'[o].paid = order[o].paid
              /\ order'[o].state = order[o].state
         \/ \E p \in Requests :
              /\ WriteDeleted(p) /\ o \in req[p].on
              /\ order'[o].status = order[o].status /\ order'[o].paid = order[o].paid
<1> SUFFICES ASSUME \A p \in Requests : ~(Write(p) /\ o \in req[p].on)
             PROVE  \/ Kept(o)
                    \/ order'[o].status = "RESEND" /\ req' = req /\ order'[o].paid = order[o].paid
                         /\ order'[o].state = order[o].state
                    \/ \E p \in Requests :
                         /\ WriteDeleted(p) /\ o \in req[p].on
                         /\ order'[o].status = order[o].status /\ order'[o].paid = order[o].paid
  OBVIOUS
<1>1. order \in [Orders -> Order] /\ order[o].state # "free"
  BY DEF IInv, Shape, FreeRows
<1>2. order'[o] = order[o] => Kept(o)
  BY <1>1 DEF Kept
<1>3. ASSUME NEW p \in Requests, (\E x \in Orders : OneOrder(p, x)) \/ Stop(p) PROVE order' = order
  BY <1>3, BeginsOnly DEF Stop
<1>4. ASSUME NEW p \in Requests, NEW S, NEW type, NEW costs, CreateReport(p, S, type, costs)
      PROVE  order' = order
  BY <1>4 DEF CreateReport, Begin
<1>5. ASSUME NEW reports, NEW S, order' = Settled(reports, S) PROVE Kept(o)
  BY <1>1, <1>5 DEF Settled, Kept, Order
<1>6. ASSUME NEW p \in Requests, Write(p) PROVE Kept(o)
  BY <1>2, <1>6, ApplyFacts DEF Write, Kept, IInv
<1>7. ASSUME NEW p \in Requests, WriteDeleted(p)
      PROVE  \/ Kept(o)
             \/ /\ o \in req[p].on
                /\ order'[o].status = order[o].status /\ order'[o].paid = order[o].paid
  BY <1>1, <1>7 DEF WriteDeleted, Kept, Order
<1>8. ASSUME NEW p \in Requests, UpdateOrdersCosts(p) PROVE Kept(o)
  <2>1. /\ Apply(p) /\ req[p].step = "costs"
        /\ order'[o].state = order[o].state
        /\ o \notin req[p].on => order'[o] = order[o]
    BY <1>8, ApplyFacts DEF UpdateOrdersCosts, IInv
  <2>2. CASE o \in req[p].on
    <3>1. /\ req[p].new[o] \in Data /\ order[o] \in Order /\ order'[o] = Written(order[o], req[p].new[o])
      BY <2>1, <2>2, ApplyFacts DEF IInv
    <3>2. req[p].new[o].status = None
      BY <2>1, <2>2 DEF IInv, Faithful, Decided
    <3>3. req[p].new[o].paid = None
      BY <2>1, <2>2 DEF IInv, Faithful, Decided
    <3> QED BY <1>1, <2>1, <3>1, <3>2, <3>3, WrittenFacts DEF Given, Kept
  <2> QED BY <1>1, <2>1, <2>2 DEF Kept
<1>9. ASSUME NEW x \in Orders, (\E c \in Costs : CreateOrder(x, c)) \/ ReactivateOrder(x)
      PROVE  Kept(o)
  <2>1. CASE \E c \in Costs : CreateOrder(x, c)
    BY <1>1, <1>2, <2>1 DEF CreateOrder
  <2>2. CASE ReactivateOrder(x)
    BY <1>1, <2>2 DEF ReactivateOrder, Kept, Order
  <2> QED BY <1>9, <2>1, <2>2
<1>10. ASSUME NEW x \in Orders, ResendOrderByClient(x)
       PROVE  \/ Kept(o)
              \/ order'[o].status = "RESEND" /\ req' = req /\ order'[o].paid = order[o].paid
                   /\ order'[o].state = order[o].state
  BY <1>1, <1>10 DEF ResendOrderByClient, Kept, Order
<1>11. ASSUME NEW S, BulkForwardOrdersToCompany(S) PROVE Kept(o)
  BY <1>1, <1>11 DEF BulkForwardOrdersToCompany, Kept, Order
<1>12. ASSUME NEW p \in Requests, NEW r \in Reports, InsertReport(p, r) PROVE Kept(o)
  BY <1>5, <1>12 DEF InsertReport
<1>13. ASSUME NEW r \in Reports, NEW from, NEW to, SetReport(r, from, to) PROVE Kept(o)
  BY <1>5, <1>13 DEF SetReport
<1> QED BY <1>2, <1>3, <1>4, <1>6, <1>7, <1>8, <1>9, <1>10, <1>11, <1>12, <1>13 DEF Next

\* The write of request p into o, as the request decided it.
LEMMA WriteFacts ==
  ASSUME IInv, NEW p \in Requests, Write(p), NEW o \in req[p].on
  PROVE  /\ Wrote(p, o) /\ req[p].step \in LastSteps
         /\ \A q \in Requests \ {p} : ~Wrote(q, o)
         /\ order'[o].state = order[o].state
         /\ order'[o].status = Given(req[p].new[o].status, order[o].status)
         /\ order'[o].paid = Given(req[p].new[o].paid, order[o].paid)
         /\ Decided(req[p].step, o \in req[p].closed, req[p].old[o], req[p].new[o], req[p].who)
         /\ o \notin overlapped => Fitting(req[p].step, order[o], req[p].new[o], req[p].who)
<1>1. Apply(p) /\ End(p) /\ req[p].step \in LastSteps
  BY DEF Write
<1>2. req \in [Requests -> Request]
  BY DEF IInv, Shape
<1>3. /\ req'[p] = Idle /\ \A q \in Requests \ {p} : req'[q] = req[q]
      /\ req[p].step # "idle"
  BY <1>1, <1>2 DEF End, LastSteps
<1>4. Wrote(p, o) /\ \A q \in Requests \ {p} : ~Wrote(q, o)
  BY <1>3, IdleFacts DEF Wrote
<1>5. /\ order[o] \in Order /\ req[p].new[o] \in Data
      /\ order'[o] = Written(order[o], req[p].new[o])
  BY <1>1, ApplyFacts DEF IInv
<1>6. Faithful(p)
  BY DEF IInv
<1> QED BY <1>1, <1>4, <1>5, <1>6, WrittenFacts DEF Faithful

\* MayChangeClosed and MayChangeForwarded, asked when a request reads the order, are
\* enough when it writes: nothing makes a closed or forwarded order change in the
\* hands of somebody who may not, but a request that met another.
THEOREM GuardsHold == Spec => GuardedOrderStays
<1> DEFINE Guards ==
      \A o \in Orders :
        /\ Closed(o) /\ order'[o].status # order[o].status =>
             \/ order'[o].status = "RESEND" /\ req' = req
             \/ \E p \in Requests :
                  /\ Wrote(p, o)
                  /\ \/ req[p].step = "auto"
                     \/ "closed" \in req[p].who
                     \/ "partial" \in req[p].who /\ order'[o].status = "PARTIALLY_RETURNED"
                     \/ o \notin req[p].closed
        /\ order[o].forwarded =>
             \A p \in Requests :
               /\ Wrote(p, o) /\ req[p].step = "update"
               /\ \/ order'[o].status # order[o].status
                  \/ order'[o].paid # order[o].paid /\ order'[o].paid # 0
               => \/ "holder" \in req[p].who
                  \/ o \in overlapped
<1>1. IInv /\ [Next]_vars => [Guards]_vars
  <2> SUFFICES ASSUME IInv, Next, NEW o \in Orders PROVE Guards!(o)
    OBVIOUS
  <2>1. ASSUME Closed(o), order'[o].status # order[o].status,
               ~(order'[o].status = "RESEND" /\ req' = req)
        PROVE  \E p \in Requests :
                 /\ Wrote(p, o)
                 /\ \/ req[p].step = "auto"
                    \/ "closed" \in req[p].who
                    \/ "partial" \in req[p].who /\ order'[o].status = "PARTIALLY_RETURNED"
                    \/ o \notin req[p].closed
    <3>1. order[o] # FreeOrder
      BY <2>1 DEF FreeOrder, Closed, InReturnedReport, LiveReportsOf, IInv, FreeRows
    <3>2. PICK p \in Requests : Write(p) /\ o \in req[p].on
      BY <2>1, <3>1, WhoWrites DEF Kept
    <3>3. /\ Wrote(p, o)
          /\ Decided(req[p].step, o \in req[p].closed, req[p].old[o], req[p].new[o], req[p].who)
          /\ order'[o].status = Given(req[p].new[o].status, order[o].status)
      BY <3>2, WriteFacts
    <3>4. req[p].new[o].status # None /\ order'[o].status = req[p].new[o].status
      BY <2>1, <3>3 DEF Given
    <3> QED BY <2>1, <3>3, <3>4 DEF Decided
  <2>2. ASSUME order[o].forwarded, NEW p \in Requests, Wrote(p, o), req[p].step = "update",
               \/ order'[o].status # order[o].status
               \/ order'[o].paid # order[o].paid /\ order'[o].paid # 0,
               o \notin overlapped
        PROVE  "holder" \in req[p].who
    <3>1. order[o] # FreeOrder
      BY <2>2 DEF FreeOrder
    <3>2. PICK q \in Requests : Write(q) /\ o \in req[q].on
      BY <2>2, <3>1, WhoWrites DEF Kept, Wrote
    <3>3. /\ q = p /\ Fitting("update", order[o], req[p].new[o], req[p].who)
          /\ order'[o].status = Given(req[p].new[o].status, order[o].status)
          /\ order'[o].paid = Given(req[p].new[o].paid, order[o].paid)
      BY <2>2, <3>2, WriteFacts
    <3> QED BY <2>2, <3>3 DEF Fitting, Given, IsAmount
  <2> QED BY <2>1, <2>2
<1>2. [][Guards]_vars => GuardedOrderStays
  BY PTL DEF GuardedOrderStays
<1> QED BY <1>1, <1>2, Inductive, PTL DEF Spec

\* deactivateOrder and MayPay look at hasDeliveredClientReport when they read the order:
\* a settled order is deleted, or paid anew, by the treasury, a partner, or somebody
\* who read it before it was settled or paid.
THEOREM SettledOrdersStay == Spec => SettledOrderStays
<1> DEFINE Stays ==
      \A o \in Orders :
        /\ order[o].settled
        /\ \/ order[o].state = "live" /\ order'[o].state = "deleted"
           \/ order[o].paid # 0 /\ order'[o].paid \notin {0, order[o].paid}
        => \E p \in Requests :
             /\ Wrote(p, o)
             /\ \/ "treasury" \in req[p].who /\ req[p].step = "update"
                \/ req[p].step = "partner"
                \/ ~req[p].old[o].settled
                \/ req[p].step \in {"auto", "update"} /\ req[p].old[o].paid = 0
<1>1. IInv /\ [Next]_vars => [Stays]_vars
  <2> SUFFICES ASSUME IInv, Next, NEW o \in Orders, order[o].settled,
                      \/ order[o].state = "live" /\ order'[o].state = "deleted"
                      \/ order[o].paid # 0 /\ order'[o].paid \notin {0, order[o].paid}
               PROVE  \E p \in Requests :
                        /\ Wrote(p, o)
                        /\ \/ "treasury" \in req[p].who /\ req[p].step = "update"
                           \/ req[p].step = "partner"
                           \/ ~req[p].old[o].settled
                           \/ req[p].step \in {"auto", "update"} /\ req[p].old[o].paid = 0
    OBVIOUS
  <2>1. order[o] # FreeOrder
    BY DEF FreeOrder
  <2>2. CASE \E p \in Requests : Write(p) /\ o \in req[p].on
    <3>1. PICK p \in Requests : Write(p) /\ o \in req[p].on
      BY <2>2
    <3>2. /\ Wrote(p, o)
          /\ Decided(req[p].step, o \in req[p].closed, req[p].old[o], req[p].new[o], req[p].who)
          /\ order'[o].paid = Given(req[p].new[o].paid, order[o].paid)
          /\ order'[o].state = order[o].state
      BY <3>1, WriteFacts
    <3>3. req[p].new[o].paid \notin {None, 0}
      BY <3>2 DEF Given
    <3> QED BY <3>2, <3>3 DEF Decided
  <2>3. CASE \E p \in Requests : /\ WriteDeleted(p) /\ o \in req[p].on
                                 /\ order'[o].paid = order[o].paid
    <3>1. PICK p \in Requests : WriteDeleted(p) /\ o \in req[p].on
      BY <2>3
    <3>2. req[p].step = "delete" /\ req'[p] = Idle
      BY <3>1 DEF WriteDeleted, End, IInv, Shape
    <3>3. Wrote(p, o)
      BY <3>1, <3>2, IdleFacts DEF Wrote
    <3>4. ~req[p].old[o].settled
      BY <3>1, <3>2 DEF IInv, Faithful, Decided
    <3> QED BY <3>3, <3>4
  <2> QED BY <2>1, <2>2, <2>3, WhoWrites DEF Kept
<1>2. [][Stays]_vars => SettledOrderStays
  BY PTL DEF SettledOrderStays
<1> QED BY <1>1, <1>2, Inductive, PTL DEF Spec

=============================================================================
