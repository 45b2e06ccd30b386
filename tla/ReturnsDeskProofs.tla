-------------------------- MODULE ReturnsDeskProofs --------------------------
(***************************************************************************)
(* The returns desk, for any number of orders, reports, repositories and   *)
(* requests.  The inductive invariant is in three layers: what a request   *)
(* of each step holds (Base), what the totals rest on (Count), and where   *)
(* an order on its way is on record (Track).                               *)
(***************************************************************************)
EXTENDS ReturnsDesk, FiniteSetTheorems, TLAPS

-----------------------------------------------------------------------------
(* Base *)

OneOrder == {"stageMove", "stageRow", "remove", "receiveClear", "receiveMove", "numberMove"}

Making == {"make", "makeMove", "makeClear"}

OfReport == {"confirmMove", "deactMove", "deactivate"}

\* What request p was asked to do, for each step it may be at.
Asked(p) ==
  /\ pc[p] = "idle" => req[p] = NoReq
  /\ pc[p] \notin {"idle", "confirmMove"} => req[p].at \in Repos
  /\ pc[p] \in OneOrder => \E o \in Orders : req[p].orders = {o}
  /\ pc[p] = "stageMove" => req[p].target # Client
  /\ pc[p] \in Making => req[p].listed \subseteq req[p].orders /\ IsFiniteSet(req[p].listed)
  /\ pc[p] = "makeMove" => req[p].target = Client
  /\ pc[p] \in OfReport => req[p].orders = {}
  /\ pc[p] \in OfReport \cup {"remove"} =>
       req[p].report \in Reports /\ rep[req[p].report].state # "free"
  /\ pc[p] = "remove" => req[p].orders \subseteq rep[req[p].report].listed

\* Reports lose orders and gain none, and are of a repository.
Reported(r) ==
  /\ rep[r].orders \subseteq rep[r].listed
  /\ IsFiniteSet(rep[r].listed)
  /\ rep[r].state # "free" => rep[r].at \in Repos

\* Orders that two requests work on at once are on record.
Apart ==
  \A p, q \in Requests : p # q => Touches(p) \cap Touches(q) \subseteq contended

Base ==
  /\ TypeOK
  /\ \A p \in Requests : Asked(p)
  /\ \A r \in Reports : Reported(r)
  /\ IsFiniteSet(staged)
  /\ Apart

-----------------------------------------------------------------------------
(* Count *)

\* An order is staged once for a target, or it is on record that it was again.
UniqueRows ==
  \A x, y \in staged :
    x.order = y.order /\ x.to \cap y.to # {} /\ x.order \notin restaged => x = y

\* What request p has counted or is going to count.
Counted(p) ==
  /\ pc[p] = "make" /\ req[p].listed \cap restaged = {} =>
       req[p].count = Cardinality(req[p].listed)
  /\ pc[p] = "remove" /\ req[p].report \in Existing =>
       req[p].orders \subseteq rep[req[p].report].orders \cup contended

Count == UniqueRows /\ (\A p \in Requests : Counted(p)) /\ TotalsMatch

-----------------------------------------------------------------------------
(* Track *)

\* Orders nobody contended for or left half-way.
Quiet == Orders \ (contended \cup loose)

Staged(o) == \E x \in staged : x.order = o /\ x.to \cap Repos # {}

OnLive(o) == \E r \in RepositoryReportsOf(o) : rep[r].state = "live"

\* A request that has taken the order off its records and is going to write where
\* it is, or has written that it is on its way and is going to stage it.
Between(p, o) ==
  /\ o \in req[p].orders
  /\ \/ pc[p] \in {"receiveClear", "receiveMove", "numberMove"}
     \/ pc[p] = "stageRow" /\ req[p].target \in Repos

OnRecord ==
  \A o \in Quiet : order[o].place = "IN_CAR" =>
    Staged(o) \/ OnLive(o) \/ \E p \in Requests : Between(p, o)

\* What request p is going to take off the records is on another, or is back.
Handed(p) ==
  /\ pc[p] \in {"stageMove", "stageRow"} => req[p].target \in req[p].to
  /\ pc[p] = "stageRow" => \A o \in req[p].orders \cap Quiet :
       order[o].place = "IN_CAR" => req[p].target \in Repos
  /\ pc[p] \in Making => \A x \in RowsOf(req[p].orders, req[p].at, req[p].target) :
       x.order \in req[p].listed \cup contended
  /\ pc[p] = "makeClear" /\ req[p].target \in Repos =>
       \A o \in req[p].listed \cap Quiet : OnLive(o)
  /\ pc[p] = "makeClear" /\ req[p].target = Client =>
       \A o \in req[p].listed \cap Quiet : order[o].place # "IN_CAR"
  /\ pc[p] = "deactivate" /\ rep[req[p].report].target \in Repos =>
       \A o \in rep[req[p].report].orders \cap Quiet : order[o].place # "IN_CAR"

Track == OnRecord /\ \A p \in Requests : Handed(p)

IInv == Base /\ Count /\ Track /\ InRepositoryHasPlace

-----------------------------------------------------------------------------
(* What a step of one request leaves to the others *)

\* What becomes of report r in a step of a request that works on the orders S.
Loses(r, S) ==
  /\ rep'[r].state # rep[r].state => rep[r].orders \cup rep'[r].orders \subseteq S
  /\ rep[r].state # "free" =>
       /\ rep'[r].target = rep[r].target /\ rep'[r].listed = rep[r].listed
       /\ rep'[r].orders \subseteq rep[r].orders
       /\ rep'[r].state # "free"
       /\ rep'[r].state \in {"live", "deleted"} => rep[r].state \in {"live", "deleted"}
  /\ rep'[r].orders \ S = rep[r].orders \ S
  /\ rep'[r].state = "free" => rep[r].state = "free"

\* A step of request p writes about its own orders.
Runs(p) ==
  /\ \A q \in Requests \ {p} : pc'[q] = pc[q] /\ req'[q] = req[q]
  /\ Touches(p)' \subseteq Touches(p)
  /\ contended' = contended /\ restaged \subseteq restaged' /\ loose \subseteq loose'
  /\ \A o \in Orders \ Touches(p) : order'[o] = order[o]
  /\ \A x : x.order \notin Touches(p) => (x \in staged' <=> x \in staged)
  /\ \A r \in Reports : Loses(r, Touches(p))

LEMMA NoReqFacts ==
  /\ NoReq \in Req
  /\ NoReq.orders = {} /\ NoReq.listed = {} /\ NoReq.at = NoRepo /\ NoReq.report = NoReport
  /\ NoReq.target = Client
BY TargetsAssumption DEF NoReq, Req, Targets

LEMMA GotoFacts ==
  ASSUME TypeOK, NEW p \in Requests, NEW step \in Steps, NEW r \in Req, Goto(p, step, r)
  PROVE  /\ pc' \in [Requests -> Steps] /\ pc'[p] = step
         /\ req' \in [Requests -> Req] /\ req'[p] = r
         /\ \A q \in Requests \ {p} : pc'[q] = pc[q] /\ req'[q] = req[q]
BY DEF TypeOK, Goto

\* What a request works on is orders, and nothing when it is idle.
LEMMA TouchesFacts ==
  ASSUME Base, NEW p \in Requests
  PROVE  /\ Touches(p) \subseteq Orders
         /\ pc[p] \notin OfReport => Touches(p) = req[p].orders
         /\ pc[p] \in OfReport => Touches(p) = rep[req[p].report].orders
         /\ pc[p] = "idle" => Touches(p) = {}
<1>1. req[p] \in Req /\ rep \in [Reports -> Report] /\ Asked(p)
  BY DEF Base, TypeOK
<1> QED BY <1>1, NoReqFacts DEF Touches, Asked, OfReport, Req, Report

\* An order a request has to itself is on record, unless it is in its hands.
LEMMA MyOrders ==
  ASSUME IInv, NEW p \in Requests, NEW o \in Touches(p) \cap Quiet, order[o].place = "IN_CAR"
  PROVE  Staged(o) \/ OnLive(o) \/ Between(p, o)
<1>1. \A q \in Requests : Between(q, o) => o \in Touches(q)
  BY DEF Between, Touches
<1> QED BY <1>1 DEF IInv, Base, Track, OnRecord, Apart, Quiet

LEMMA OthersKeep ==
  ASSUME IInv, NEW p \in Requests, Runs(p), TypeOK', NEW q \in Requests \ {p}
  PROVE  /\ Asked(q)' /\ Counted(q)' /\ Handed(q)'
         /\ Touches(q)' \subseteq Touches(q)
<1> USE DEF IInv, Base, Count, Track
<1>1. /\ pc'[q] = pc[q] /\ req'[q] = req[q] /\ contended' = contended
      /\ restaged \subseteq restaged' /\ Quiet' \subseteq Quiet
  BY DEF Runs, Quiet
<1>2. Asked(q) /\ Counted(q) /\ Handed(q)
  OBVIOUS
<1>3. \A r \in Reports : Loses(r, Touches(p))
  BY DEF Runs
<1>4. Touches(q) \cap Touches(p) \subseteq contended
  BY DEF Apart
<1>5. req[q] \in Req /\ rep \in [Reports -> Report] /\ staged \subseteq StagedRow
  BY DEF TypeOK
<1>6. req[q].orders \subseteq Touches(q)
  BY DEF Touches
<1>7. \A o : o \notin Touches(p) /\ OnLive(o) => OnLive(o)'
  <2> SUFFICES ASSUME NEW o, o \notin Touches(p), OnLive(o) PROVE OnLive(o)'
    OBVIOUS
  <2>1. PICK r \in Reports : rep[r].state = "live" /\ rep[r].target \in Repos /\ o \in rep[r].orders
    BY DEF OnLive, RepositoryReportsOf, Existing
  <2>2. rep'[r].state = "live" /\ rep'[r].target \in Repos /\ o \in rep'[r].orders
    BY <1>3, <2>1 DEF Loses
  <2> QED BY <2>1, <2>2 DEF OnLive, RepositoryReportsOf, Existing
<1>8. Asked(q)'
  BY <1>1, <1>2, <1>3 DEF Asked, Loses
<1>9. Touches(q)' \subseteq Touches(q)
  BY <1>1, <1>2, <1>3 DEF Touches, Asked, Loses, OfReport
<1>10. \A x \in staged' : x.order \in req[q].orders => x \in staged \/ x.order \in contended
  BY <1>4, <1>6 DEF Runs
<1>11. Counted(q)'
  <2>2. pc[q] = "remove" /\ req[q].report \in Existing' =>
          req[q].orders \subseteq rep'[req[q].report].orders \cup contended
    <3> SUFFICES ASSUME pc[q] = "remove", req[q].report \in Existing', NEW o \in req[q].orders,
                        o \notin contended
                 PROVE  o \in rep'[req[q].report].orders
      OBVIOUS
    <3>1. req[q].report \in Reports /\ rep[req[q].report].state # "free"
      BY <1>2 DEF Asked
    <3>2. req[q].report \in Existing
      BY <1>3, <3>1 DEF Existing, Loses
    <3>3. o \in rep[req[q].report].orders /\ o \notin Touches(p)
      BY <1>2, <1>4, <1>6, <3>2 DEF Counted
    <3> QED BY <1>3, <3>1, <3>3 DEF Loses
  <2> QED BY <1>1, <1>2, <2>2 DEF Counted
<1>12. Handed(q)'
  <2>1. \A o \in Touches(q) \cap Quiet' : o \notin Touches(p) /\ order'[o] = order[o]
    BY <1>1, <1>4, <1>5 DEF Quiet, Runs
  <2>2. pc[q] = "stageRow" => \A o \in req[q].orders \cap Quiet' :
          order'[o].place = "IN_CAR" => req[q].target \in Repos
    BY <1>1, <1>2, <1>6, <2>1 DEF Handed
  <2>3. pc[q] \in Making =>
          \A x \in RowsOf(req[q].orders, req[q].at, req[q].target)' :
            x.order \in req[q].listed \cup contended
    BY <1>1, <1>2, <1>10 DEF Handed, RowsOf
  <2>4. pc[q] = "makeClear" /\ req[q].target \in Repos =>
          \A o \in req[q].listed \cap Quiet' : OnLive(o)'
    BY <1>1, <1>2, <1>6, <1>7, <2>1 DEF Handed, Asked, Making
  <2>6. pc[q] = "makeClear" /\ req[q].target = Client =>
          \A o \in req[q].listed \cap Quiet' : order'[o].place # "IN_CAR"
    BY <1>1, <1>2, <1>6, <2>1 DEF Handed, Asked, Making
  <2>5. pc[q] = "deactivate" /\ rep'[req[q].report].target \in Repos =>
          \A o \in rep'[req[q].report].orders \cap Quiet' : order'[o].place # "IN_CAR"
    <3> SUFFICES ASSUME pc[q] = "deactivate", rep'[req[q].report].target \in Repos,
                        NEW o \in rep'[req[q].report].orders \cap Quiet'
                 PROVE  order'[o].place # "IN_CAR"
      OBVIOUS
    <3>1. req[q].report \in Reports /\ rep[req[q].report].state # "free"
      BY <1>2 DEF Asked, OfReport
    <3>2. rep[req[q].report].target \in Repos /\ o \in rep[req[q].report].orders \cap Quiet
      BY <1>1, <1>3, <3>1 DEF Loses
    <3>3. o \in Touches(q)
      BY <3>2 DEF Touches
    <3> QED BY <1>2, <2>1, <3>2, <3>3 DEF Handed
  <2> QED BY <1>1, <1>2, <2>2, <2>3, <2>4, <2>5, <2>6 DEF Handed, RowsOf
<1> QED BY <1>8, <1>9, <1>11, <1>12

\* A step of a request keeps the invariant when it does for its own orders.
LEMMA RunKeeps ==
  ASSUME IInv, NEW p \in Requests, Runs(p), TypeOK',
         \A r \in Reports : Reported(r)', IsFiniteSet(staged)',
         Asked(p)', Counted(p)', Handed(p)', UniqueRows', TotalsMatch',
         \A o \in Touches(p) \cap Quiet' :
           order'[o].place = "IN_CAR" => Staged(o)' \/ OnLive(o)' \/ Between(p, o)'
  PROVE  Base' /\ Count' /\ Track'
<1>1. \A q \in Requests : Asked(q)' /\ Counted(q)' /\ Handed(q)' /\ Touches(q)' \subseteq Touches(q)
  BY OthersKeep DEF Runs
<1>2. Apart'
  BY <1>1 DEF Apart, IInv, Base, Runs
<1>3. OnRecord'
  <2> SUFFICES ASSUME NEW o \in Quiet', order'[o].place = "IN_CAR", o \notin Touches(p)
               PROVE  Staged(o)' \/ OnLive(o)' \/ \E q \in Requests : Between(q, o)'
    BY DEF OnRecord
  <2>1. o \in Quiet /\ order'[o] = order[o]
    BY DEF Quiet, Runs
  <2>2. Staged(o) => Staged(o)'
    BY DEF Staged, Runs
  <2>3. OnLive(o) => OnLive(o)'
    <3> SUFFICES ASSUME OnLive(o) PROVE OnLive(o)'
      OBVIOUS
    <3>1. PICK r \in Reports : /\ rep[r].state = "live" /\ rep[r].target \in Repos
                              /\ o \in rep[r].orders
      BY DEF OnLive, RepositoryReportsOf, Existing
    <3>2. Loses(r, Touches(p))
      BY DEF Runs
    <3>3. rep'[r].state = "live" /\ rep'[r].target \in Repos /\ o \in rep'[r].orders
      BY <3>1, <3>2 DEF Loses
    <3> QED BY <3>1, <3>3 DEF OnLive, RepositoryReportsOf, Existing
  <2>4. \A q \in Requests : Between(q, o) => Between(q, o)'
    BY DEF Between, Touches, Runs
  <2> QED BY <2>1, <2>2, <2>3, <2>4 DEF IInv, Track, OnRecord
<1> QED BY <1>1, <1>2, <1>3 DEF Base, Count, Track

-----------------------------------------------------------------------------
(* A request begins *)

\* What becomes of report r when a request begins: its orders stay.
Stays(r) ==
  /\ rep'[r].state = rep[r].state /\ rep'[r].target = rep[r].target
  /\ rep'[r].orders = rep[r].orders /\ rep'[r].listed = rep[r].listed
  /\ rep'[r].count = rep[r].count
  /\ rep[r].state # "free" /\ rep[r].at \in Repos => rep'[r].at \in Repos
  /\ rep[r].state = "free" => rep'[r] = rep[r]

\* Reports that stay are the same reports of the same orders.
LEMMA StaysFacts ==
  ASSUME \A r \in Reports : Stays(r)
  PROVE  /\ Existing' = Existing
         /\ \A o : RepositoryReportsOf(o)' = RepositoryReportsOf(o)
         /\ \A o : OnLive(o)' = OnLive(o)
<1>1. Existing' = Existing
  BY DEF Stays, Existing
<1>2. \A o : RepositoryReportsOf(o)' = RepositoryReportsOf(o)
  BY <1>1 DEF Stays, RepositoryReportsOf, Existing
<1>3. \A o : OnLive(o)' = OnLive(o)
  BY <1>1, <1>2 DEF Stays, OnLive, RepositoryReportsOf, Existing
<1> QED BY <1>1, <1>2, <1>3

\* Every idle request starts with nothing on its hands, and whoever it meets is
\* on record.
LEMMA StartKeeps ==
  ASSUME IInv, NEW p \in Requests, NEW step \in Steps \ {"idle"}, NEW r \in Req, NEW S,
         Start(p, step, r, S), UNCHANGED <<order, staged, loose>>,
         rep' \in [Reports -> Report], \A s \in Reports : Stays(s),
         Touches(p)' \subseteq S, S \subseteq Orders,
         Asked(p)', Counted(p)', Handed(p)'
  PROVE  IInv'
<1> USE DEF IInv, Base, Count, Track
<1>1. pc[p] = "idle" /\ req[p].orders = {}
  BY NoReqFacts DEF Start, Asked
<1>2. /\ pc' \in [Requests -> Steps] /\ req' \in [Requests -> Req]
      /\ \A q \in Requests \ {p} : pc'[q] = pc[q] /\ req'[q] = req[q]
  BY GotoFacts DEF Start
<1>3. /\ contended \subseteq contended' /\ contended' \subseteq Orders /\ restaged' = restaged
      /\ \A q \in Requests \ {p} : S \cap Touches(q) \subseteq contended'
  BY DEF Start, TypeOK
<1>4. TypeOK'
  <2>1. begun' \in 0..MaxBegun
    BY MaxBegunAssumption DEF Start, TypeOK
  <2> QED BY <1>2, <1>3, <2>1 DEF TypeOK, Stays
<1>5. \A s \in Reports : Reported(s)'
  BY DEF Reported, Stays
<1>6. \A q \in Requests \ {p} : Touches(q)' = Touches(q)
  <2> SUFFICES ASSUME NEW q \in Requests \ {p} PROVE Touches(q)' = Touches(q)
    OBVIOUS
  <2>1. pc[q] \in OfReport => req[q].report \in Reports
    BY DEF Asked
  <2> QED BY <1>2, <2>1 DEF Touches, Stays, OfReport
<1>7. Apart'
  BY <1>3, <1>6 DEF Apart
<1>8. Quiet' \subseteq Quiet
  BY <1>3 DEF Quiet
<1>9. \A q \in Requests \ {p} : Asked(q)' /\ Counted(q)' /\ Handed(q)'
  <2> SUFFICES ASSUME NEW q \in Requests \ {p} PROVE Asked(q)' /\ Counted(q)' /\ Handed(q)'
    OBVIOUS
  <2>1. Asked(q) /\ Counted(q) /\ Handed(q) /\ pc'[q] = pc[q] /\ req'[q] = req[q]
    BY <1>2
  <2>2. Asked(q)'
    BY <2>1 DEF Asked, Stays
  <2>3. Counted(q)'
    BY <1>3, <2>1, StaysFacts DEF Counted, Stays, Asked
  <2>4. Handed(q)'
    BY <1>3, <1>8, <2>1, StaysFacts DEF Handed, Stays, RowsOf, Asked, OfReport
  <2> QED BY <2>2, <2>3, <2>4
<1>10. UniqueRows' /\ TotalsMatch'
  BY <1>3, StaysFacts DEF UniqueRows, TotalsMatch, Stays, Existing
<1>11. OnRecord'
  <2> SUFFICES ASSUME NEW o \in Quiet', order[o].place = "IN_CAR"
               PROVE  Staged(o)' \/ OnLive(o)' \/ \E q \in Requests : Between(q, o)'
    BY DEF OnRecord
  <2>1. Staged(o) \/ OnLive(o) \/ \E q \in Requests : Between(q, o)
    BY <1>8 DEF OnRecord
  <2>2. \A q \in Requests : Between(q, o) => Between(q, o)'
    BY <1>1, <1>2 DEF Between
  <2> QED BY <2>1, <2>2, StaysFacts DEF Staged
<1>12. InRepositoryHasPlace'
  BY DEF InRepositoryHasPlace
<1> QED BY <1>4, <1>5, <1>7, <1>9, <1>10, <1>11, <1>12

LEMMA SaveOrderInCacheKeeps ==
  ASSUME IInv, NEW p \in Requests, NEW o \in Orders, NEW at \in Repos,
         NEW to \in Bodies, NEW target \in to, SaveOrderInCache(p, o, at, target, to)
  PROVE  IInv'
<1> DEFINE step == IF target = Client THEN "stageRow" ELSE "stageMove"
           r == [NoReq EXCEPT !.orders = {o}, !.at = at, !.target = target, !.to = to]
<1>1. /\ Start(p, step, r, {o}) /\ UNCHANGED <<order, staged, rep, loose>>
      /\ order[o].place = "IN_REPOSITORY"
  BY DEF SaveOrderInCache
<1>2. r \in Req /\ r.orders = {o} /\ r.at = at /\ r.target = target /\ r.to = to
  BY NoReqFacts, BodiesAssumption DEF Req
<1>3. step \in {"stageRow", "stageMove"} /\ (step = "stageMove" => target # Client)
  OBVIOUS
<1> HIDE DEF r, step
<1>4. step \in Steps \ {"idle"}
  BY <1>3 DEF Steps
<1>5. pc'[p] = step /\ req'[p] = r
  BY <1>1, <1>2, <1>4, GotoFacts DEF Start, IInv, Base
<1>6. rep' \in [Reports -> Report] /\ \A s \in Reports : Stays(s)
  BY <1>1 DEF Stays, IInv, Base, TypeOK
<1>7. Touches(p)' = {o}
  BY <1>2, <1>3, <1>5 DEF Touches
<1>8. Asked(p)'
  BY <1>2, <1>3, <1>5 DEF Asked, OneOrder, Making, OfReport
<1>9. Counted(p)' /\ Handed(p)'
  BY <1>1, <1>2, <1>3, <1>5 DEF Counted, Handed, Making
<1> QED BY <1>1, <1>2, <1>4, <1>6, <1>7, <1>8, <1>9, StartKeeps

OrdersOf(R) == {x.order : x \in R}

\* The rows read are as many as their orders, when nobody contends for one of them.
LEMMA RowsCounted ==
  ASSUME Base, NEW S, NEW R, R \subseteq staged, \A x \in R : x.order \in S
  PROVE  /\ IsFiniteSet(R) /\ IsFiniteSet(OrdersOf(R)) /\ OrdersOf(R) \subseteq Orders \cap S
         /\ (UniqueRows /\ \A x, y \in R : x.to \cap y.to # {})
              /\ OrdersOf(R) \cap restaged = {} => Cardinality(R) = Cardinality(OrdersOf(R))
<1> DEFINE of == [x \in R |-> x.order]
<1>1. IsFiniteSet(R) /\ OrdersOf(R) \subseteq Orders \cap S
  BY FS_Subset DEF Base, TypeOK, StagedRow, OrdersOf
<1>2. of \in Surjection(R, OrdersOf(R))
  BY DEF Surjection, OrdersOf
<1>3. ASSUME UniqueRows, \A x, y \in R : x.to \cap y.to # {}, OrdersOf(R) \cap restaged = {}
      PROVE  of \in Injection(R, OrdersOf(R))
  <2>1. \A x, y \in R : x.order = y.order => x = y
    BY <1>3 DEF OrdersOf, UniqueRows
  <2>2. \A x \in R : x.order \in OrdersOf(R)
    BY DEF OrdersOf
  <2> QED BY <2>1, <2>2 DEF Injection, IsInjective
<1> HIDE DEF of
<1>4. IsFiniteSet(OrdersOf(R))
  BY <1>1, <1>2, FS_Surjection
<1>5. of \in Injection(R, OrdersOf(R)) => Cardinality(OrdersOf(R)) = Cardinality(R)
  BY <1>1, <1>2, FS_Surjection
<1> QED BY <1>1, <1>3, <1>4, <1>5

LEMMA SaveAndCreateReportKeeps ==
  ASSUME IInv, NEW p \in Requests, NEW S \in SUBSET Orders, NEW at \in Repos,
         NEW target \in Targets \ {at}, SaveAndCreateReport(p, S, at, target)
  PROVE  IInv'
<1> DEFINE R == RowsOf(S, at, target)
           T == OrdersOf(R)
           r == [NoReq EXCEPT !.orders = S, !.at = at, !.target = target, !.listed = T,
                              !.count = Cardinality(R)]
<1>1. Start(p, "make", r, S) /\ UNCHANGED <<order, staged, rep, loose>>
  BY DEF SaveAndCreateReport, OrdersOf
<1>2. /\ IsFiniteSet(R) /\ IsFiniteSet(T) /\ T \subseteq Orders \cap S
      /\ T \cap restaged = {} => Cardinality(R) = Cardinality(T)
  <2>1. R \subseteq staged /\ \A x \in R : x.order \in S /\ target \in x.to
    BY DEF RowsOf
  <2> QED BY <2>1, RowsCounted DEF IInv, Count
<1>3. Cardinality(R) \in Int
  BY <1>2, FS_CardinalityType
<1> HIDE DEF T
<1>4. /\ r \in Req /\ r.orders = S /\ r.at = at /\ r.target = target /\ r.listed = T
      /\ r.count = Cardinality(R)
  BY <1>2, <1>3, NoReqFacts DEF Req
<1> HIDE DEF r
<1>5. pc'[p] = "make" /\ req'[p] = r
  BY <1>1, <1>4, GotoFacts DEF Start, IInv, Base, Steps
<1>6. rep' \in [Reports -> Report] /\ \A s \in Reports : Stays(s)
  BY <1>1 DEF Stays, IInv, Base, TypeOK
<1>7. Touches(p)' = S
  BY <1>4, <1>5 DEF Touches
<1>8. Asked(p)'
  BY <1>2, <1>4, <1>5 DEF Asked, OneOrder, Making, OfReport
<1>9. restaged' = restaged
  BY <1>1 DEF Start
<1>10. Counted(p)'
  BY <1>2, <1>4, <1>5, <1>9 DEF Counted
<1>11. Handed(p)'
  <2>1. \A x \in R : x.order \in T
    BY DEF T, OrdersOf
  <2>2. RowsOf(S, at, target)' = R
    BY <1>1 DEF RowsOf
  <2> QED BY <1>4, <1>5, <2>1, <2>2 DEF Handed, RowsOf
<1>12. "make" \in Steps \ {"idle"}
  BY DEF Steps
<1> QED BY <1>1, <1>4, <1>6, <1>7, <1>8, <1>10, <1>11, <1>12, StartKeeps

\* addReturnedOrderToRepository and repositoryConfirmOrderByReceiptNumber begin alike.
LEMMA ReceiveKeeps ==
  ASSUME IInv, NEW p \in Requests, NEW o \in Orders, NEW at \in Repos,
         NEW r \in Reports \cup {NoReport},
         \/ AddReturnedOrderToRepository(p, o, at, r)
         \/ ConfirmByReceiptNumber(p, o, at, r)
  PROVE  IInv'
<1>1. PICK number \in BOOLEAN, step \in {"receiveClear", "numberMove", "remove"} :
        /\ Start(p, step, ReceiveReq(o, at, r, number), {o})
        /\ UNCHANGED <<order, staged, rep, loose>>
        /\ FoundReport(o, r)
        /\ step = "remove" <=> r # NoReport
  BY DEF AddReturnedOrderToRepository, ConfirmByReceiptNumber
<1> DEFINE q == ReceiveReq(o, at, r, number)
<1>2. /\ q \in Req /\ q.orders = {o} /\ q.at = at /\ q.report = r
  BY NoReqFacts DEF Req, ReceiveReq
<1> HIDE DEF q
<1>3. step \in Steps \ {"idle"}
  BY DEF Steps
<1>4. pc'[p] = step /\ req'[p] = q
  BY <1>1, <1>2, <1>3, GotoFacts DEF Start, IInv, Base, q
<1>5. rep' \in [Reports -> Report] /\ \A s \in Reports : Stays(s)
  BY <1>1 DEF Stays, IInv, Base, TypeOK
<1>6. Touches(p)' = {o}
  BY <1>2, <1>4 DEF Touches
<1>7. step = "remove" => r \in Existing /\ o \in rep[r].orders
  BY <1>1 DEF FoundReport, RepositoryReportsOf
<1>8. Asked(p)'
  <2>1. step = "remove" => r \in Reports /\ rep'[r].state # "free" /\ {o} \subseteq rep'[r].listed
    BY <1>1, <1>7 DEF Existing, IInv, Base, Reported
  <2> QED BY <1>2, <1>4, <2>1 DEF Asked, OneOrder, Making, OfReport
<1>9. Counted(p)' /\ Handed(p)'
  BY <1>1, <1>2, <1>4, <1>7 DEF Counted, Handed, Making
<1> QED BY <1>1, <1>2, <1>3, <1>5, <1>6, <1>8, <1>9, StartKeeps DEF q

LEMMA UpdateReportKeeps ==
  ASSUME IInv, NEW p \in Requests, NEW r \in Reports, NEW yes \in BOOLEAN,
         UpdateReport(p, r, yes), yes /\ rep[r].target = Client
  PROVE  IInv'
<1> DEFINE q == [NoReq EXCEPT !.report = r]
<1>1. /\ Start(p, "confirmMove", q, rep[r].orders) /\ UNCHANGED <<order, staged, loose>>
      /\ r \in Existing /\ rep' = [rep EXCEPT ![r].confirmed = yes]
  BY DEF UpdateReport
<1>2. q \in Req /\ q.orders = {} /\ q.report = r
  BY NoReqFacts DEF Req
<1> HIDE DEF q
<1>3. "confirmMove" \in Steps \ {"idle"}
  BY DEF Steps
<1>4. pc'[p] = "confirmMove" /\ req'[p] = q
  BY <1>1, <1>2, <1>3, GotoFacts DEF Start, IInv, Base
<1>5. rep \in [Reports -> Report]
  BY DEF IInv, Base, TypeOK
<1>6. rep' \in [Reports -> Report] /\ \A s \in Reports : Stays(s)
  BY <1>1, <1>5 DEF Stays, Report, Existing
<1>7. Touches(p)' = rep[r].orders /\ rep[r].orders \subseteq Orders
  BY <1>2, <1>4, <1>5, <1>6 DEF Touches, Stays, Report
<1>8. Asked(p)'
  BY <1>1, <1>2, <1>4, <1>6 DEF Asked, OneOrder, Making, OfReport, Existing, Stays
<1>9. Counted(p)' /\ Handed(p)'
  BY <1>4 DEF Counted, Handed, Making
<1> QED BY <1>1, <1>2, <1>3, <1>6, <1>7, <1>8, <1>9, StartKeeps

LEMMA MoveReportKeeps ==
  ASSUME IInv, NEW p \in Requests, NEW r \in Reports, NEW at \in Repos, MoveReport(p, r, at)
  PROVE  IInv'
<1> DEFINE q == [NoReq EXCEPT !.orders = rep[r].orders, !.at = at]
<1>1. /\ Start(p, "relocate", q, rep[r].orders) /\ UNCHANGED <<order, staged, loose>>
      /\ r \in Existing /\ rep' = [rep EXCEPT ![r].at = at]
  BY DEF MoveReport
<1>2. rep \in [Reports -> Report]
  BY DEF IInv, Base, TypeOK
<1>3. q \in Req /\ q.orders = rep[r].orders /\ q.at = at
  BY <1>2, NoReqFacts DEF Req, Report
<1> HIDE DEF q
<1>4. "relocate" \in Steps \ {"idle"}
  BY DEF Steps
<1>5. pc'[p] = "relocate" /\ req'[p] = q
  BY <1>1, <1>3, <1>4, GotoFacts DEF Start, IInv, Base
<1>6. rep' \in [Reports -> Report] /\ \A s \in Reports : Stays(s)
  BY <1>1, <1>2 DEF Stays, Report, Existing
<1>7. Touches(p)' = rep[r].orders /\ rep[r].orders \subseteq Orders
  BY <1>2, <1>3, <1>5 DEF Touches, Report
<1>8. Asked(p)'
  BY <1>3, <1>5 DEF Asked, OneOrder, Making, OfReport
<1>9. Counted(p)' /\ Handed(p)'
  BY <1>5 DEF Counted, Handed, Making
<1> QED BY <1>1, <1>3, <1>4, <1>6, <1>7, <1>8, <1>9, StartKeeps

LEMMA DeactivateReportKeeps ==
  ASSUME IInv, NEW p \in Requests, NEW r \in Reports, DeactivateReport(p, r)
  PROVE  IInv'
<1> DEFINE step == IF ComesBack(r) THEN "deactMove" ELSE "deactivate"
           q == [NoReq EXCEPT !.report = r, !.at = rep[r].at]
<1>1. /\ Start(p, step, q, rep[r].orders) /\ UNCHANGED <<order, staged, rep, loose>>
      /\ r \in Existing
  BY DEF DeactivateReport
<1>2. rep \in [Reports -> Report] /\ Reported(r) /\ rep[r].state # "free"
  BY <1>1 DEF IInv, Base, TypeOK, Existing
<1>3. q \in Req /\ q.orders = {} /\ q.report = r /\ q.at \in Repos
  BY <1>2, NoReqFacts DEF Req, Reported
<1>4. step \in {"deactMove", "deactivate"} /\ (step = "deactivate" => rep[r].target \notin Repos)
  BY DEF ComesBack
<1> HIDE DEF q, step
<1>5. step \in Steps \ {"idle"}
  BY <1>4 DEF Steps
<1>6. pc'[p] = step /\ req'[p] = q
  BY <1>1, <1>3, <1>5, GotoFacts DEF Start, IInv, Base
<1>7. rep' \in [Reports -> Report] /\ \A s \in Reports : Stays(s)
  BY <1>1, <1>2 DEF Stays
<1>8. Touches(p)' = rep[r].orders /\ rep[r].orders \subseteq Orders
  BY <1>1, <1>2, <1>3, <1>4, <1>6 DEF Touches, Report
<1>9. Asked(p)'
  BY <1>1, <1>2, <1>3, <1>4, <1>6 DEF Asked, OneOrder, Making, OfReport
<1>10. Counted(p)' /\ Handed(p)'
  BY <1>1, <1>3, <1>4, <1>6 DEF Counted, Handed, Making
<1> QED BY <1>1, <1>3, <1>5, <1>7, <1>8, <1>9, <1>10, StartKeeps

-----------------------------------------------------------------------------
(* Steps that write into orders, or into nothing *)

\* A step that leaves rows and reports alone keeps the invariant when the order it
\* is on is in a repository that is known, and on record if it is on its way.
LEMMA MovesKeep ==
  ASSUME IInv, NEW p \in Requests, NEW step \in Steps, NEW r \in Req, Goto(p, step, r),
         UNCHANGED <<staged, rep, begun, contended, restaged>>,
         order' \in [Orders -> Order],
         \A o \in Orders \ Touches(p) : order'[o] = order[o],
         loose \subseteq loose', loose' \subseteq Orders,
         Touches(p)' \subseteq Touches(p),
         Asked(p)', Counted(p)', Handed(p)',
         \A o \in Touches(p) : order'[o].place = "IN_REPOSITORY" => order'[o].repo \in Repos,
         \A o \in Touches(p) \cap Quiet' : order'[o].place = "IN_CAR" =>
           Between(p, o)' \/ (order[o].place = "IN_CAR" /\ ~Between(p, o))
  PROVE  IInv'
<1> USE DEF IInv, Base
<1>1. /\ pc' \in [Requests -> Steps] /\ req' \in [Requests -> Req]
      /\ \A q \in Requests \ {p} : pc'[q] = pc[q] /\ req'[q] = req[q]
  BY GotoFacts
<1>2. TypeOK'
  BY <1>1 DEF TypeOK
<1>3. Runs(p)
  BY <1>1 DEF Runs, Loses, TypeOK
<1>4. \A s \in Reports : Reported(s)'
  BY DEF Reported
<1>5. UniqueRows' /\ TotalsMatch'
  BY DEF Count, UniqueRows, TotalsMatch, Existing
<1>6. \A o \in Touches(p) \cap Quiet' :
        order'[o].place = "IN_CAR" => Staged(o)' \/ OnLive(o)' \/ Between(p, o)'
  <2> SUFFICES ASSUME NEW o \in Touches(p) \cap Quiet', order[o].place = "IN_CAR", ~Between(p, o)
               PROVE  Staged(o)' \/ OnLive(o)'
    OBVIOUS
  <2>1. o \in Quiet
    BY DEF Quiet
  <2>2. Staged(o) \/ OnLive(o)
    BY <2>1, MyOrders
  <2> QED BY <2>2 DEF Staged, OnLive, RepositoryReportsOf, Existing
<1>7. InRepositoryHasPlace'
  BY DEF InRepositoryHasPlace
<1> QED BY <1>2, <1>3, <1>4, <1>5, <1>6, <1>7, RunKeeps DEF Count

LEMMA StageMoveKeeps ==
  ASSUME IInv, NEW p \in Requests, StageMove(p)
  PROVE  IInv'
<1> USE DEF IInv, Base
<1>1. /\ pc[p] = "stageMove" /\ Goto(p, "stageRow", req[p])
      /\ UNCHANGED <<staged, rep, begun, contended, restaged, loose>>
  BY DEF StageMove, Step
<1>2. /\ pc'[p] = "stageRow" /\ req'[p] = req[p] /\ "stageRow" \in Steps /\ req[p] \in Req
  BY <1>1, GotoFacts DEF Steps, TypeOK
<1>3. Touches(p) = req[p].orders /\ Touches(p)' = Touches(p) /\ Touches(p) \subseteq Orders
  BY <1>1, <1>2, TouchesFacts DEF Touches, OfReport
<1>4. req[p].target # Company => req[p].target \in Repos
  BY <1>1, <1>2, TargetsAssumption DEF Asked, Req, Targets
<1>5. /\ order' \in [Orders -> Order]
      /\ \A o \in Orders \ Touches(p) : order'[o] = order[o]
      /\ \A o \in Touches(p) : order'[o].place # "IN_REPOSITORY"
      /\ \A o \in Touches(p) : order'[o].place = "IN_CAR" => req[p].target \in Repos
  <2>1. CASE req[p].target = Company
    BY <1>2, <1>3, <2>1 DEF StageMove, MoveTo, TypeOK, Order, Places
  <2>2. CASE req[p].target # Company
    BY <1>2, <1>3, <1>4, <2>2 DEF StageMove, MoveTo, TypeOK, Order, Places
  <2> QED BY <2>1, <2>2
<1>6. Asked(p)'
  BY <1>1, <1>2 DEF Asked, OneOrder, Making, OfReport
<1>7. Counted(p)'
  BY <1>1, <1>2 DEF Counted, Count
<1>8. Handed(p)'
  <2>1. req[p].target \in req[p].to
    BY <1>1 DEF Track, Handed
  <2> QED BY <1>2, <1>3, <1>5, <2>1 DEF Handed, Making
<1>9. \A o \in Touches(p) : order'[o].place = "IN_CAR" => Between(p, o)'
  BY <1>2, <1>3, <1>5 DEF Between
<1> QED BY <1>1, <1>2, <1>3, <1>5, <1>6, <1>7, <1>8, <1>9, MovesKeep DEF TypeOK

LEMMA MakeMoveKeeps ==
  ASSUME IInv, NEW p \in Requests, MakeMove(p)
  PROVE  IInv'
<1> USE DEF IInv, Base
<1>1. /\ pc[p] = "makeMove" /\ Goto(p, "makeClear", req[p])
      /\ UNCHANGED <<staged, rep, begun, contended, restaged, loose>>
  BY DEF MakeMove, Step
<1>2. /\ pc'[p] = "makeClear" /\ req'[p] = req[p] /\ "makeClear" \in Steps /\ req[p] \in Req
  BY <1>1, GotoFacts DEF Steps, TypeOK
<1>3. Touches(p) = req[p].orders /\ Touches(p)' = Touches(p) /\ Touches(p) \subseteq Orders
  BY <1>1, <1>2, TouchesFacts DEF Touches, OfReport
<1>4. Asked(p) /\ req[p].listed \subseteq req[p].orders /\ req[p].target = Client
  BY <1>1 DEF Asked, Making
<1>5. /\ order' \in [Orders -> Order]
      /\ \A o \in Orders \ req[p].listed : order'[o] = order[o]
      /\ \A o \in Orders \cap req[p].listed : order'[o].place = "WITH_CLIENT"
  BY DEF MakeMove, MoveTo, TypeOK, Order, Places
<1>6. Asked(p)'
  BY <1>1, <1>2, <1>4 DEF Asked, OneOrder, Making, OfReport
<1>7. Counted(p)'
  BY <1>2 DEF Counted
<1>8. Handed(p)'
  <2>1. Client \notin Repos
    BY TargetsAssumption
  <2>2. Handed(p) /\ contended' = contended /\ staged' = staged
    BY <1>1 DEF Track
  <2>3. \A o \in req[p].listed \cap Quiet' : order'[o].place # "IN_CAR"
    BY <1>5 DEF Quiet
  <2> QED BY <1>1, <1>2, <1>4, <2>1, <2>2, <2>3 DEF Handed, Making, RowsOf
<1>9. ~\E o : Between(p, o)
  BY <1>1 DEF Between
<1>10. \A o \in Orders : order[o].place = "IN_REPOSITORY" => order[o].repo \in Repos
  BY DEF InRepositoryHasPlace
<1>11. \A o \in Touches(p) :
         /\ order'[o].place = "IN_REPOSITORY" => order'[o].repo \in Repos
         /\ order'[o].place = "IN_CAR" => order[o].place = "IN_CAR"
  BY <1>3, <1>5, <1>10
<1>12. \A o \in Orders \ Touches(p) : order'[o] = order[o]
  BY <1>3, <1>4, <1>5
<1> QED BY <1>1, <1>2, <1>3, <1>5, <1>6, <1>7, <1>8, <1>9, <1>11, <1>12, MovesKeep DEF TypeOK

\* A request that ends touches nothing more and owes nothing more.
LEMMA EndFacts ==
  ASSUME IInv, NEW p \in Requests, Goto(p, "idle", NoReq)
  PROVE  /\ pc'[p] = "idle" /\ req'[p] = NoReq /\ "idle" \in Steps /\ NoReq \in Req
         /\ Touches(p)' = {} /\ Asked(p)' /\ Counted(p)' /\ Handed(p)'
<1>1. pc'[p] = "idle" /\ req'[p] = NoReq /\ "idle" \in Steps /\ NoReq \in Req
  BY GotoFacts, NoReqFacts DEF IInv, Base, Steps
<1>2. Touches(p)' = {} /\ Asked(p)'
  BY <1>1, NoReqFacts DEF Touches, Asked, OneOrder, Making, OfReport
<1>3. Counted(p)' /\ Handed(p)'
  BY <1>1 DEF Counted, Handed, Making
<1> QED BY <1>1, <1>2, <1>3

LEMMA ReceiveMoveKeeps ==
  ASSUME IInv, NEW p \in Requests, ReceiveMove(p)
  PROVE  IInv'
<1> USE DEF IInv, Base
<1>1. /\ pc[p] = "receiveMove" /\ Goto(p, "idle", NoReq)
      /\ UNCHANGED <<staged, rep, begun, contended, restaged, loose>>
  BY DEF ReceiveMove, Finish
<1>2. Touches(p) = req[p].orders /\ Touches(p) \subseteq Orders
  BY <1>1, TouchesFacts DEF OfReport
<1>3. req[p].at \in Repos
  BY <1>1 DEF Asked
<1>4. /\ order' \in [Orders -> Order]
      /\ \A o \in Orders \ Touches(p) : order'[o] = order[o]
      /\ \A o \in Touches(p) : order'[o].place = "IN_REPOSITORY" /\ order'[o].repo \in Repos
  BY <1>2, <1>3 DEF ReceiveMove, MoveTo, TypeOK, Order, Places
<1> QED BY <1>1, <1>2, <1>4, EndFacts, MovesKeep DEF TypeOK

LEMMA NumberMoveKeeps ==
  ASSUME IInv, NEW p \in Requests, NumberMove(p)
  PROVE  IInv'
<1> USE DEF IInv, Base
<1>1. /\ pc[p] = "numberMove" /\ Goto(p, "idle", NoReq)
      /\ UNCHANGED <<staged, rep, begun, contended, restaged>>
      /\ loose' = loose \cup req[p].orders
  BY DEF NumberMove, Finish
<1>2. Touches(p) = req[p].orders /\ Touches(p) \subseteq Orders
  BY <1>1, TouchesFacts DEF OfReport
<1>3. req[p].at \in Repos
  BY <1>1 DEF Asked
<1>4. /\ order' \in [Orders -> Order]
      /\ \A o \in Orders \ Touches(p) : order'[o] = order[o]
      /\ \A o \in Touches(p) : order'[o].repo \in Repos
  BY <1>2, <1>3 DEF NumberMove, TypeOK, Order
<1>5. Touches(p) \cap Quiet' = {} /\ loose' \subseteq Orders
  BY <1>1, <1>2 DEF Quiet, TypeOK
<1> QED BY <1>1, <1>2, <1>4, <1>5, EndFacts, MovesKeep

LEMMA ConfirmMoveKeeps ==
  ASSUME IInv, NEW p \in Requests, ConfirmMove(p)
  PROVE  IInv'
<1> USE DEF IInv, Base
<1>1. /\ pc[p] = "confirmMove" /\ Goto(p, "idle", NoReq)
      /\ UNCHANGED <<staged, rep, begun, contended, restaged, loose>>
  BY DEF ConfirmMove, Finish
<1>2. Touches(p) = rep[req[p].report].orders /\ Touches(p) \subseteq Orders
  BY <1>1, TouchesFacts DEF OfReport
<1>3. /\ order' \in [Orders -> Order]
      /\ \A o \in Orders \ Touches(p) : order'[o] = order[o]
      /\ \A o \in Touches(p) : order'[o].place = "WITH_CLIENT"
  BY <1>2 DEF ConfirmMove, TypeOK, Order, Places
<1> QED BY <1>1, <1>2, <1>3, EndFacts, MovesKeep DEF TypeOK

LEMMA RelocateKeeps ==
  ASSUME IInv, NEW p \in Requests, NEW o \in Orders, Relocate(p, o)
  PROVE  IInv'
<1> USE DEF IInv, Base
<1> DEFINE q == [req[p] EXCEPT !.orders = @ \ {o}]
<1>1. /\ pc[p] = "relocate" /\ Goto(p, "relocate", q) /\ o \in req[p].orders
      /\ order' = [order EXCEPT ![o].repo = req[p].at]
      /\ UNCHANGED <<staged, rep, begun, contended, restaged, loose>>
  BY DEF Relocate
<1>2. /\ req[p] \in Req /\ Asked(p) /\ order \in [Orders -> Order]
      /\ "relocate" \in Steps
  BY DEF TypeOK, Steps
<1>3. q \in Req /\ q.orders \subseteq req[p].orders /\ q.at = req[p].at
  BY <1>2 DEF Req
<1> HIDE DEF q
<1>4. pc'[p] = "relocate" /\ req'[p] = q
  BY <1>1, <1>2, <1>3, GotoFacts
<1>5. /\ Touches(p) = req[p].orders /\ Touches(p)' \subseteq Touches(p)
      /\ Touches(p) \subseteq Orders
  BY <1>1, <1>3, <1>4, TouchesFacts DEF Touches, OfReport
<1>6. req[p].at \in Repos
  BY <1>1, <1>2 DEF Asked
<1>7. Asked(p)'
  BY <1>3, <1>4, <1>6 DEF Asked, OneOrder, Making, OfReport
<1>8. Counted(p)' /\ Handed(p)'
  BY <1>4 DEF Counted, Handed, Making
<1>9. ~\E x : Between(p, x)
  BY <1>1 DEF Between
<1>10. \A x \in Orders : order[x].place = "IN_REPOSITORY" => order[x].repo \in Repos
  BY DEF InRepositoryHasPlace
<1>11. /\ order' \in [Orders -> Order]
       /\ \A x \in Orders \ Touches(p) : order'[x] = order[x]
       /\ \A x \in Orders : order'[x].place = order[x].place
       /\ \A x \in Orders : order'[x].repo \in {req[p].at, order[x].repo}
  BY <1>1, <1>2, <1>5, <1>6 DEF Order
<1>12. \A x \in Touches(p) :
         /\ order'[x].place = "IN_REPOSITORY" => order'[x].repo \in Repos
         /\ order'[x].place = "IN_CAR" => order[x].place = "IN_CAR"
  BY <1>5, <1>6, <1>10, <1>11
<1> QED BY <1>1, <1>2, <1>3, <1>5, <1>7, <1>8, <1>9, <1>11, <1>12, MovesKeep DEF TypeOK

LEMMA RelocatedKeeps ==
  ASSUME IInv, NEW p \in Requests, Relocated(p)
  PROVE  IInv'
<1>1. /\ pc[p] = "relocate" /\ Goto(p, "idle", NoReq)
      /\ UNCHANGED <<order, staged, rep, begun, contended, restaged, loose>>
  BY DEF Relocated, Finish
<1>2. Touches(p) \subseteq Orders
  BY TouchesFacts DEF IInv
<1>3. ~\E o : Between(p, o)
  BY <1>1 DEF Between
<1> QED BY <1>1, <1>2, <1>3, EndFacts, MovesKeep DEF IInv, Base, TypeOK, InRepositoryHasPlace

LEMMA DeactMoveKeeps ==
  ASSUME IInv, NEW p \in Requests, DeactMove(p)
  PROVE  IInv'
<1> USE DEF IInv, Base
<1>1. /\ pc[p] = "deactMove" /\ Goto(p, "deactivate", req[p])
      /\ UNCHANGED <<staged, rep, begun, contended, restaged, loose>>
  BY DEF DeactMove, Step
<1>2. /\ pc'[p] = "deactivate" /\ req'[p] = req[p] /\ "deactivate" \in Steps /\ req[p] \in Req
  BY <1>1, GotoFacts DEF Steps, TypeOK
<1>3. /\ Touches(p) = rep[req[p].report].orders /\ Touches(p)' = Touches(p)
      /\ Touches(p) \subseteq Orders
  BY <1>1, <1>2, TouchesFacts DEF Touches, OfReport
<1>4. Asked(p) /\ req[p].at \in Repos
  BY <1>1 DEF Asked
<1>5. /\ order' \in [Orders -> Order]
      /\ \A o \in Orders \ Touches(p) : order'[o] = order[o]
      /\ \A o \in Touches(p) : order'[o].place = "IN_REPOSITORY" /\ order'[o].repo \in Repos
  BY <1>3, <1>4 DEF DeactMove, Back, TypeOK, Order, Places
<1>6. Asked(p)'
  BY <1>1, <1>2, <1>4 DEF Asked, OneOrder, Making, OfReport
<1>7. Counted(p)'
  BY <1>2 DEF Counted
<1>8. Handed(p)'
  BY <1>1, <1>2, <1>3, <1>5 DEF Handed, Making
<1> QED BY <1>1, <1>2, <1>3, <1>5, <1>6, <1>7, <1>8, MovesKeep DEF TypeOK

\* A request that stops leaves its orders loose.
LEMMA StopKeeps ==
  ASSUME IInv, NEW p \in Requests, Stop(p)
  PROVE  IInv'
<1>1. /\ Goto(p, "idle", NoReq) /\ loose' = loose \cup Touches(p)
      /\ UNCHANGED <<order, staged, rep, begun, contended, restaged>>
  BY DEF Stop, Finish
<1>2. Touches(p) \subseteq Orders /\ Touches(p) \cap Quiet' = {}
  BY <1>1, TouchesFacts DEF IInv, Quiet
<1> QED BY <1>1, <1>2, EndFacts, MovesKeep DEF IInv, Base, TypeOK, InRepositoryHasPlace

-----------------------------------------------------------------------------
(* Steps that write rows *)

\* Rows of a request's own orders come or go: totals and orders stay.
LEMMA RowsChange ==
  ASSUME IInv, NEW p \in Requests, NEW step \in Steps, NEW r \in Req, Goto(p, step, r),
         UNCHANGED <<order, rep, begun, contended>>,
         restaged \subseteq restaged', restaged' \subseteq Orders,
         loose \subseteq loose', loose' \subseteq Orders,
         staged' \subseteq StagedRow, IsFiniteSet(staged'),
         \A x : x.order \notin Touches(p) => (x \in staged' <=> x \in staged),
         Touches(p)' \subseteq Touches(p),
         Asked(p)', Counted(p)', Handed(p)', UniqueRows',
         \A o \in Touches(p) \cap Quiet' : order[o].place = "IN_CAR" =>
           Staged(o)' \/ OnLive(o) \/ Between(p, o)'
  PROVE  IInv'
<1> USE DEF IInv, Base
<1>1. /\ pc' \in [Requests -> Steps] /\ req' \in [Requests -> Req]
      /\ \A q \in Requests \ {p} : pc'[q] = pc[q] /\ req'[q] = req[q]
  BY GotoFacts
<1>2. TypeOK'
  BY <1>1 DEF TypeOK
<1>3. Runs(p)
  BY <1>1 DEF Runs, Loses, TypeOK
<1>4. \A s \in Reports : Reported(s)'
  BY DEF Reported
<1>5. TotalsMatch' /\ InRepositoryHasPlace'
  BY DEF Count, TotalsMatch, Existing, InRepositoryHasPlace
<1>6. \A o : OnLive(o) => OnLive(o)'
  BY DEF OnLive, RepositoryReportsOf, Existing
<1> QED BY <1>2, <1>3, <1>4, <1>5, <1>6, RunKeeps

LEMMA StageRowKeeps ==
  ASSUME IInv, NEW p \in Requests, StageRow(p)
  PROVE  IInv'
<1> USE DEF IInv, Base
<1>1. /\ pc[p] = "stageRow" /\ Goto(p, "idle", NoReq)
      /\ UNCHANGED <<order, rep, begun, contended, loose>>
  BY DEF StageRow
<1>2. PICK o \in Orders : req[p].orders = {o}
  BY <1>1 DEF Asked, OneOrder
<1>3. /\ req[p].at \in Repos /\ req[p].to \subseteq Targets
      /\ req[p].target \in req[p].to
  BY <1>1 DEF Asked, TypeOK, Req, Track, Handed
<1> DEFINE x == NewRow(o, req[p].at, req[p].to)
<1>4. staged' = staged \cup {x}
  BY <1>2 DEF StageRow
<1>5. x \in StagedRow /\ x.order = o /\ x.to = req[p].to
  <2> DEFINE Same == {y \in staged : y.order = o /\ y.at = req[p].at /\ y.to = req[p].to}
  <2>1. Same \in SUBSET staged
    OBVIOUS
  <2>2. Cardinality(Same) \in Nat
    BY <2>1, FS_Subset, FS_CardinalityType
  <2> HIDE DEF Same
  <2>3. x = [order |-> o, at |-> req[p].at, to |-> req[p].to, copy |-> Cardinality(Same)]
    BY DEF NewRow, Same
  <2> QED BY <1>3, <2>2, <2>3 DEF StagedRow
<1> HIDE DEF x
<1>6. staged' \subseteq StagedRow /\ IsFiniteSet(staged')
  BY <1>4, <1>5, FS_AddElement DEF TypeOK
<1>7. Touches(p) = {o}
  BY <1>1, <1>2, TouchesFacts DEF OfReport
<1>8. /\ restaged \subseteq restaged' /\ restaged' \subseteq Orders
      /\ (\E y \in staged : y.order = o /\ y.to \cap x.to # {}) => o \in restaged'
  BY <1>2, <1>5 DEF StageRow, TypeOK
<1>9. UniqueRows'
  BY <1>4, <1>5, <1>8 DEF Count, UniqueRows
<1>10. ASSUME o \in Quiet, order[o].place = "IN_CAR" PROVE Staged(o)'
  <2>1. req[p].target \in Repos
    BY <1>1, <1>2, <1>10 DEF Track, Handed
  <2> QED BY <1>3, <1>4, <1>5, <2>1 DEF Staged
<1>11. \A y : y.order \notin Touches(p) => (y \in staged' <=> y \in staged)
  BY <1>4, <1>5, <1>7
<1>12. Quiet' = Quiet /\ loose' \subseteq Orders
  BY <1>1 DEF Quiet, TypeOK
<1> QED BY <1>1, <1>6, <1>7, <1>8, <1>9, <1>10, <1>11, <1>12, EndFacts, RowsChange

LEMMA MakeClearKeeps ==
  ASSUME IInv, NEW p \in Requests, MakeClear(p)
  PROVE  IInv'
<1> USE DEF IInv, Base
<1>1. /\ pc[p] = "makeClear" /\ Goto(p, "idle", NoReq)
      /\ staged' = staged \ ClearedRows(p)
      /\ UNCHANGED <<order, rep, begun, contended, restaged>>
  BY DEF MakeClear, Finish
<1>2. Touches(p) = req[p].orders
  BY <1>1, TouchesFacts DEF OfReport
<1>3. staged' \subseteq StagedRow /\ IsFiniteSet(staged') /\ UniqueRows'
  BY <1>1, FS_Subset DEF TypeOK, Count, UniqueRows
<1>4. \A x : x.order \notin Touches(p) => (x \in staged' <=> x \in staged)
  BY <1>1, <1>2 DEF ClearedRows, RowsOf
<1>5. /\ loose \subseteq loose' /\ loose' \subseteq Orders
      /\ \A x \in ClearedRows(p) :
           req[p].target = Company /\ x.to \cap Repos # {} => x.order \in loose'
  BY DEF MakeClear, TypeOK, ClearedRows, RowsOf, StagedRow
<1>6. ASSUME NEW o \in Touches(p) \cap Quiet', order[o].place = "IN_CAR", ~OnLive(o)
      PROVE  Staged(o)'
  <2>1. o \in Quiet
    BY <1>1, <1>5, <1>6 DEF Quiet
  <2>2. PICK x \in staged : x.order = o /\ x.to \cap Repos # {}
    BY <1>1, <1>6, <2>1, MyOrders DEF Between, Staged
  <2>3. x \notin ClearedRows(p)
    <3> SUFFICES ASSUME x \in ClearedRows(p) PROVE FALSE
      OBVIOUS
    <3>1. x \in RowsOf(req[p].orders, req[p].at, req[p].target)
      BY DEF ClearedRows
    <3>2. Handed(p)
      BY DEF Track
    <3>3. o \in req[p].listed
      BY <1>1, <2>1, <2>2, <3>1, <3>2 DEF Handed, Making, Quiet
    <3>4. req[p].target # Company
      BY <1>5, <1>6, <2>2 DEF Quiet
    <3>5. req[p].target \in Repos \cup {Client}
      BY <3>4, TargetsAssumption DEF TypeOK, Req, Targets
    <3> QED BY <1>1, <1>6, <2>1, <3>2, <3>3, <3>5 DEF Handed
  <2> QED BY <1>1, <2>2, <2>3 DEF Staged
<1> QED BY <1>1, <1>3, <1>4, <1>5, <1>6, EndFacts, RowsChange DEF TypeOK

LEMMA ReceiveClearKeeps ==
  ASSUME IInv, NEW p \in Requests, ReceiveClear(p)
  PROVE  IInv'
<1> USE DEF IInv, Base
<1>1. /\ pc[p] = "receiveClear" /\ Goto(p, "receiveMove", req[p])
      /\ UNCHANGED <<order, rep, begun, contended, restaged, loose>>
  BY DEF ReceiveClear, Step
<1>2. /\ pc'[p] = "receiveMove" /\ req'[p] = req[p] /\ "receiveMove" \in Steps /\ req[p] \in Req
  BY <1>1, GotoFacts DEF Steps, TypeOK
<1>3. Touches(p) = req[p].orders /\ Touches(p)' = Touches(p)
  BY <1>1, <1>2, TouchesFacts DEF Touches, OfReport
<1>4. staged' \subseteq staged
  BY DEF ReceiveClear
<1>5. staged' \subseteq StagedRow /\ IsFiniteSet(staged') /\ UniqueRows'
  BY <1>1, <1>4, FS_Subset DEF TypeOK, Count, UniqueRows
<1>6. \A x : x.order \notin Touches(p) => (x \in staged' <=> x \in staged)
  BY <1>3 DEF ReceiveClear
<1>7. Asked(p)'
  BY <1>1, <1>2 DEF Asked, OneOrder, Making, OfReport
<1>8. Counted(p)' /\ Handed(p)'
  BY <1>2 DEF Counted, Handed, Making
<1>9. \A o \in Touches(p) : Between(p, o)'
  BY <1>2, <1>3 DEF Between
<1>10. restaged' \subseteq Orders /\ loose' \subseteq Orders
  BY <1>1 DEF TypeOK
<1> QED BY <1>1, <1>2, <1>3, <1>5, <1>6, <1>7, <1>8, <1>9, <1>10, RowsChange

-----------------------------------------------------------------------------
(* Steps that write reports *)

\* Reports change: rows and orders stay.
LEMMA ReportsChange ==
  ASSUME IInv, NEW p \in Requests, NEW step \in Steps, NEW r \in Req, Goto(p, step, r),
         UNCHANGED <<order, staged, begun, contended, restaged, loose>>,
         rep' \in [Reports -> Report],
         \A s \in Reports : Loses(s, Touches(p)),
         \A s \in Reports : Reported(s)' /\ (rep'[s].state = "free" => rep'[s] = FreeReport),
         Touches(p)' \subseteq Touches(p),
         Asked(p)', Counted(p)', Handed(p)', TotalsMatch',
         \A o \in Touches(p) \cap Quiet : order[o].place = "IN_CAR" =>
           Staged(o) \/ OnLive(o)' \/ Between(p, o)'
  PROVE  IInv'
<1> USE DEF IInv, Base
<1>1. /\ pc' \in [Requests -> Steps] /\ req' \in [Requests -> Req]
      /\ \A q \in Requests \ {p} : pc'[q] = pc[q] /\ req'[q] = req[q]
  BY GotoFacts
<1>2. TypeOK'
  BY <1>1 DEF TypeOK
<1>3. Runs(p)
  BY <1>1 DEF Runs
<1>4. UniqueRows' /\ InRepositoryHasPlace' /\ Quiet' = Quiet
  BY DEF Count, UniqueRows, InRepositoryHasPlace, Quiet
<1>5. \A o : Staged(o) => Staged(o)'
  BY DEF Staged
<1> QED BY <1>2, <1>3, <1>4, <1>5, RunKeeps

LEMMA CreateReportKeeps ==
  ASSUME IInv, NEW p \in Requests, NEW r \in Reports, CreateReport(p, r)
  PROVE  IInv'
<1> USE DEF IInv, Base
<1> DEFINE new == [state |-> "live", target |-> req[p].target, orders |-> req[p].listed,
                   listed |-> req[p].listed, count |-> req[p].count, at |-> req[p].at,
                   confirmed |-> FALSE]
           q == [req[p] EXCEPT !.report = r]
           step == IF req[p].target = Client THEN "makeMove" ELSE "makeClear"
<1>1. /\ pc[p] = "make" /\ rep[r].state = "free" /\ Goto(p, step, q)
      /\ rep' = [rep EXCEPT ![r] = new]
      /\ UNCHANGED <<order, staged, begun, contended, restaged, loose>>
  BY DEF CreateReport
<1>2. /\ Asked(p) /\ req[p] \in Req /\ rep \in [Reports -> Report]
      /\ rep[r].orders = {} /\ rep[r].listed = {}
  BY <1>1 DEF TypeOK, FreeReport
<1>3. /\ req[p].listed \subseteq req[p].orders /\ IsFiniteSet(req[p].listed)
      /\ req[p].at \in Repos
  BY <1>1, <1>2 DEF Asked, Making
<1>4. new \in Report
  BY <1>2 DEF Report, Req
<1>5. /\ q \in Req /\ q.orders = req[p].orders /\ q.listed = req[p].listed
      /\ q.at = req[p].at /\ q.target = req[p].target
  BY <1>2 DEF Req
<1>6. /\ step \in {"makeMove", "makeClear"} /\ step \in Steps
      /\ step = "makeMove" => req[p].target = Client
      /\ step = "makeClear" => req[p].target # Client
  BY DEF Steps
<1>7. /\ new.state = "live" /\ new.target = req[p].target /\ new.orders = req[p].listed
      /\ new.listed = req[p].listed /\ new.count = req[p].count /\ new.at = req[p].at
  OBVIOUS
<1> HIDE DEF new, q, step
<1>8. pc'[p] = step /\ req'[p] = q
  BY <1>1, <1>5, <1>6, GotoFacts
<1>9. Touches(p) = req[p].orders /\ Touches(p)' = Touches(p)
  BY <1>1, <1>5, <1>6, <1>8, TouchesFacts DEF Touches, OfReport
<1>10. /\ rep' \in [Reports -> Report] /\ rep'[r] = new
       /\ \A s \in Reports \ {r} : rep'[s] = rep[s]
  BY <1>1, <1>2, <1>4
<1>11. \A s \in Reports : Loses(s, Touches(p))
  BY <1>1, <1>2, <1>3, <1>7, <1>9, <1>10 DEF Loses
<1>12. \A s \in Reports : Reported(s)' /\ (rep'[s].state = "free" => rep'[s] = FreeReport)
  BY <1>3, <1>7, <1>10 DEF Reported, TypeOK
<1>13. Asked(p)'
  BY <1>3, <1>5, <1>6, <1>8 DEF Asked, OneOrder, Making, OfReport
<1>14. Counted(p)'
  BY <1>6, <1>8 DEF Counted
<1>15. TotalsMatch'
  <2>1. req[p].listed \cap restaged = {} => req[p].count = Cardinality(req[p].listed)
    BY <1>1 DEF Count, Counted
  <2> QED BY <1>1, <1>7, <1>10, <2>1 DEF Count, TotalsMatch, Existing
<1>16. req[p].target \in Repos => \A o \in req[p].listed : OnLive(o)'
  BY <1>7, <1>10 DEF OnLive, RepositoryReportsOf, Existing
<1>17. Handed(p)'
  <2>1. \A x \in RowsOf(req[p].orders, req[p].at, req[p].target) :
          x.order \in req[p].listed \cup contended
    BY <1>1 DEF Track, Handed, Making
  <2> QED BY <1>1, <1>5, <1>6, <1>8, <1>16, <2>1 DEF Handed, Making, RowsOf
<1>18. \A o \in Touches(p) \cap Quiet : order[o].place = "IN_CAR" => Staged(o) \/ OnLive(o)'
  <2>1. \A o : OnLive(o) => OnLive(o)'
    BY <1>1, <1>10 DEF OnLive, RepositoryReportsOf, Existing
  <2> QED BY <1>1, <2>1, MyOrders DEF Between
<1> QED BY <1>1, <1>5, <1>6, <1>9, <1>10, <1>11, <1>12, <1>13, <1>14, <1>15, <1>17, <1>18,
           ReportsChange

\* An order leaves its report, and the report's count goes with it.
LEMMA RemoveKeeps ==
  ASSUME IInv, NEW p \in Requests, RemoveOrderFromRepositoryReport(p)
  PROVE  IInv'
<1> USE DEF IInv, Base
<1> DEFINE r == req[p].report
           new == Decremented(p, r)
           step == IF req[p].number THEN "numberMove" ELSE "receiveClear"
<1>1. /\ pc[p] = "remove" /\ r \in Existing /\ Goto(p, step, req[p])
      /\ rep' = [rep EXCEPT ![r] = new]
      /\ UNCHANGED <<order, staged, begun, contended, restaged, loose>>
  BY DEF RemoveOrderFromRepositoryReport, Step
<1>2. /\ Asked(p) /\ req[p] \in Req /\ rep \in [Reports -> Report] /\ r \in Reports
  BY <1>1 DEF TypeOK, Existing
<1>3. PICK o \in Orders : req[p].orders = {o}
  BY <1>1, <1>2 DEF Asked, OneOrder
<1>4. /\ new \in Report
      /\ new.state = rep[r].state /\ new.target = rep[r].target
      /\ new.orders = rep[r].orders \ {o} /\ new.listed = rep[r].listed
      /\ new.count = rep[r].count - 1 /\ new.at = rep[r].at
  <2>1. rep[r] \in Report /\ rep[r].count \in Int /\ rep[r].orders \in SUBSET Orders
    BY <1>2 DEF Report
  <2>2. new = [[rep[r] EXCEPT !.orders = @ \ {o}] EXCEPT !.count = @ - 1]
    BY <1>3, <2>1 DEF Decremented, Report
  <2> DEFINE less == [rep[r] EXCEPT !.orders = @ \ {o}]
  <2>3. /\ less \in Report /\ less.orders = rep[r].orders \ {o}
        /\ less.state = rep[r].state /\ less.target = rep[r].target
        /\ less.listed = rep[r].listed /\ less.count = rep[r].count /\ less.at = rep[r].at
    BY <2>1 DEF Report
  <2>4. less.count - 1 \in Int
    BY <2>1, <2>3
  <2>5. new = [less EXCEPT !.count = @ - 1]
    BY <2>2
  <2> HIDE DEF new, less
  <2> QED BY <2>3, <2>4, <2>5 DEF Report
<1>5. step \in {"numberMove", "receiveClear"} /\ step \in Steps
  BY DEF Steps
<1> HIDE DEF new, step
<1>6. pc'[p] = step /\ req'[p] = req[p]
  BY <1>1, <1>2, <1>5, GotoFacts
<1>7. Touches(p) = {o} /\ Touches(p)' = {o}
  BY <1>1, <1>3, <1>5, <1>6, TouchesFacts DEF Touches, OfReport
<1>8. /\ rep' \in [Reports -> Report] /\ rep'[r] = new
      /\ \A s \in Reports \ {r} : rep'[s] = rep[s]
  BY <1>1, <1>2, <1>4
<1>9. rep[r].state # "free"
  BY <1>1 DEF Existing
<1>10. \A s \in Reports : Loses(s, Touches(p))
  BY <1>4, <1>7, <1>8, <1>9 DEF Loses
<1>15. \A s \in Reports : Reported(s)' /\ (rep'[s].state = "free" => rep'[s] = FreeReport)
  BY <1>4, <1>8, <1>9 DEF Reported, TypeOK
<1>11. Asked(p)'
  BY <1>1, <1>2, <1>5, <1>6 DEF Asked, OneOrder, Making, OfReport
<1>12. Counted(p)' /\ Handed(p)'
  BY <1>5, <1>6 DEF Counted, Handed, Making
<1>13. TotalsMatch'
  <2>1. \A s \in Existing \ {r} : rep[s].listed \cap (contended \cup restaged) = {} =>
          rep[s].count = Cardinality(rep[s].orders)
    BY DEF Count, TotalsMatch
  <2>2. rep[r].listed \cap (contended \cup restaged) = {} => new.count = Cardinality(new.orders)
    <3> SUFFICES ASSUME rep[r].listed \cap (contended \cup restaged) = {}
                 PROVE  new.count = Cardinality(new.orders)
      OBVIOUS
    <3>1. rep[r].count = Cardinality(rep[r].orders)
      BY <1>1 DEF Count, TotalsMatch
    <3>2. o \in rep[r].orders
      <4>1. o \in rep[r].listed
        BY <1>1, <1>2, <1>3 DEF Asked
      <4> QED BY <1>1, <1>3, <4>1 DEF Count, Counted
    <3>3. IsFiniteSet(rep[r].orders)
      BY <1>2, FS_Subset DEF Reported
    <3> QED BY <1>4, <3>1, <3>2, <3>3, FS_RemoveElement
  <2>3. Existing' = Existing
    BY <1>4, <1>8 DEF Existing
  <2> SUFFICES ASSUME NEW s \in Existing, rep'[s].listed \cap (contended \cup restaged) = {}
               PROVE  rep'[s].count = Cardinality(rep'[s].orders)
    BY <1>1, <2>3 DEF TotalsMatch
  <2>4. CASE s = r
    BY <1>4, <1>8, <2>2, <2>4
  <2>5. CASE s # r
    BY <1>8, <2>1, <2>5 DEF Existing
  <2> QED BY <2>4, <2>5
<1>14. \A x \in Touches(p) : Between(p, x)'
  BY <1>3, <1>5, <1>6, <1>7 DEF Between
<1> QED BY <1>1, <1>2, <1>5, <1>7, <1>8, <1>10, <1>11, <1>12, <1>13, <1>14, <1>15, ReportsChange

LEMMA DeactivateKeeps ==
  ASSUME IInv, NEW p \in Requests, Deactivate(p)
  PROVE  IInv'
<1> USE DEF IInv, Base
<1> DEFINE r == req[p].report
           new == [rep[r] EXCEPT !.state = "deleted"]
<1>1. /\ pc[p] = "deactivate" /\ r \in Existing /\ Goto(p, "idle", NoReq)
      /\ rep' = [rep EXCEPT ![r] = new]
      /\ UNCHANGED <<order, staged, begun, contended, restaged, loose>>
  BY DEF Deactivate, Finish
<1>2. rep \in [Reports -> Report] /\ r \in Reports /\ rep[r].state \in {"live", "deleted"}
  BY <1>1 DEF TypeOK, Existing
<1>3. /\ new \in Report
      /\ new.state = "deleted" /\ new.target = rep[r].target /\ new.orders = rep[r].orders
      /\ new.listed = rep[r].listed /\ new.count = rep[r].count /\ new.at = rep[r].at
  BY <1>2 DEF Report
<1> HIDE DEF new
<1>4. Touches(p) = rep[r].orders
  BY <1>1, TouchesFacts DEF OfReport
<1>5. /\ rep' \in [Reports -> Report] /\ rep'[r] = new
      /\ \A s \in Reports \ {r} : rep'[s] = rep[s]
  BY <1>1, <1>2, <1>3
<1>6. \A s \in Reports : Loses(s, Touches(p))
  BY <1>2, <1>3, <1>4, <1>5 DEF Loses
<1>9. \A s \in Reports : Reported(s)' /\ (rep'[s].state = "free" => rep'[s] = FreeReport)
  BY <1>2, <1>3, <1>5 DEF Reported, TypeOK
<1>7. TotalsMatch'
  BY <1>1, <1>2, <1>3, <1>5 DEF Count, TotalsMatch, Existing
<1>8. ASSUME NEW o \in Touches(p) \cap Quiet, order[o].place = "IN_CAR", ~Staged(o)
      PROVE  OnLive(o)'
  <2>1. OnLive(o)
    BY <1>1, <1>8, MyOrders DEF Between
  <2>2. rep[r].target \notin Repos
    BY <1>1, <1>4, <1>8 DEF Track, Handed
  <2> QED BY <1>5, <2>1, <2>2 DEF OnLive, RepositoryReportsOf, Existing
<1> QED BY <1>1, <1>5, <1>6, <1>7, <1>8, <1>9, EndFacts, ReportsChange

-----------------------------------------------------------------------------
(* Writes to a report that are one statement *)

\* What becomes of report s: it keeps its orders, or they are off the trail.
Remains(s) ==
  /\ rep'[s].target = rep[s].target /\ rep'[s].listed = rep[s].listed
  /\ rep'[s].count = rep[s].count /\ rep'[s].at = rep[s].at
  /\ rep'[s].state = "free" <=> rep[s].state = "free"
  /\ rep[s].state = "free" => rep'[s] = rep[s]
  /\ rep'[s].state \in {"live", "deleted"} =>
       rep[s].state \in {"live", "deleted"} /\ rep'[s].orders = rep[s].orders
  /\ rep'[s].orders \subseteq rep[s].orders
  /\ rep[s].state = "live" => rep'[s].state = "live" \/ rep[s].orders \subseteq loose'

LEMMA ReportAlone ==
  ASSUME IInv, UNCHANGED <<order, staged, pc, req, begun, contended, restaged>>,
         loose \subseteq loose', loose' \subseteq Orders,
         rep' \in [Reports -> Report], \A s \in Reports : Remains(s)
  PROVE  IInv'
<1> USE DEF IInv, Base
<1>1. TypeOK' /\ (\A s \in Reports : Reported(s)') /\ IsFiniteSet(staged)'
  BY DEF TypeOK, Reported, Remains
<1>2. \A q \in Requests : Asked(q)' /\ Touches(q)' \subseteq Touches(q)
  BY DEF Asked, Touches, OfReport, Remains
<1>3. Apart'
  BY <1>2 DEF Apart
<1>4. Existing' \subseteq Existing /\ Quiet' \subseteq Quiet
  BY DEF Existing, Remains, Quiet
<1>5. UniqueRows' /\ InRepositoryHasPlace'
  BY DEF Count, UniqueRows, InRepositoryHasPlace
<1>6. TotalsMatch'
  BY <1>4 DEF Count, TotalsMatch, Remains, Existing
<1>7. \A q \in Requests : Counted(q)'
  <2> SUFFICES ASSUME NEW q \in Requests PROVE Counted(q)'
    OBVIOUS
  <2>1. Counted(q)
    BY DEF Count
  <2>2. \A s \in Existing' : s \in Existing /\ rep'[s].orders = rep[s].orders
    BY <1>4 DEF Existing, Remains
  <2> QED BY <2>1, <2>2 DEF Counted
<1>8. \A o \in Quiet' : OnLive(o) => OnLive(o)'
  BY DEF OnLive, RepositoryReportsOf, Existing, Remains, Quiet
<1>9. \A q \in Requests : Handed(q)'
  <2> SUFFICES ASSUME NEW q \in Requests PROVE Handed(q)'
    OBVIOUS
  <2>1. Handed(q) /\ Asked(q)
    BY DEF Track
  <2>2. pc[q] = "deactivate" => req[q].report \in Reports
    BY <2>1 DEF Asked, OfReport
  <2> QED BY <1>4, <1>8, <2>1, <2>2 DEF Handed, Remains, RowsOf
<1>10. OnRecord'
  <2>1. \A o : Staged(o)' = Staged(o)
    BY DEF Staged
  <2>2. \A o : \A q \in Requests : Between(q, o)' = Between(q, o)
    BY DEF Between
  <2> QED BY <1>4, <1>8, <2>1, <2>2 DEF Track, OnRecord
<1> QED BY <1>1, <1>2, <1>3, <1>5, <1>6, <1>7, <1>9, <1>10 DEF Count, Track

\* Confirmed by an employee, or taken back.
LEMMA ConfirmedKeeps ==
  ASSUME IInv, NEW p \in Requests, NEW r \in Reports, NEW yes \in BOOLEAN,
         UpdateReport(p, r, yes), ~(yes /\ rep[r].target = Client)
  PROVE  IInv'
<1>1. rep \in [Reports -> Report] /\ loose \subseteq Orders
  BY DEF IInv, Base, TypeOK
<1>2. /\ UNCHANGED <<order, staged, pc, req, begun, contended, restaged, loose>>
      /\ r \in Existing /\ rep' = [rep EXCEPT ![r].confirmed = yes]
  BY DEF UpdateReport
<1>3. rep' \in [Reports -> Report] /\ \A s \in Reports : Remains(s)
  BY <1>1, <1>2 DEF Remains, Report, Existing
<1> QED BY <1>1, <1>2, <1>3, ReportAlone

LEMMA ReactivateKeeps ==
  ASSUME IInv, NEW r \in Reports, ReactivateReport(r)
  PROVE  IInv'
<1>1. rep \in [Reports -> Report] /\ loose \subseteq Orders
  BY DEF IInv, Base, TypeOK
<1>2. /\ UNCHANGED <<order, staged, pc, req, begun, contended, restaged, loose>>
      /\ r \in Existing /\ rep' = [rep EXCEPT ![r].state = "live"]
  BY DEF ReactivateReport
<1>3. rep' \in [Reports -> Report] /\ \A s \in Reports : Remains(s)
  BY <1>1, <1>2 DEF Remains, Report, Existing
<1> QED BY <1>1, <1>2, <1>3, ReportAlone

LEMMA DeleteKeeps ==
  ASSUME IInv, NEW r \in Reports, DeleteReport(r)
  PROVE  IInv'
<1> DEFINE new == [[rep[r] EXCEPT !.state = "gone"] EXCEPT !.orders = {}]
<1>1. rep \in [Reports -> Report] /\ loose \subseteq Orders
  BY DEF IInv, Base, TypeOK
<1>2. /\ UNCHANGED <<order, staged, pc, req, begun, contended, restaged>>
      /\ loose' = loose \cup rep[r].orders
      /\ r \in Existing /\ rep' = [rep EXCEPT ![r] = new]
  BY DEF DeleteReport
<1>3. rep[r] \in Report /\ rep[r].orders \subseteq Orders
  BY <1>1 DEF Report
<1>4. /\ new \in Report /\ new.state = "gone" /\ new.orders = {}
      /\ new.target = rep[r].target /\ new.listed = rep[r].listed
      /\ new.count = rep[r].count /\ new.at = rep[r].at
  BY <1>3 DEF Report
<1> HIDE DEF new
<1>5. /\ rep' \in [Reports -> Report] /\ rep'[r] = new
      /\ \A s \in Reports \ {r} : rep'[s] = rep[s]
  BY <1>1, <1>2, <1>4
<1>6. \A s \in Reports : Remains(s)
  BY <1>2, <1>4, <1>5 DEF Remains, Existing
<1> QED BY <1>1, <1>2, <1>3, <1>5, <1>6, ReportAlone

-----------------------------------------------------------------------------
(* The invariant *)

LEMMA InitIInv ==
  ASSUME Init
  PROVE  IInv
<1>1. PICK at \in Repos : order = [o \in Orders |-> [place |-> "IN_REPOSITORY", repo |-> at]]
  BY DEF Init
<1>2. /\ \A o \in Orders : order[o].place = "IN_REPOSITORY" /\ order[o].repo = at
      /\ order \in [Orders -> Order]
  BY <1>1 DEF Order, Places
<1>3. \A r \in Reports : rep[r] = FreeReport
  BY DEF Init
<1>4. \A p \in Requests : pc[p] = "idle" /\ req[p] = NoReq
  BY DEF Init
<1>5. FreeReport \in Report /\ FreeReport.state = "free" /\ FreeReport.orders = {}
      /\ FreeReport.listed = {}
  BY TargetsAssumption DEF FreeReport, Report, Targets
<1>6. TypeOK
  BY <1>2, <1>3, <1>5, NoReqFacts, MaxBegunAssumption DEF Init, TypeOK, Steps
<1>7. \A r \in Reports : Reported(r)
  BY <1>3, <1>5, FS_EmptySet DEF Reported
<1>8. \A p \in Requests : Asked(p) /\ Counted(p) /\ Handed(p) /\ Touches(p) = {}
  BY <1>4, NoReqFacts DEF Asked, Counted, Handed, Touches, OneOrder, Making, OfReport
<1>9. Base
  BY <1>6, <1>7, <1>8, FS_EmptySet DEF Init, Base, Apart
<1>10. Count
  BY <1>3, <1>5, <1>8 DEF Init, Count, UniqueRows, TotalsMatch, Existing
<1>11. Track /\ InRepositoryHasPlace
  BY <1>2, <1>8 DEF Track, OnRecord, Quiet, InRepositoryHasPlace
<1> QED BY <1>9, <1>10, <1>11 DEF IInv

LEMMA NextIInv ==
  ASSUME IInv, [Next]_vars
  PROVE  IInv'
<1>1. CASE UNCHANGED vars
  BY <1>1 DEF vars, IInv, Base, Count, Track, TypeOK, Asked, Reported, Apart, Touches, UniqueRows,
     Counted, TotalsMatch, Existing, OnRecord, Quiet, Staged, OnLive, RepositoryReportsOf, Between,
     Handed, RowsOf, InRepositoryHasPlace
<1>2. ASSUME NEW p \in Requests, NEW at \in Repos, Desk(p, at) PROVE IInv'
  BY <1>2, SaveOrderInCacheKeeps, SaveAndCreateReportKeeps, ReceiveKeeps DEF Desk
<1>3. ASSUME NEW p \in Requests, NEW r \in Reports,
             \/ \E at \in Repos : MoveReport(p, r, at)
             \/ CreateReport(p, r)
             \/ \E yes \in BOOLEAN : UpdateReport(p, r, yes)
             \/ DeactivateReport(p, r)
      PROVE  IInv'
  BY <1>3, MoveReportKeeps, CreateReportKeeps, UpdateReportKeeps, ConfirmedKeeps,
     DeactivateReportKeeps
<1>4. ASSUME NEW p \in Requests, (\E o \in Orders : Relocate(p, o)) \/ Relocated(p) PROVE IInv'
  BY <1>4, RelocateKeeps, RelocatedKeeps
<1>5. ASSUME NEW p \in Requests, StageMove(p) \/ StageRow(p) \/ MakeMove(p) \/ MakeClear(p)
      PROVE  IInv'
  BY <1>5, StageMoveKeeps, StageRowKeeps, MakeMoveKeeps, MakeClearKeeps
<1>6. ASSUME NEW p \in Requests,
             \/ RemoveOrderFromRepositoryReport(p) \/ ReceiveClear(p)
             \/ ReceiveMove(p) \/ NumberMove(p)
      PROVE  IInv'
  BY <1>6, RemoveKeeps, ReceiveClearKeeps, ReceiveMoveKeeps, NumberMoveKeeps
<1>7. ASSUME NEW p \in Requests, ConfirmMove(p) \/ DeactMove(p) \/ Deactivate(p) \/ Stop(p)
      PROVE  IInv'
  BY <1>7, ConfirmMoveKeeps, DeactMoveKeeps, DeactivateKeeps, StopKeeps
<1>8. ASSUME NEW r \in Reports, ReactivateReport(r) \/ DeleteReport(r) PROVE IInv'
  BY <1>8, ReactivateKeeps, DeleteKeeps
<1> QED BY <1>1, <1>2, <1>3, <1>4, <1>5, <1>6, <1>7, <1>8 DEF Next, Rest

\* Every step of every request keeps what the four properties rest on.
THEOREM Inductive == Spec => []IInv
<1>1. Init => IInv
  BY InitIInv
<1>2. IInv /\ [Next]_vars => IInv'
  BY NextIInv
<1> QED BY <1>1, <1>2, PTL DEF Spec

\* Every variable has its type, however many desks work at once.
THEOREM TypeCorrect == Spec => []TypeOK
<1>1. IInv => TypeOK
  BY DEF IInv, Base
<1> QED BY <1>1, Inductive, PTL

\* saveOrderInCache, updateOrder, updateReport and deactivateReport between them never
\* leave an order IN_REPOSITORY without a repository, whatever interleaves or stops.
THEOREM PlacesAreKnown == Spec => []InRepositoryHasPlace
<1>1. IInv => InRepositoryHasPlace
  BY DEF IInv
<1> QED BY <1>1, Inductive, PTL

\* removeOrderFromRepositoryReport keeps a report's totals those of its orders, and
\* createReport makes them so, unless two requests met on one of these orders.
THEOREM CountsAreRight == Spec => []TotalsMatch
<1>1. IInv => TotalsMatch
  BY DEF IInv, Count
<1> QED BY <1>1, Inductive, PTL

\* An order on its way to a repository is on one of the desk's records, or in the hands
\* of a request, as long as nobody else met it or left it half-way.
THEOREM OrdersAreNotLost == Spec => []OnTheWayIsTracked
<1>1. IInv => OnTheWayIsTracked
  <2> SUFFICES ASSUME IInv, NEW o \in Quiet, order[o].place = "IN_CAR"
               PROVE  Staged(o) \/ OnLive(o) \/ \E p \in Requests : o \in Touches(p)
    BY DEF OnTheWayIsTracked, Quiet, Staged, OnLive
  <2>1. \A p \in Requests : Between(p, o) => o \in Touches(p)
    BY DEF Between, Touches
  <2> QED BY <2>1 DEF IInv, Track, OnRecord
<1> QED BY <1>1, Inductive, PTL

=============================================================================
