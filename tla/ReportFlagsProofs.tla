-------------------------- MODULE ReportFlagsProofs --------------------------
(***************************************************************************)
(* Theorems about ReportFlags, for every set of orders, reports, requests  *)
(* and report kinds.                                                       *)
(*                                                                         *)
(* IInv strengthens the properties until they are inductive.  The argument *)
(* for CLIENT creation is in three of its parts: the locks of two          *)
(* processes never overlap (LocksExclusive), from the second look to the   *)
(* commit a creation holds all of its orders (CreatorHoldsOrders), and so  *)
(* nothing that would take one of them can commit meanwhile (NothingTaken, *)
(* SnapshotCurrent).                                                       *)
(***************************************************************************)
EXTENDS ReportFlags, TLAPS

\* Which operation a process at a given statement is running.
OpAtPc ==
  \A p \in Procs :
    /\ pc[p] = "idle" => job[p] = NoJob
    /\ pc[p] = "lock" => job[p].op = "client"
    /\ pc[p] = "insert" => job[p].op \in {"client", "branch"}
    /\ pc[p] = "link" => job[p].op = "branch"
    /\ pc[p] = "mark" => job[p].op \in {"deactivate", "reactivate"}
    /\ pc[p] # "idle" => job[p].op # "none"
    /\ job[p].op = "client" => job[p].kind \in ClientKinds /\ job[p].orders # {}
    /\ job[p].op = "branch" => job[p].kind \in BranchKinds /\ job[p].orders # {}
    /\ job[p].op = "reconcile" => job[p].report = NoReport

Creating(p) ==
  /\ job[p].op \in {"client", "branch"}
  /\ pc[p] \in {"link", "recompute", "apply"}

\* The row a creation inserted is its own until it commits.
OwnPending ==
  /\ \A p \in Procs :
       Creating(p) => /\ job[p].report \in Reports
                      /\ rows[job[p].report] =
                           [status |-> "pending", kind |-> job[p].kind,
                            orders |-> job[p].orders]
  /\ \A p, q \in Procs :
       Creating(p) /\ Creating(q) /\ job[p].report = job[q].report => p = q
  /\ \A r \in Reports :
       rows[r].status = "pending" => \E p \in Procs : Creating(p) /\ job[p].report = r
  /\ \A p \in Procs :
       job[p].op \in {"client", "branch"} /\ ~Creating(p) => job[p].report = NoReport

\* A request that hides or restores a report works on its orders.
OwnReport ==
  \A p \in Procs :
    job[p].op \in {"deactivate", "reactivate"} =>
      /\ job[p].report \in Reports
      /\ rows[job[p].report].status \in {"live", "deleted", "gone"}
      /\ job[p].orders = rows[job[p].report].orders
      /\ pc[p] \in {"recompute", "apply"} =>
           rows[job[p].report].status \in {"live", "deleted"}

LocksExclusive == \A p, q \in Procs : p # q => locks[p] \cap locks[q] = {}

\* A creation locks its orders from the least up.
LockedFromBelow ==
  \A p \in Procs :
    pc[p] = "lock" => \A a \in locks[p], b \in Missing(p) : a < b

CreatorHoldsOrders ==
  \A p \in Procs :
    job[p].op = "client" /\ pc[p] \in {"insert", "recompute", "apply"} => Missing(p) = {}

\* No report stands in the way of a creation that has looked.
NothingTaken ==
  \A p \in Procs :
    job[p].op = "client" /\ pc[p] \in {"insert", "recompute", "apply"} =>
      \A r \in Live :
        rows[r].kind = job[p].kind /\ rows[r].orders \cap job[p].orders # {}
          => r \in revived

\* The snapshot of a creation has every visible report of its orders.
SnapshotCurrent ==
  \A p \in Procs :
    job[p].op = "client" /\ pc[p] = "apply" =>
      /\ job[p].report \in snap[p]
      /\ \A r \in Live : rows[r].orders \cap job[p].orders # {} => r \in snap[p]

IInv ==
  /\ TypeOK
  /\ OpAtPc
  /\ OwnPending
  /\ OwnReport
  /\ LocksExclusive
  /\ LockedFromBelow
  /\ CreatorHoldsOrders
  /\ NothingTaken
  /\ SnapshotCurrent
  /\ NoDoubleBilling

-----------------------------------------------------------------------------
\* The fields of the row a creation inserted.
LEMMA OwnRow ==
  ASSUME OwnPending, NEW q \in Procs, Creating(q)
  PROVE  /\ job[q].report \in Reports
         /\ rows[job[q].report].status = "pending"
         /\ rows[job[q].report].kind = job[q].kind
         /\ rows[job[q].report].orders = job[q].orders
<1>1. /\ job[q].report \in Reports
      /\ rows[job[q].report] = [status |-> "pending", kind |-> job[q].kind,
                                orders |-> job[q].orders]
  BY DEF OwnPending
<1> QED BY <1>1

\* SELECT ... FOR UPDATE gets one more row.
LEMMA LockOrderStep ==
  ASSUME IInv, NEW p \in Procs, LockOrder(p)
  PROVE  IInv'
<1> USE DEF IInv
<1>1. PICK o \in LockTargets(p) :
        /\ ~LockedByOther(p, o)
        /\ ~SharedByOther(p, o)
        /\ locks' = [locks EXCEPT ![p] = @ \cup {o}]
  BY DEF LockOrder
<1>2. /\ pc[p] = "lock" /\ job[p].op = "client"
      /\ UNCHANGED <<rows, revived, flags, recent, pc, job, shares, snap>>
  BY DEF LockOrder, dataVars, OpAtPc
<1>3. o \in Orders /\ o \in Missing(p) /\ \A x \in Missing(p) : o <= x
  BY DEF LockTargets, Missing, TypeOK, Job
<1>4. TypeOK'
  BY <1>1, <1>2, <1>3 DEF TypeOK
<1>5. OpAtPc' /\ OwnPending' /\ OwnReport' /\ NoDoubleBilling'
  BY <1>2 DEF OpAtPc, OwnPending, OwnReport, NoDoubleBilling, Creating, Live
<1>6. LocksExclusive'
  BY <1>1, <1>3 DEF LocksExclusive, LockedByOther, TypeOK
<1>7. LockedFromBelow'
  BY <1>1, <1>2, <1>3, OrdersAssumption DEF LockedFromBelow, Missing, TypeOK, Job
<1>8. CreatorHoldsOrders'
  BY <1>1, <1>2 DEF CreatorHoldsOrders, Missing, TypeOK
<1>9. NothingTaken' /\ SnapshotCurrent'
  BY <1>2 DEF NothingTaken, SnapshotCurrent, Live
<1> QED BY <1>4, <1>5, <1>6, <1>7, <1>8, <1>9

-----------------------------------------------------------------------------
(* One lemma for each way a statement changes the state *)

\* Starting a request: no lock is held and no row changes.
LEMMA BeginStep ==
  ASSUME IInv, NEW p \in Procs,
         NEW at, NEW op, NEW k \in Kinds \cup {NoKind}, NEW S \in SUBSET Orders,
         NEW r \in Reports \cup {NoReport},
         Begin(p, at, op, k, S, r),
         \/ at = "lock" /\ op = "client" /\ k \in ClientKinds /\ S # {} /\ r = NoReport
         \/ at = "insert" /\ op = "branch" /\ k \in BranchKinds /\ S # {} /\ r = NoReport
         \/ /\ at = "mark" /\ op \in {"deactivate", "reactivate"}
            /\ r \in Reports
            /\ rows[r].status \in {"live", "deleted"}
            /\ S = rows[r].orders
         \/ at = "recompute" /\ op = "reconcile" /\ r = NoReport
  PROVE  IInv'
<1> USE DEF IInv
<1> DEFINE J == [op |-> op, kind |-> k, orders |-> S, report |-> r]
<1>1. /\ pc[p] = "idle" /\ locks[p] = {}
      /\ pc' = [pc EXCEPT ![p] = at]
      /\ job' = [job EXCEPT ![p] = J]
      /\ UNCHANGED <<rows, revived, flags, recent, locks, shares, snap>>
  BY DEF Begin, TypeOK
<1>2. /\ pc'[p] = at /\ job'[p] = J
      /\ \A q \in Procs \ {p} : pc'[q] = pc[q] /\ job'[q] = job[q]
  BY <1>1 DEF TypeOK
<1>3. TypeOK'
  <2>1. J \in Job
    BY DEF Job
  <2>2. at \in {"lock", "insert", "mark", "recompute"}
    OBVIOUS
  <2> QED BY <1>1, <2>1, <2>2 DEF TypeOK
<1>4. OpAtPc'
  BY <1>1, <1>2 DEF OpAtPc
<1>5. OwnPending'
  <2>1. ~Creating(p)'
    BY <1>2 DEF Creating
  <2>2. ~Creating(p)
    BY <1>1 DEF Creating
  <2>3. \A q \in Procs \ {p} : Creating(q)' <=> Creating(q)
    BY <1>2 DEF Creating
  <2> QED BY <1>1, <1>2, <2>1, <2>2, <2>3 DEF OwnPending
<1>6. OwnReport'
  BY <1>1, <1>2 DEF OwnReport
<1>7. LocksExclusive' /\ NoDoubleBilling'
  BY <1>1 DEF LocksExclusive, NoDoubleBilling, Live
<1>8. LockedFromBelow' /\ CreatorHoldsOrders'
  BY <1>1, <1>2 DEF LockedFromBelow, CreatorHoldsOrders, Missing
<1>9. NothingTaken' /\ SnapshotCurrent'
  BY <1>1, <1>2 DEF NothingTaken, SnapshotCurrent, Live
<1> QED BY <1>3, <1>4, <1>5, <1>6, <1>7, <1>8, <1>9

\* Rolling back: the locks go, and the row the process inserted.
LEMMA RollbackStep ==
  ASSUME IInv, NEW p \in Procs, pc[p] # "idle", Rollback(p)
  PROVE  IInv'
<1> USE DEF IInv
<1>1. /\ pc' = [pc EXCEPT ![p] = "idle"]
      /\ job' = [job EXCEPT ![p] = NoJob]
      /\ locks' = [locks EXCEPT ![p] = {}]
      /\ shares' = [shares EXCEPT ![p] = {}]
      /\ snap' = [snap EXCEPT ![p] = {}]
      /\ UNCHANGED <<revived, flags, recent>>
  BY DEF Rollback, Finish
<1>2. rows' = [r \in Reports |-> IF rows[r].status = "pending" /\ r = job[p].report
                                   THEN FreeRow ELSE rows[r]]
  BY DEF Rollback
<1>3. /\ pc'[p] = "idle" /\ job'[p] = NoJob /\ locks'[p] = {}
      /\ \A q \in Procs \ {p} : /\ pc'[q] = pc[q] /\ job'[q] = job[q]
                                /\ locks'[q] = locks[q] /\ snap'[q] = snap[q]
  BY <1>1 DEF TypeOK
<1>4. TypeOK'
  <2>1. NoJob \in Job /\ FreeRow \in Row
    BY DEF NoJob, FreeRow, Job, Row
  <2>2. rows' \in [Reports -> Row]
    BY <1>2, <2>1 DEF TypeOK
  <2> QED BY <1>1, <1>2, <2>1, <2>2 DEF TypeOK, FreeRow
<1>5. Live' = Live /\ \A r \in Live : rows'[r] = rows[r]
  BY <1>2 DEF Live, FreeRow
<1>6. OpAtPc'
  <2>1. job'[p].op = "none"
    BY <1>3 DEF NoJob
  <2> QED BY <1>3, <2>1 DEF OpAtPc
<1>7. \A q \in Procs : Creating(q)' <=> q # p /\ Creating(q)
  BY <1>3 DEF Creating, NoJob
<1>8. OwnPending'
  <2>1. ASSUME NEW q \in Procs, Creating(q)'
        PROVE  /\ job'[q].report \in Reports
               /\ rows'[job'[q].report] = [status |-> "pending", kind |-> job'[q].kind,
                                            orders |-> job'[q].orders]
    <3>1. q # p /\ Creating(q) /\ job'[q] = job[q]
      BY <2>1, <1>7, <1>3
    <3>2. rows[job[q].report].status = "pending" /\ job[q].report \in Reports
      BY <3>1, OwnRow
    <3>3. job[q].report # job[p].report
      <4>1. CASE Creating(p)
        BY <4>1, <3>1 DEF OwnPending
      <4>2. CASE ~Creating(p) /\ job[p].op \in {"client", "branch"}
        BY <4>2, <3>2, ReportsAssumption DEF OwnPending
      <4>3. CASE job[p].op \in {"deactivate", "reactivate"}
        BY <4>3, <3>2 DEF OwnReport
      <4>4. CASE job[p].op \in {"none", "reconcile"}
        <5>1. job[p].op # "none"
          BY DEF OpAtPc
        <5>2. job[p].report = NoReport
          BY <4>4, <5>1 DEF OpAtPc
        <5> QED BY <5>2, <3>2, ReportsAssumption
      <4> QED BY <4>1, <4>2, <4>3, <4>4 DEF TypeOK, Job
    <3> QED BY <3>1, <3>2, <3>3, <1>2 DEF OwnPending
  <2>2. ASSUME NEW r \in Reports, rows'[r].status = "pending"
        PROVE  \E q \in Procs : Creating(q)' /\ job'[q].report = r
    <3>1. rows[r].status = "pending" /\ r # job[p].report
      BY <2>2, <1>2 DEF FreeRow
    <3>2. PICK q \in Procs : Creating(q) /\ job[q].report = r
      BY <3>1 DEF OwnPending
    <3> QED BY <3>1, <3>2, <1>3, <1>7
  <2>3. \A q, s \in Procs :
          Creating(q)' /\ Creating(s)' /\ job'[q].report = job'[s].report => q = s
    BY <1>3, <1>7 DEF OwnPending
  <2>4. \A q \in Procs : job'[q].op \in {"client", "branch"} /\ ~Creating(q)'
                           => job'[q].report = NoReport
    BY <1>3, <1>7 DEF OwnPending, NoJob
  <2> QED BY <2>1, <2>2, <2>3, <2>4 DEF OwnPending
<1>9. OwnReport'
  BY <1>2, <1>3 DEF OwnReport, NoJob
<1>10. LocksExclusive'
  BY <1>3 DEF LocksExclusive
<1>11. LockedFromBelow' /\ CreatorHoldsOrders'
  BY <1>3 DEF LockedFromBelow, CreatorHoldsOrders, Missing, NoJob
<1>12. NothingTaken' /\ SnapshotCurrent'
  BY <1>1, <1>3, <1>5 DEF NothingTaken, SnapshotCurrent, NoJob
<1>13. NoDoubleBilling'
  BY <1>1, <1>5 DEF NoDoubleBilling
<1> QED BY <1>4, <1>6, <1>8, <1>9, <1>10, <1>11, <1>12, <1>13

\* The second look lets the creation through.
LEMMA RecheckStep ==
  ASSUME IInv, NEW p \in Procs, Recheck(p)
  PROVE  IInv'
<1> USE DEF IInv
<1>1. CASE Rollback(p)
  BY <1>1, RollbackStep DEF Recheck
<1>2. CASE /\ ~Taken(job[p].kind, job[p].orders)
           /\ pc' = [pc EXCEPT ![p] = "insert"]
           /\ UNCHANGED <<dataVars, job, locks, shares, snap>>
  <2>1. /\ pc[p] = "lock" /\ job[p].op = "client" /\ Missing(p) = {}
        /\ UNCHANGED <<rows, revived, flags, recent, job, locks, shares, snap>>
    BY <1>2 DEF Recheck, dataVars, OpAtPc
  <2>2. pc'[p] = "insert" /\ \A q \in Procs \ {p} : pc'[q] = pc[q]
    BY <1>2 DEF TypeOK
  <2>3. TypeOK'
    BY <1>2, <2>1 DEF TypeOK
  <2>4. OpAtPc'
    BY <2>1, <2>2 DEF OpAtPc
  <2>5. \A q \in Procs : Creating(q)' <=> Creating(q)
    BY <2>1, <2>2 DEF Creating
  <2>6. OwnPending' /\ OwnReport'
    BY <2>1, <2>2, <2>5 DEF OwnPending, OwnReport
  <2>7. LocksExclusive' /\ NoDoubleBilling'
    BY <2>1 DEF LocksExclusive, NoDoubleBilling, Live
  <2>8. LockedFromBelow' /\ CreatorHoldsOrders'
    BY <2>1, <2>2 DEF LockedFromBelow, CreatorHoldsOrders, Missing
  <2>9. NothingTaken' /\ SnapshotCurrent'
    BY <1>2, <2>1, <2>2 DEF NothingTaken, SnapshotCurrent, Taken, Live
  <2> QED BY <2>3, <2>4, <2>6, <2>7, <2>8, <2>9
<1> QED BY <1>1, <1>2 DEF Recheck

\* The inserted row is invisible to every other process.
LEMMA InsertStep ==
  ASSUME IInv, NEW p \in Procs, Insert(p)
  PROVE  IInv'
<1> USE DEF IInv
<1>1. PICK r \in Reports :
        /\ rows[r].status = "free"
        /\ rows' = [rows EXCEPT ![r] = [status |-> "pending", kind |-> job[p].kind,
                                        orders |-> job[p].orders]]
        /\ job' = [job EXCEPT ![p].report = r]
  BY DEF Insert
<1>2. /\ pc[p] = "insert" /\ job[p].op \in {"client", "branch"}
      /\ job[p].kind \in Kinds /\ job[p].orders # {} /\ job[p].orders \in SUBSET Orders
      /\ pc' = [pc EXCEPT ![p] = IF job[p].op = "client" THEN "recompute" ELSE "link"]
      /\ UNCHANGED <<revived, flags, recent, locks, shares, snap>>
  BY DEF Insert, OpAtPc, Kinds, TypeOK, Job
<1>3. /\ pc'[p] = IF job[p].op = "client" THEN "recompute" ELSE "link"
      /\ job'[p].op = job[p].op /\ job'[p].kind = job[p].kind
      /\ job'[p].orders = job[p].orders /\ job'[p].report = r
      /\ \A q \in Procs \ {p} : pc'[q] = pc[q] /\ job'[q] = job[q]
      /\ rows'[r] = [status |-> "pending", kind |-> job[p].kind, orders |-> job[p].orders]
      /\ \A s \in Reports \ {r} : rows'[s] = rows[s]
  BY <1>1, <1>2 DEF TypeOK, Job
<1>4. TypeOK'
  <2>1. rows' \in [Reports -> Row] /\ job' \in [Procs -> Job]
    BY <1>1, <1>2 DEF TypeOK, Row, Job
  <2>2. \A s \in Reports : IF rows'[s].status = "free" THEN rows'[s] = FreeRow
                           ELSE rows'[s].kind \in Kinds /\ rows'[s].orders # {}
    BY <1>2, <1>3 DEF TypeOK
  <2> QED BY <1>2, <2>1, <2>2 DEF TypeOK
<1>5. Live' = Live /\ \A s \in Live : rows'[s] = rows[s]
  BY <1>1, <1>3 DEF Live
<1>6. OpAtPc'
  BY <1>2, <1>3 DEF OpAtPc
<1>7. Creating(p)' /\ ~Creating(p) /\ \A q \in Procs \ {p} : Creating(q)' <=> Creating(q)
  BY <1>2, <1>3 DEF Creating
<1>8. OwnPending'
  <2>1. \A q \in Procs : Creating(q) => job[q].report # r
    BY <1>1, OwnRow
  <2>2. \A q \in Procs :
          Creating(q)' => /\ job'[q].report \in Reports
                          /\ rows'[job'[q].report] =
                               [status |-> "pending", kind |-> job'[q].kind,
                                orders |-> job'[q].orders]
    BY <2>1, <1>3, <1>7 DEF OwnPending
  <2>3. \A q, s \in Procs :
          Creating(q)' /\ Creating(s)' /\ job'[q].report = job'[s].report => q = s
    BY <2>1, <1>3, <1>7 DEF OwnPending
  <2>4. ASSUME NEW s \in Reports, rows'[s].status = "pending"
        PROVE  \E q \in Procs : Creating(q)' /\ job'[q].report = s
    <3>1. CASE s = r
      BY <3>1, <1>3, <1>7
    <3>2. CASE s # r
      <4>1. PICK q \in Procs : Creating(q) /\ job[q].report = s
        BY <2>4, <3>2, <1>3 DEF OwnPending
      <4> QED BY <4>1, <1>3, <1>7
    <3> QED BY <3>1, <3>2
  <2>5. \A q \in Procs : job'[q].op \in {"client", "branch"} /\ ~Creating(q)'
                           => job'[q].report = NoReport
    BY <1>3, <1>7 DEF OwnPending
  <2> QED BY <2>2, <2>3, <2>4, <2>5 DEF OwnPending
<1>9. OwnReport'
  <2>1. \A q \in Procs : job[q].op \in {"deactivate", "reactivate"} => job[q].report # r
    BY <1>1 DEF OwnReport
  <2> QED BY <2>1, <1>2, <1>3 DEF OwnReport
<1>10. LocksExclusive'
  BY <1>2 DEF LocksExclusive
<1>11. LockedFromBelow' /\ CreatorHoldsOrders'
  BY <1>2, <1>3 DEF LockedFromBelow, CreatorHoldsOrders, Missing
<1>12. NothingTaken' /\ SnapshotCurrent'
  BY <1>2, <1>3, <1>5 DEF NothingTaken, SnapshotCurrent
<1>13. NoDoubleBilling'
  BY <1>2, <1>5 DEF NoDoubleBilling
<1> QED BY <1>4, <1>6, <1>8, <1>9, <1>10, <1>11, <1>12, <1>13

\* Join rows of a BRANCH report take key-share locks only.
LEMMA LinkStep ==
  ASSUME IInv, NEW p \in Procs, Link(p)
  PROVE  IInv'
<1> USE DEF IInv
<1>1. /\ pc[p] = "link" /\ job[p].op = "branch"
      /\ UNCHANGED <<rows, revived, flags, recent, job, locks, snap>>
      /\ pc' = [pc EXCEPT ![p] = IF shares'[p] = job[p].orders THEN "recompute" ELSE "link"]
  BY DEF Link, dataVars, OpAtPc
<1>2. PICK o \in job[p].orders \ shares[p] : shares' = [shares EXCEPT ![p] = @ \cup {o}]
  BY DEF Link
<1>3. pc'[p] \in {"recompute", "link"} /\ \A q \in Procs \ {p} : pc'[q] = pc[q]
  BY <1>1 DEF TypeOK
<1>4. TypeOK'
  <2>1. o \in Orders
    BY <1>2 DEF TypeOK, Job
  <2> QED BY <1>1, <1>2, <1>3, <2>1 DEF TypeOK
<1>5. OpAtPc'
  BY <1>1, <1>3 DEF OpAtPc
<1>6. \A q \in Procs : Creating(q)' <=> Creating(q)
  BY <1>1, <1>3 DEF Creating
<1>7. OwnPending' /\ OwnReport'
  BY <1>1, <1>3, <1>6 DEF OwnPending, OwnReport
<1>8. LocksExclusive' /\ NoDoubleBilling'
  BY <1>1 DEF LocksExclusive, NoDoubleBilling, Live
<1>9. LockedFromBelow' /\ CreatorHoldsOrders'
  BY <1>1, <1>3 DEF LockedFromBelow, CreatorHoldsOrders, Missing
<1>10. NothingTaken' /\ SnapshotCurrent'
  BY <1>1, <1>3 DEF NothingTaken, SnapshotCurrent, Live
<1> QED BY <1>4, <1>5, <1>7, <1>8, <1>9, <1>10

\* The UPDATE of the report row gets the row, unless the report is gone.
LEMMA MarkStep ==
  ASSUME IInv, NEW p \in Procs, Mark(p)
  PROVE  IInv'
<1> USE DEF IInv
<1>1. CASE Rollback(p)
  BY <1>1, RollbackStep DEF Mark
<1>2. CASE /\ rows[job[p].report].status # "gone"
           /\ pc' = [pc EXCEPT ![p] = "recompute"]
           /\ UNCHANGED <<dataVars, job, locks, shares, snap>>
  <2>1. /\ pc[p] = "mark" /\ job[p].op \in {"deactivate", "reactivate"}
        /\ UNCHANGED <<rows, revived, flags, recent, job, locks, shares, snap>>
    BY <1>2 DEF Mark, dataVars, OpAtPc
  <2>2. pc'[p] = "recompute" /\ \A q \in Procs \ {p} : pc'[q] = pc[q]
    BY <1>2 DEF TypeOK
  <2>3. TypeOK'
    BY <1>2, <2>1 DEF TypeOK
  <2>4. OpAtPc'
    BY <2>1, <2>2 DEF OpAtPc
  <2>5. \A q \in Procs : Creating(q)' <=> Creating(q)
    BY <2>1, <2>2 DEF Creating
  <2>6. OwnPending'
    BY <2>1, <2>5 DEF OwnPending
  <2>7. OwnReport'
    BY <1>2, <2>1, <2>2 DEF OwnReport
  <2>8. LocksExclusive' /\ NoDoubleBilling'
    BY <2>1 DEF LocksExclusive, NoDoubleBilling, Live
  <2>9. LockedFromBelow' /\ CreatorHoldsOrders'
    BY <2>1, <2>2 DEF LockedFromBelow, CreatorHoldsOrders, Missing
  <2>10. NothingTaken' /\ SnapshotCurrent'
    BY <2>1, <2>2 DEF NothingTaken, SnapshotCurrent, Live
  <2> QED BY <2>3, <2>4, <2>6, <2>7, <2>8, <2>9, <2>10
<1> QED BY <1>1, <1>2 DEF Mark

\* Removing a report takes it from the visible ones; no row lock is on it.
LEMMA HardDeleteStep ==
  ASSUME IInv, NEW p \in Procs, NEW r \in Reports, HardDelete(p, r)
  PROVE  IInv'
<1> USE DEF IInv
<1>1. /\ rows[r].status \in {"live", "deleted"} /\ ~RowLocked(r)
      /\ rows' = [rows EXCEPT ![r].status = "gone"]
      /\ UNCHANGED <<revived, flags, recent, pc, job, locks, shares, snap>>
  BY DEF HardDelete, procVars
<1>2. /\ rows'[r].status = "gone" /\ rows'[r].kind = rows[r].kind
      /\ rows'[r].orders = rows[r].orders
      /\ \A s \in Reports \ {r} : rows'[s] = rows[s]
  BY <1>1 DEF TypeOK, Row
<1>3. TypeOK'
  <2>1. rows' \in [Reports -> Row]
    BY <1>1 DEF TypeOK, Row
  <2> QED BY <1>1, <1>2, <2>1 DEF TypeOK
<1>4. Live' \subseteq Live /\ \A s \in Live' : rows'[s] = rows[s]
  BY <1>2 DEF Live
<1>5. OpAtPc'
  BY <1>1 DEF OpAtPc
<1>6. OwnPending'
  <2>1. \A q \in Procs : Creating(q)' <=> Creating(q)
    BY <1>1 DEF Creating
  <2>2. \A q \in Procs : Creating(q) => job[q].report # r
    BY <1>1, OwnRow
  <2>3. \A s \in Reports : rows'[s].status = "pending" => rows[s].status = "pending"
    BY <1>2
  <2> QED BY <2>1, <2>2, <2>3, <1>1, <1>2 DEF OwnPending
<1>7. OwnReport'
  BY <1>1, <1>2 DEF OwnReport, RowLocked
<1>8. LocksExclusive' /\ LockedFromBelow' /\ CreatorHoldsOrders'
  BY <1>1 DEF LocksExclusive, LockedFromBelow, CreatorHoldsOrders, Missing
<1>9. NothingTaken' /\ SnapshotCurrent'
  BY <1>1, <1>4 DEF NothingTaken, SnapshotCurrent
<1>10. NoDoubleBilling'
  BY <1>1, <1>4 DEF NoDoubleBilling
<1> QED BY <1>3, <1>5, <1>6, <1>7, <1>8, <1>9, <1>10

\* The recompute takes its snapshot.
LEMMA RecomputeStep ==
  ASSUME IInv, NEW p \in Procs, Recompute(p)
  PROVE  IInv'
<1> USE DEF IInv
<1> DEFINE R == {r \in WithOwn(p, Live) : rows[r].orders \cap job[p].orders # {}}
<1>1. /\ pc[p] = "recompute"
      /\ pc' = [pc EXCEPT ![p] = "apply"]
      /\ snap' = [snap EXCEPT ![p] = R]
      /\ UNCHANGED <<rows, revived, flags, recent, job, locks, shares>>
  BY DEF Recompute, dataVars
<1>2. /\ pc'[p] = "apply" /\ snap'[p] = R
      /\ \A q \in Procs \ {p} : pc'[q] = pc[q] /\ snap'[q] = snap[q]
  BY <1>1 DEF TypeOK
<1>3. job[p].op \in {"client", "branch", "deactivate", "reactivate", "reconcile"}
  BY <1>1 DEF OpAtPc, TypeOK, Job
<1>4. job[p].op # "reconcile" => job[p].report \in Reports
  BY <1>1, <1>3 DEF OwnPending, OwnReport, Creating
<1>5. R \subseteq Reports
  BY <1>3, <1>4 DEF WithOwn, Live
<1>6. TypeOK'
  BY <1>1, <1>5 DEF TypeOK
<1>7. OpAtPc'
  BY <1>1, <1>2 DEF OpAtPc
<1>8. \A q \in Procs : Creating(q)' <=> Creating(q)
  BY <1>1, <1>2 DEF Creating
<1>9. OwnPending' /\ OwnReport'
  BY <1>1, <1>2, <1>8 DEF OwnPending, OwnReport
<1>10. LocksExclusive' /\ NoDoubleBilling'
  BY <1>1 DEF LocksExclusive, NoDoubleBilling, Live
<1>11. LockedFromBelow' /\ CreatorHoldsOrders'
  BY <1>1, <1>2 DEF LockedFromBelow, CreatorHoldsOrders, Missing
<1>12. NothingTaken'
  BY <1>1, <1>2 DEF NothingTaken, Live
<1>13. SnapshotCurrent'
  <2>1. ASSUME job[p].op = "client"
        PROVE  /\ job[p].report \in R
               /\ \A r \in Live : rows[r].orders \cap job[p].orders # {} => r \in R
    <3>1. WithOwn(p, Live) = Live \cup {job[p].report}
      BY <2>1 DEF WithOwn
    <3>2. rows[job[p].report] =
            [status |-> "pending", kind |-> job[p].kind, orders |-> job[p].orders]
      BY <2>1, <1>1 DEF OwnPending, Creating
    <3>3. rows[job[p].report].orders \cap job[p].orders # {}
      BY <3>2, <2>1 DEF OpAtPc
    <3> QED BY <3>1, <3>3
  <2> QED BY <2>1, <1>1, <1>2 DEF SnapshotCurrent, Live
<1> QED BY <1>6, <1>7, <1>9, <1>10, <1>11, <1>12, <1>13

\* The UPDATE of the flags gets one more row.
LEMMA LockRowStep ==
  ASSUME IInv, NEW p \in Procs, LockRow(p)
  PROVE  IInv'
<1> USE DEF IInv
<1>1. PICK o \in Missing(p) : ~LockedByOther(p, o) /\ locks' = [locks EXCEPT ![p] = @ \cup {o}]
  BY DEF LockRow
<1>2. /\ pc[p] = "apply"
      /\ UNCHANGED <<rows, revived, flags, recent, pc, job, shares, snap>>
  BY DEF LockRow, dataVars
<1>3. o \in Orders
  BY <1>1 DEF Missing, TypeOK, Job
<1>4. TypeOK'
  BY <1>1, <1>2, <1>3 DEF TypeOK
<1>5. OpAtPc' /\ OwnPending' /\ OwnReport' /\ NoDoubleBilling'
  BY <1>2 DEF OpAtPc, OwnPending, OwnReport, NoDoubleBilling, Creating, Live
<1>6. LocksExclusive'
  BY <1>1, <1>3 DEF LocksExclusive, LockedByOther, TypeOK
<1>7. LockedFromBelow' /\ CreatorHoldsOrders'
  BY <1>1, <1>2 DEF LockedFromBelow, CreatorHoldsOrders, Missing, TypeOK
<1>8. NothingTaken' /\ SnapshotCurrent'
  BY <1>2 DEF NothingTaken, SnapshotCurrent, Live
<1> QED BY <1>4, <1>5, <1>6, <1>7, <1>8

\* The commit: report row and flags become visible, the locks go.
LEMMA CommitStep ==
  ASSUME IInv, NEW p \in Procs, Commit(p)
  PROVE  IInv'
<1> USE DEF IInv
<1> DEFINE R == job[p].report
           op == job[p].op
<1>1. /\ pc[p] = "apply" /\ Missing(p) = {}
      /\ rows' = [r \in Reports |-> CommittedRow(p, r)]
      /\ flags' = [o \in Orders |-> WrittenFlags(p, o)]
      /\ revived' = revived \cup {r \in Reports : op = "reactivate" /\ r = R
                                                  /\ rows[r].status = "deleted"}
      /\ recent' = recent
  BY DEF Commit
<1>2. /\ pc' = [pc EXCEPT ![p] = "idle"]
      /\ job' = [job EXCEPT ![p] = NoJob]
      /\ locks' = [locks EXCEPT ![p] = {}]
      /\ shares' = [shares EXCEPT ![p] = {}]
      /\ snap' = [snap EXCEPT ![p] = {}]
  BY DEF Commit, Finish
<1>3. /\ pc'[p] = "idle" /\ job'[p] = NoJob /\ locks'[p] = {}
      /\ \A q \in Procs \ {p} : /\ pc'[q] = pc[q] /\ job'[q] = job[q]
                                /\ locks'[q] = locks[q] /\ snap'[q] = snap[q]
  BY <1>2 DEF TypeOK
<1>4. op \in {"client", "branch", "deactivate", "reactivate", "reconcile"}
  BY <1>1 DEF OpAtPc, TypeOK, Job
<1>5. job'[p].op = "none"
  BY <1>3 DEF NoJob
<1>6. \A r \in Reports : rows[r] \in Row
  BY DEF TypeOK
<1>7. \A r \in Reports :
        /\ rows'[r].kind = rows[r].kind /\ rows'[r].orders = rows[r].orders
        /\ r # R \/ op = "reconcile" => rows'[r] = rows[r]
        /\ r = R /\ op = "deactivate" => rows'[r].status = "deleted"
        /\ r = R /\ op \in {"client", "branch", "reactivate"} => rows'[r].status = "live"
  BY <1>1, <1>6 DEF CommittedRow, Row
<1>8. op # "reconcile" => R \in Reports /\ job[p].orders = rows[R].orders
  BY <1>1, <1>4, OwnRow DEF OwnReport, Creating
<1>9. op = "reconcile" => R = NoReport
  BY DEF OpAtPc
<1>10. op \in {"deactivate", "reactivate"} => rows[R].status \in {"live", "deleted"}
  BY <1>1 DEF OwnReport
<1>11. op \in {"client", "branch"} => rows[R].kind = job[p].kind /\ rows[R].status = "pending"
  BY <1>1, OwnRow DEF Creating
\* Only the report of p can become visible.
<1>12. ASSUME NEW r \in Live', r \notin Live
       PROVE  /\ r = R /\ op \in {"client", "branch", "reactivate"}
              /\ rows[r].orders = job[p].orders
              /\ op = "reactivate" => r \in revived'
  <2>1. r \in Reports /\ rows'[r].status = "live" /\ rows[r].status # "live"
    BY <1>12 DEF Live
  <2>2. r = R /\ op \in {"client", "branch", "reactivate"}
    BY <2>1, <1>4, <1>7
  <2>3. op = "reactivate" => rows[r].status = "deleted"
    BY <2>1, <2>2, <1>10
  <2> QED BY <2>1, <2>2, <2>3, <1>1, <1>8
\* A visible report of another creation's orders was visible before.
<1>13. ASSUME NEW q \in Procs \ {p}, job[q].op = "client",
              pc[q] \in {"insert", "recompute", "apply"},
              NEW r \in Live', rows[r].orders \cap job[q].orders # {}
       PROVE  r \in Live
  <2>1. SUFFICES ASSUME r \notin Live PROVE FALSE
    OBVIOUS
  <2>2. rows[r].orders = job[p].orders
    BY <2>1, <1>12
  <2>3. job[p].orders \subseteq locks[p]
    BY <1>1 DEF Missing
  <2>4. job[q].orders \subseteq locks[q]
    BY <1>13 DEF CreatorHoldsOrders, Missing
  <2>5. locks[p] \cap locks[q] = {}
    BY DEF LocksExclusive
  <2> QED BY <2>2, <2>3, <2>4, <2>5, <1>13
<1>14. TypeOK'
  <2>1. rows' \in [Reports -> Row]
    BY <1>1, <1>6 DEF CommittedRow, Row
  <2>2. ASSUME NEW o \in Orders PROVE FlagsFrom(snap[p], o) \subseteq Kinds
    <3>1. \A r \in snap[p] : r \in Reports
      BY DEF TypeOK
    <3>2. \A r \in Reports : o \in rows[r].orders => rows[r].kind \in Kinds
      BY DEF TypeOK, FreeRow
    <3> QED BY <3>1, <3>2 DEF FlagsFrom
  <2>3. flags' \in [Orders -> SUBSET Kinds]
    BY <1>1, <2>2 DEF WrittenFlags, TypeOK
  <2>4. \A r \in Reports : IF rows'[r].status = "free" THEN rows'[r] = FreeRow
                           ELSE rows'[r].kind \in Kinds /\ rows'[r].orders # {}
    <3> SUFFICES ASSUME NEW r \in Reports
                 PROVE  IF rows'[r].status = "free" THEN rows'[r] = FreeRow
                        ELSE rows'[r].kind \in Kinds /\ rows'[r].orders # {}
      OBVIOUS
    <3>1. CASE rows'[r] = rows[r]
      BY <3>1 DEF TypeOK
    <3>2. CASE r = R /\ op # "reconcile"
      <4>1. rows[r].status # "free" /\ rows'[r].status # "free"
        BY <3>2, <1>4, <1>7, <1>10, <1>11
      <4> QED BY <4>1, <1>7 DEF TypeOK
    <3> QED BY <3>1, <3>2, <1>7
  <2>5. NoJob \in Job
    BY DEF NoJob, Job
  <2>6. revived' \subseteq Reports /\ recent' \subseteq Orders
    BY <1>1 DEF TypeOK
  <2> QED BY <1>2, <2>1, <2>3, <2>4, <2>5, <2>6 DEF TypeOK
<1>15. OpAtPc'
  BY <1>3, <1>5 DEF OpAtPc
<1>16. \A q \in Procs : Creating(q)' <=> q # p /\ Creating(q)
  BY <1>3, <1>5 DEF Creating
<1>17. OwnPending'
  <2>1. ASSUME NEW q \in Procs \ {p}, Creating(q)
        PROVE  job[q].report \in Reports /\ rows'[job[q].report] = rows[job[q].report]
    <3>1. job[q].report \in Reports /\ rows[job[q].report].status = "pending"
      BY <2>1, OwnRow
    <3>2. job[q].report # R
      <4>1. CASE op \in {"client", "branch"}
        BY <4>1, <2>1, <1>1 DEF OwnPending, Creating
      <4>2. CASE op \in {"deactivate", "reactivate"}
        BY <4>2, <3>1, <1>10
      <4>3. CASE op = "reconcile"
        BY <4>3, <3>1, <1>9, ReportsAssumption
      <4> QED BY <4>1, <4>2, <4>3, <1>4
    <3> QED BY <3>1, <3>2, <1>7
  <2>2. \A q \in Procs :
          Creating(q)' => /\ job'[q].report \in Reports
                          /\ rows'[job'[q].report] =
                               [status |-> "pending", kind |-> job'[q].kind,
                                orders |-> job'[q].orders]
    BY <2>1, <1>3, <1>16 DEF OwnPending
  <2>3. ASSUME NEW r \in Reports, rows'[r].status = "pending"
        PROVE  \E q \in Procs : Creating(q)' /\ job'[q].report = r
    <3>1. rows[r].status = "pending" /\ (r # R \/ op = "reconcile")
      BY <2>3, <1>4, <1>7
    <3>2. r # R
      BY <3>1, <1>9, ReportsAssumption
    <3>3. PICK q \in Procs : Creating(q) /\ job[q].report = r
      BY <3>1 DEF OwnPending
    <3> QED BY <3>2, <3>3, <1>3, <1>16
  <2>4. \A q, s \in Procs :
          Creating(q)' /\ Creating(s)' /\ job'[q].report = job'[s].report => q = s
    BY <1>3, <1>16 DEF OwnPending
  <2>5. \A q \in Procs : job'[q].op \in {"client", "branch"} /\ ~Creating(q)'
                           => job'[q].report = NoReport
    BY <1>3, <1>5, <1>16 DEF OwnPending
  <2> QED BY <2>2, <2>3, <2>4, <2>5 DEF OwnPending
<1>18. OwnReport'
  <2>1. ASSUME NEW q \in Procs \ {p}, job[q].op \in {"deactivate", "reactivate"}
        PROVE  /\ job[q].report \in Reports
               /\ rows'[job[q].report].status \in {"live", "deleted", "gone"}
               /\ job[q].orders = rows'[job[q].report].orders
               /\ pc[q] \in {"recompute", "apply"} =>
                    rows'[job[q].report].status \in {"live", "deleted"}
    <3>1. CASE job[q].report # R \/ op = "reconcile"
      BY <2>1, <3>1, <1>7 DEF OwnReport
    <3>2. CASE job[q].report = R /\ op # "reconcile"
      BY <2>1, <3>2, <1>4, <1>7 DEF OwnReport
    <3> QED BY <3>1, <3>2
  <2> QED BY <2>1, <1>3, <1>5 DEF OwnReport
<1>19. LocksExclusive'
  BY <1>3 DEF LocksExclusive
<1>20. LockedFromBelow' /\ CreatorHoldsOrders'
  BY <1>3, <1>5 DEF LockedFromBelow, CreatorHoldsOrders, Missing
<1>21. revived \subseteq revived'
  BY <1>1
<1>22. NothingTaken'
  BY <1>3, <1>5, <1>7, <1>13, <1>21 DEF NothingTaken, Live
<1>23. SnapshotCurrent'
  BY <1>3, <1>5, <1>7, <1>13 DEF SnapshotCurrent, Live
<1>24. NoDoubleBilling'
  <2>1. ASSUME NEW r \in Live', r \notin Live, NEW s \in Live', r # s,
               rows[r].kind \in ClientKinds, rows[r].kind = rows[s].kind,
               rows[r].orders \cap rows[s].orders # {}
        PROVE  r \in revived' \/ s \in revived'
    <3>1. s \in Live
      BY <2>1, <1>12
    <3>2. CASE op = "client"
      <4>1. rows[s].kind = job[p].kind /\ rows[s].orders \cap job[p].orders # {}
        BY <2>1, <3>2, <1>11, <1>12
      <4> QED BY <4>1, <3>1, <3>2, <1>1, <1>21 DEF NothingTaken
    <3>3. CASE op = "branch"
      BY <2>1, <3>3, <1>11, <1>12, KindsAssumption DEF OpAtPc
    <3>4. CASE op = "reactivate"
      BY <2>1, <3>4, <1>12
    <3> QED BY <2>1, <3>2, <3>3, <3>4, <1>12
  <2>2. \A r, s \in Live :
          /\ r # s
          /\ rows[r].kind \in ClientKinds
          /\ rows[r].kind = rows[s].kind
          /\ rows[r].orders \cap rows[s].orders # {}
          => r \in revived' \/ s \in revived'
    BY <1>21 DEF NoDoubleBilling
  <2> QED BY <2>1, <2>2, <1>7 DEF NoDoubleBilling, Live
<1> QED BY <1>14, <1>15, <1>17, <1>18, <1>19, <1>20, <1>22, <1>23, <1>24

\* The window moves and nothing else.
LEMMA WindowStep ==
  ASSUME IInv, recent' \subseteq Orders, UNCHANGED <<rows, revived, flags, procVars>>
  PROVE  IInv'
BY DEF IInv, TypeOK, OpAtPc, OwnPending, OwnReport, LocksExclusive, LockedFromBelow,
       CreatorHoldsOrders, NothingTaken, SnapshotCurrent, NoDoubleBilling, Creating,
       Missing, Live, procVars

\* The invariant holds before the first request.
LEMMA InitIInv == Init => IInv
<1> SUFFICES ASSUME Init PROVE IInv
  OBVIOUS
<1>1. TypeOK
  BY DEF Init, TypeOK, FreeRow, NoJob, Row, Job
<1>2. \A r \in Reports : rows[r].status = "free"
  BY DEF Init, FreeRow
<1>3. \A p \in Procs : /\ pc[p] = "idle" /\ locks[p] = {}
                       /\ job[p] = NoJob /\ job[p].op = "none"
  BY DEF Init, NoJob
<1>4. OpAtPc /\ OwnPending /\ OwnReport /\ LocksExclusive /\ LockedFromBelow
      /\ CreatorHoldsOrders /\ NothingTaken /\ SnapshotCurrent
  BY <1>2, <1>3 DEF OpAtPc, OwnPending, OwnReport, LocksExclusive, LockedFromBelow,
                    CreatorHoldsOrders, NothingTaken, SnapshotCurrent, Creating
<1>5. NoDoubleBilling
  BY <1>2 DEF NoDoubleBilling, Live
<1> QED BY <1>1, <1>4, <1>5 DEF IInv

\* Every action preserves it.
LEMMA NextIInv == IInv /\ [Next]_vars => IInv'
<1> SUFFICES ASSUME IInv, [Next]_vars PROVE IInv'
  OBVIOUS
<1>1. CASE UNCHANGED vars
  <2>1. recent' \subseteq Orders
    BY <1>1 DEF vars, IInv, TypeOK
  <2> QED BY <2>1, <1>1, WindowStep DEF vars, procVars
<1>2. CASE \E p \in Requests : Request(p)
  <2>1. PICK p \in Requests : Request(p)
    BY <1>2
  <2>2. p \in Procs
    BY DEF Procs
  <2>3. ASSUME NEW k \in ClientKinds, NEW S \in SUBSET Orders, OpenClient(p, k, S)
        PROVE  IInv'
    BY <2>2, <2>3, BeginStep DEF OpenClient, Kinds
  <2>4. ASSUME NEW k \in BranchKinds, NEW S \in SUBSET Orders, OpenBranch(p, k, S)
        PROVE  IInv'
    BY <2>2, <2>4, BeginStep DEF OpenBranch, Kinds
  <2>5. ASSUME NEW r \in Reports, OpenDeactivate(p, r) \/ OpenReactivate(p, r)
        PROVE  IInv'
    <3>1. rows[r].orders \in SUBSET Orders
      BY DEF IInv, TypeOK, Row
    <3> QED BY <2>2, <2>5, <3>1, BeginStep DEF OpenDeactivate, OpenReactivate
  <2>6. ASSUME NEW r \in Reports, HardDelete(p, r) PROVE IInv'
    BY <2>2, <2>6, HardDeleteStep
  <2> QED BY <2>1, <2>3, <2>4, <2>5, <2>6 DEF Request
<1>3. CASE \E p \in Procs : Statement(p) \/ Abort(p)
  <2>1. PICK p \in Procs : Statement(p) \/ Abort(p)
    BY <1>3
  <2>2. CASE Abort(p)
    BY <2>2, RollbackStep DEF Abort
  <2> QED BY <2>1, <2>2, LockOrderStep, RecheckStep, InsertStep, LinkStep, MarkStep,
             RecomputeStep, LockRowStep, CommitStep DEF Statement
<1>4. CASE \E p \in Jobs : OpenReconcile(p)
  <2>1. PICK p \in Jobs : OpenReconcile(p)
    BY <1>4
  <2>2. PICK B \in SUBSET Mismatched :
          Begin(p, "recompute", "reconcile", NoKind, B, NoReport)
    BY <2>1 DEF OpenReconcile
  <2>3. B \in SUBSET Orders /\ p \in Procs
    BY DEF Mismatched, IInv, TypeOK, Procs
  <2> QED BY <2>2, <2>3, BeginStep
<1>5. CASE \E o \in Ageing : AgeOut(o) \/ Touch(o)
  <2>1. PICK o \in Ageing : AgeOut(o) \/ Touch(o)
    BY <1>5
  <2>2. recent' \subseteq Orders
    BY <2>1, AgeingAssumption DEF AgeOut, Touch, IInv, TypeOK
  <2> QED BY <2>1, <2>2, WindowStep DEF AgeOut, Touch
<1> QED BY <1>1, <1>2, <1>3, <1>4, <1>5 DEF Next

\* IInv holds in every reachable state.
THEOREM Inductive == Spec => []IInv
BY InitIInv, NextIInv, PTL DEF Spec

-----------------------------------------------------------------------------
(* The properties *)

\* Types hold, idle processes hold no lock, used rows have a kind and an order.
THEOREM TypeCorrect == Spec => []TypeOK
<1>1. IInv => TypeOK
  BY DEF IInv
<1> QED BY <1>1, Inductive, PTL

\* However creations, deletions and restorations interleave, an order is in two
\* visible CLIENT reports of one secondary type only through a restored report.
THEOREM NoDoubleBillingHolds == Spec => []NoDoubleBilling
<1>1. IInv => NoDoubleBilling
  BY DEF IInv
<1> QED BY <1>1, Inductive, PTL

\* Creations waiting for each other's rows wait from greater ids to smaller
\* ones, so any number of overlapping creations never deadlock among themselves.
THEOREM CreatorsQueue == Spec => []CreatorsQueueInOrder
<1>1. IInv => CreatorsQueueInOrder
  BY DEF IInv, LockedFromBelow, CreatorsQueueInOrder, WantsRowOf, LockTargets
<1> QED BY <1>1, Inductive, PTL

\* The flags a CLIENT creation commits miss no visible report of its orders.
THEOREM ClientCommitComplete == Spec => ClientCommitMissesNothing
<1> DEFINE Complete ==
      \A p \in Procs :
        Commit(p) /\ job[p].op = "client"
          => \A o \in job[p].orders : TrueFlags(o)' \subseteq flags'[o]
<1>1. IInv /\ [Next]_vars => [Complete]_vars
  <2> SUFFICES ASSUME IInv, NEW p \in Procs, Commit(p), job[p].op = "client",
                      NEW o \in job[p].orders, NEW k \in TrueFlags(o)'
               PROVE  k \in flags'[o]
    OBVIOUS
  <2> USE DEF IInv
  <2>1. PICK r \in Live' : o \in rows'[r].orders /\ k = rows'[r].kind
    BY DEF TrueFlags, FlagsFrom
  <2>2. \A s \in Reports : /\ rows'[s].kind = rows[s].kind
                           /\ rows'[s].orders = rows[s].orders
                           /\ s # job[p].report => rows'[s] = rows[s]
    BY DEF Commit, CommittedRow, TypeOK, Row
  <2>3. r \in Reports /\ (r = job[p].report \/ r \in Live)
    BY <2>1, <2>2 DEF Live
  <2>4. r \in snap[p]
    BY <2>1, <2>2, <2>3 DEF SnapshotCurrent, Commit
  <2>5. o \in Orders
    BY DEF TypeOK, Job
  <2>6. flags'[o] = FlagsFrom(snap[p], o)
    BY <2>5 DEF Commit, WrittenFlags
  <2> QED BY <2>1, <2>2, <2>3, <2>4, <2>6 DEF FlagsFrom
<1> QED BY <1>1, Inductive, PTL DEF Spec, ClientCommitMissesNothing

-----------------------------------------------------------------------------
(* ReportFlags implements ReportRegistry *)

\* A step that leaves the committed rows and the history alone is a stutter.
LEMMA SameRowsStutter ==
  ASSUME rows' = rows, revived' = revived
  PROVE  UNCHANGED Registry!regVars
BY DEF Registry!regVars, CommittedRows

\* Before a commit the row of a creation is invisible; so rolling it back is.
LEMMA RollbackStutters ==
  ASSUME IInv, NEW p \in Procs, Rollback(p)
  PROVE  UNCHANGED Registry!regVars
<1>1. revived' = revived
  BY DEF Rollback
<1>2. CommittedRows' = CommittedRows
  BY DEF Rollback, CommittedRows, FreeRow
<1> QED BY <1>1, <1>2 DEF Registry!regVars

\* The row of a creation that has not committed is a free one to the registry.
LEMMA InsertStutters ==
  ASSUME IInv, NEW p \in Procs, Insert(p)
  PROVE  UNCHANGED Registry!regVars
<1>1. PICK r \in Reports :
        /\ rows[r].status = "free"
        /\ rows' = [rows EXCEPT ![r] = [status |-> "pending", kind |-> job[p].kind,
                                        orders |-> job[p].orders]]
  BY DEF Insert
<1>2. rows[r] = FreeRow
  BY <1>1 DEF IInv, TypeOK
<1>3. ASSUME NEW s \in Reports
      PROVE  (IF rows'[s].status = "pending" THEN FreeRow ELSE rows'[s])
               = (IF rows[s].status = "pending" THEN FreeRow ELSE rows[s])
  <2>1. CASE s = r
    BY <2>1, <1>1, <1>2 DEF IInv, TypeOK
  <2>2. CASE s # r
    BY <2>2, <1>1 DEF IInv, TypeOK
  <2> QED BY <2>1, <2>2
<1>4. CommittedRows' = CommittedRows
  BY <1>3 DEF CommittedRows
<1> QED BY <1>4 DEF Insert, Registry!regVars

\* DELETE /reports/:reportID is the registry's Remove.
LEMMA HardDeleteRemoves ==
  ASSUME IInv, NEW p \in Procs, NEW r \in Reports, HardDelete(p, r)
  PROVE  Registry!Remove(r)
<1>1. /\ rows[r].status \in {"live", "deleted"}
      /\ rows' = [rows EXCEPT ![r].status = "gone"]
      /\ revived' = revived
  BY DEF HardDelete
<1>2. rows \in [Reports -> Row]
  BY DEF IInv, TypeOK
<1>3. CommittedRows[r] = rows[r]
  BY <1>1 DEF CommittedRows
<1>4. CommittedRows' = [CommittedRows EXCEPT ![r].status = "gone"]
  <2>1. ASSUME NEW s \in Reports
        PROVE  CommittedRows'[s] = [CommittedRows EXCEPT ![r].status = "gone"][s]
    BY <1>1, <1>2 DEF CommittedRows, Row
  <2> QED BY <2>1 DEF CommittedRows
<1> QED BY <1>1, <1>3, <1>4 DEF Registry!Remove

\* The commit is the step of the registry.
LEMMA CommitImplements ==
  ASSUME IInv, NEW p \in Procs, Commit(p)
  PROVE  [Registry!Next]_(Registry!regVars)
<1> DEFINE R == job[p].report
           op == job[p].op
<1>1. /\ pc[p] = "apply" /\ Missing(p) = {}
      /\ rows' = [r \in Reports |-> CommittedRow(p, r)]
      /\ revived' = revived \cup {r \in Reports : op = "reactivate" /\ r = R
                                                  /\ rows[r].status = "deleted"}
  BY DEF Commit
<1>2. rows \in [Reports -> Row] /\ job[p] \in Job
  BY DEF IInv, TypeOK
<1>3. op \in {"client", "branch", "deactivate", "reactivate", "reconcile"}
  BY <1>1, <1>2 DEF IInv, OpAtPc, Job
<1>4. CASE op = "reconcile"
  <2>1. rows' = rows /\ revived' = revived
    BY <1>1, <1>2, <1>4 DEF CommittedRow
  <2> QED BY <2>1, SameRowsStutter
<1>5. CASE op \in {"client", "branch"}
  <2>1. /\ R \in Reports /\ rows[R].status = "pending"
        /\ rows[R].kind = job[p].kind /\ rows[R].orders = job[p].orders
    BY <1>1, <1>5, OwnRow DEF IInv, Creating
  <2>2. CommittedRows[R] = Registry!FreeRow
    BY <2>1 DEF CommittedRows, FreeRow, Registry!FreeRow
  <2>3. CommittedRows' = [CommittedRows EXCEPT ![R] =
          [status |-> "live", kind |-> job[p].kind, orders |-> job[p].orders]]
    <3>1. rows'[R] = [status |-> "live", kind |-> job[p].kind, orders |-> job[p].orders]
      BY <1>1, <1>2, <1>5, <2>1 DEF CommittedRow, Row
    <3>2. \A s \in Reports \ {R} : rows'[s] = rows[s]
      BY <1>1 DEF CommittedRow
    <3>3. ASSUME NEW s \in Reports
          PROVE  CommittedRows'[s] = [CommittedRows EXCEPT ![R] =
                   [status |-> "live", kind |-> job[p].kind, orders |-> job[p].orders]][s]
      <4>1. CASE s = R
        BY <4>1, <3>1, <2>1 DEF CommittedRows
      <4>2. CASE s # R
        BY <4>2, <3>2, <2>1 DEF CommittedRows
      <4> QED BY <4>1, <4>2
    <3> QED BY <3>3 DEF CommittedRows
  <2>4. job[p].orders # {} /\ job[p].kind \in ClientKinds \cup BranchKinds
    BY <1>5 DEF IInv, OpAtPc
  <2>5. job[p].kind \in ClientKinds => op = "client"
    BY <1>5, KindsAssumption DEF IInv, OpAtPc
  <2>6. ASSUME job[p].kind \in ClientKinds, NEW s \in Reports,
               Registry!Holds(s, job[p].kind, job[p].orders)
        PROVE  FALSE
    <3>1. /\ CommittedRows[s].status = "live" /\ CommittedRows[s].kind = job[p].kind
          /\ CommittedRows[s].orders \cap job[p].orders # {} /\ s \notin revived
      BY <2>6 DEF Registry!Holds
    <3>2. s \in Live /\ rows[s] = CommittedRows[s]
      BY <3>1 DEF CommittedRows, Live, FreeRow
    <3> QED BY <2>5, <2>6, <3>1, <3>2, <1>1 DEF IInv, NothingTaken
  <2>7. revived' = revived
    BY <1>1, <1>5
  <2>8. Registry!Create(R, job[p].kind, job[p].orders)
    BY <2>2, <2>3, <2>4, <2>6, <2>7 DEF Registry!Create
  <2>9. job[p].orders \in SUBSET Orders
    BY <1>2 DEF Job
  <2> QED BY <2>1, <2>4, <2>8, <2>9 DEF Registry!Next
<1>6. CASE op \in {"deactivate", "reactivate"}
  <2> DEFINE status == IF op = "deactivate" THEN "deleted" ELSE "live"
  <2>1. R \in Reports /\ rows[R].status \in {"live", "deleted"}
    BY <1>1, <1>6 DEF IInv, OwnReport
  <2>2. CommittedRows[R] = rows[R]
    BY <2>1 DEF CommittedRows
  <2>3. rows' = [rows EXCEPT ![R].status = status]
    <3>1. ASSUME NEW s \in Reports
          PROVE  rows'[s] = [rows EXCEPT ![R].status = status][s]
      BY <1>1, <1>2, <1>6 DEF CommittedRow
    <3> QED BY <3>1, <1>1, <1>2
  <2>4. CommittedRows' = [CommittedRows EXCEPT ![R].status = status]
    <3>1. ASSUME NEW s \in Reports
          PROVE  CommittedRows'[s] = [CommittedRows EXCEPT ![R].status = status][s]
      BY <2>1, <2>3, <1>2 DEF CommittedRows, Row
    <3> QED BY <3>1 DEF CommittedRows
  <2>5. CASE status = rows[R].status
    <3>1. rows' = rows
      BY <2>1, <2>3, <2>5, <1>2 DEF Row
    <3>2. revived' = revived
      BY <1>1, <2>5
    <3> QED BY <3>1, <3>2, SameRowsStutter
  <2>6. CASE status # rows[R].status /\ op = "deactivate"
    <3>1. Registry!Hide(R)
      BY <2>1, <2>2, <2>4, <2>6, <1>1 DEF Registry!Hide
    <3> QED BY <3>1, <2>1 DEF Registry!Next
  <2>7. CASE status # rows[R].status /\ op = "reactivate"
    <3>1. revived' = revived \cup {R}
      BY <1>1, <2>1, <2>7
    <3>2. Registry!Show(R)
      BY <2>1, <2>2, <2>4, <2>7, <3>1 DEF Registry!Show
    <3> QED BY <3>2, <2>1 DEF Registry!Next
  <2> QED BY <2>5, <2>6, <2>7, <1>6
<1> QED BY <1>3, <1>4, <1>5, <1>6

\* Every report operation, however many statements it takes and whatever runs
\* between them, is one step of the registry or none.
THEOREM Refinement == Spec => ImplementsRegistry
<1>1. Init => Registry!Init
  <2> SUFFICES ASSUME Init PROVE Registry!Init
    OBVIOUS
  <2>1. CommittedRows = [r \in Reports |-> FreeRow] /\ revived = {}
    BY DEF Init, CommittedRows, FreeRow
  <2> QED BY <2>1 DEF Registry!Init, Registry!FreeRow, FreeRow
<1>2. IInv /\ [Next]_vars => [Registry!Next]_(Registry!regVars)
  <2> SUFFICES ASSUME IInv, [Next]_vars PROVE [Registry!Next]_(Registry!regVars)
    OBVIOUS
  <2>1. CASE UNCHANGED vars
    BY <2>1, SameRowsStutter DEF vars
  <2>2. ASSUME NEW p \in Requests, Request(p)
        PROVE  [Registry!Next]_(Registry!regVars)
    <3>1. ASSUME NEW r \in Reports, HardDelete(p, r)
          PROVE  [Registry!Next]_(Registry!regVars)
      <4>1. p \in Procs
        BY DEF Procs
      <4> QED BY <4>1, <3>1, HardDeleteRemoves DEF Registry!Next
    <3>2. CASE rows' = rows /\ revived' = revived
      BY <3>2, SameRowsStutter
    <3> QED BY <2>2, <3>1, <3>2
          DEF Request, OpenClient, OpenBranch, OpenDeactivate, OpenReactivate, Begin
  <2>3. ASSUME NEW p \in Procs, Statement(p) \/ Abort(p)
        PROVE  [Registry!Next]_(Registry!regVars)
    <3>1. CASE Rollback(p)
      BY <3>1, RollbackStutters
    <3>2. CASE Insert(p)
      BY <3>2, InsertStutters
    <3>3. CASE Commit(p)
      BY <3>3, CommitImplements
    <3>4. CASE rows' = rows /\ revived' = revived
      BY <3>4, SameRowsStutter
    <3> QED BY <2>3, <3>1, <3>2, <3>3, <3>4
          DEF Statement, Abort, LockOrder, Recheck, Link, Mark, Recompute, LockRow, dataVars
  <2>4. CASE \/ \E p \in Jobs : OpenReconcile(p)
             \/ \E o \in Ageing : AgeOut(o) \/ Touch(o)
    BY <2>4, SameRowsStutter DEF OpenReconcile, Begin, AgeOut, Touch
  <2> QED BY <2>1, <2>2, <2>3, <2>4 DEF Next
<1> QED BY <1>1, <1>2, Inductive, PTL DEF Spec, ImplementsRegistry, Registry!Spec
=============================================================================
