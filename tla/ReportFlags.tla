----------------------------- MODULE ReportFlags -----------------------------
(***************************************************************************)
(* Reports, the orders they hold, and the six denormalised has...Report    *)
(* flags of an order.                                                      *)
(*                                                                         *)
(* Every HTTP request and the reconcile cron job is a process; its steps   *)
(* are the SQL statements of the code, because other processes run between *)
(* two statements.  The transactions are READ COMMITTED: a statement sees  *)
(* what was committed when the statement began, and its own transaction's  *)
(* writes.  An UPDATE that has to wait for a row re-reads that row only;   *)
(* the EXISTS subqueries of recomputeReportFlags still use the snapshot    *)
(* the statement began with.  So a recompute is modelled by the moment it  *)
(* takes the snapshot (Recompute), the moments it gets each row (LockRow), *)
(* and the commit that makes flags and report visible together (Commit).   *)
(*                                                                         *)
(* The two row locks of an Order that conflict here are the exclusive one  *)
(* (SELECT ... FOR UPDATE, or the UPDATE of the flags) and the key-share   *)
(* one that inserting a row of the join table takes.  FOR UPDATE conflicts *)
(* with both, an UPDATE of the flags with the exclusive one only.          *)
(***************************************************************************)
EXTENDS Naturals, FiniteSets

CONSTANTS
  Orders,       \* order ids, compared by the ORDER BY of the row locks
  Reports,      \* report ids the sequence may hand out (bounds the run)
  Requests,     \* HTTP requests in flight at once (bounds the run)
  Jobs,         \* the reconcile job of each server instance
  ClientKinds,  \* secondary types of CLIENT reports, each with a flag
  StagedKinds,  \* those the returns desk creates without the service's check
  BranchKinds,  \* type and level of BRANCH reports, each with a flag
  Ageing,       \* orders whose updatedAt may leave the window (bounds the run)
  BatchLimit,   \* the LIMIT of the reconcile query
  NoKind,       \* kind of an unused report id
  NoReport      \* report of a request that has none yet

ASSUME OrdersAssumption == Orders \subseteq Nat /\ IsFiniteSet(Orders)
ASSUME KindsAssumption ==
  /\ ClientKinds \cap BranchKinds = {}
  /\ NoKind \notin ClientKinds \cup BranchKinds
  /\ StagedKinds \subseteq ClientKinds
ASSUME ProcsAssumption == Requests \cap Jobs = {}
ASSUME ReportsAssumption == NoReport \notin Reports
ASSUME LimitAssumption == BatchLimit \in Nat \ {0}
ASSUME AgeingAssumption == Ageing \subseteq Orders

Kinds == ClientKinds \cup BranchKinds
Procs == Requests \cup Jobs

VARIABLES
  rows,     \* Report with ClientReport/BranchReport and its join rows
  revived,  \* reports that were soft-deleted and reactivated (history)
  flags,    \* flags[o]: the kinds whose flag is true in the row of order o
  recent,   \* orders with updatedAt inside the reconcile window
  pc,       \* the next statement of each process
  job,      \* what each process was asked to do
  locks,    \* exclusive row locks on orders
  shares,   \* key-share row locks on orders
  snap      \* live reports in the snapshot of a running recompute

dataVars == <<rows, revived, flags, recent>>
procVars == <<pc, job, locks, shares, snap>>
vars == <<rows, revived, flags, recent, pc, job, locks, shares, snap>>

FreeRow == [status |-> "free", kind |-> NoKind, orders |-> {}]
NoJob == [op |-> "none", kind |-> NoKind, orders |-> {}, report |-> NoReport]

Row == [status : {"free", "pending", "live", "deleted", "gone"},
        kind   : Kinds \cup {NoKind},
        orders : SUBSET Orders]

Job == [op     : {"none", "client", "branch", "deactivate", "reactivate", "reconcile"},
        kind   : Kinds \cup {NoKind},
        orders : SUBSET Orders,
        report : Reports \cup {NoReport}]

-----------------------------------------------------------------------------
(* Reading the tables *)

\* "pending" rows are those of a transaction that has not committed.
Live == {r \in Reports : rows[r].status = "live"}

\* The EXISTS conditions of order o over the reports R.
FlagsFrom(R, o) == {rows[r].kind : r \in {x \in R : o \in rows[x].orders}}

TrueFlags(o) == FlagsFrom(Live, o)

\* Slip: "every" for "some" in the query.
TakenEvery(k, S) == \E r \in Live : rows[r].kind = k /\ S \subseteq rows[r].orders

\* A visible report of this secondary type already holds one of the orders.
Taken(k, S) == \E r \in Live : rows[r].kind = k /\ rows[r].orders \cap S # {}

\* Slip: a flag that is true without a report is not looked for.
MismatchedMissing == {o \in recent : ~(TrueFlags(o) \subseteq flags[o])}

\* Orders the reconcile query returns before its LIMIT.
Mismatched == {o \in recent : flags[o] # TrueFlags(o)}

-----------------------------------------------------------------------------
(* Row locks *)

LockedByOther(p, o) == \E q \in Procs \ {p} : o \in locks[q]
SharedByOther(p, o) == \E q \in Procs \ {p} : o \in shares[q]

\* Only the SELECT ... FOR UPDATE of a CLIENT creation blocks a key-share lock.
ForUpdateByOther(p, o) ==
  \E q \in Procs \ {p} : job[q].op = "client" /\ o \in locks[q]

\* The report row is locked from its UPDATE to the end of the transaction.
RowLocked(r) ==
  \E q \in Procs : /\ job[q].op \in {"deactivate", "reactivate"}
                   /\ job[q].report = r
                   /\ pc[q] \in {"recompute", "apply"}

Missing(p) == job[p].orders \ locks[p]

\* Slip: no ORDER BY.
LockTargetsUnordered(p) == Missing(p)

\* ORDER BY o."id" FOR UPDATE: the next row to lock is the least one left.
LockTargets(p) == {o \in Missing(p) : \A x \in Missing(p) : o <= x}

-----------------------------------------------------------------------------
(* Starting and ending a request *)

Begin(p, at, op, k, S, r) ==
  /\ pc[p] = "idle"
  /\ pc' = [pc EXCEPT ![p] = at]
  /\ job' = [job EXCEPT ![p] = [op |-> op, kind |-> k, orders |-> S, report |-> r]]
  /\ UNCHANGED <<rows, revived, flags, recent, locks, shares, snap>>

Finish(p) ==
  /\ pc' = [pc EXCEPT ![p] = "idle"]
  /\ job' = [job EXCEPT ![p] = NoJob]
  /\ locks' = [locks EXCEPT ![p] = {}]
  /\ shares' = [shares EXCEPT ![p] = {}]
  /\ snap' = [snap EXCEPT ![p] = {}]

\* The row a transaction inserted disappears with it.
Rollback(p) ==
  /\ Finish(p)
  /\ rows' = [r \in Reports |->
                IF rows[r].status = "pending" /\ r = job[p].report
                  THEN FreeRow ELSE rows[r]]
  /\ UNCHANGED <<revived, flags, recent>>

-----------------------------------------------------------------------------
(* Creating a report *)

\* Slip: the transaction starts with the insert, as for a BRANCH report.
OpenClientUnlocked(p, k, S) ==
  /\ S # {}
  /\ k \in StagedKinds \/ ~Taken(k, S)
  /\ Begin(p, "insert", "client", k, S, NoReport)

\* ReportsService.createReport reads the orders with their live reports and
\* refuses before any write; the returns desk calls the repository directly.
OpenClient(p, k, S) ==
  /\ S # {}
  /\ k \in StagedKinds \/ ~Taken(k, S)
  /\ Begin(p, "lock", "client", k, S, NoReport)

\* A BRANCH report is created whatever reports the orders are in.
OpenBranch(p, k, S) ==
  /\ S # {}
  /\ Begin(p, "insert", "branch", k, S, NoReport)

LockOrder(p) ==
  /\ pc[p] = "lock"
  /\ \E o \in LockTargets(p) :
       /\ ~LockedByOther(p, o)
       /\ ~SharedByOther(p, o)
       /\ locks' = [locks EXCEPT ![p] = @ \cup {o}]
  /\ UNCHANGED <<dataVars, pc, job, shares, snap>>

\* Slip: the service's check is trusted after the wait.
RecheckNothing(p) ==
  /\ pc[p] = "lock"
  /\ Missing(p) = {}
  /\ pc' = [pc EXCEPT ![p] = "insert"]
  /\ UNCHANGED <<dataVars, job, locks, shares, snap>>

\* findFirst after the locks: 409 and rollback, or on to the insert.
Recheck(p) ==
  /\ pc[p] = "lock"
  /\ Missing(p) = {}
  /\ \/ /\ Taken(job[p].kind, job[p].orders)
        /\ Rollback(p)
     \/ /\ ~Taken(job[p].kind, job[p].orders)
        /\ pc' = [pc EXCEPT ![p] = "insert"]
        /\ UNCHANGED <<dataVars, job, locks, shares, snap>>

\* A CLIENT creation holds FOR UPDATE, so its own join rows never wait.
Insert(p) ==
  /\ pc[p] = "insert"
  /\ \E r \in Reports :
       /\ rows[r].status = "free"
       /\ rows' = [rows EXCEPT ![r] = [status |-> "pending", kind |-> job[p].kind,
                                       orders |-> job[p].orders]]
       /\ job' = [job EXCEPT ![p].report = r]
  /\ pc' = [pc EXCEPT ![p] = IF job[p].op = "client" THEN "recompute" ELSE "link"]
  /\ UNCHANGED <<revived, flags, recent, locks, shares, snap>>

\* The join rows of a BRANCH report go in one by one.
Link(p) ==
  /\ pc[p] = "link"
  /\ \E o \in job[p].orders \ shares[p] :
       /\ ~ForUpdateByOther(p, o)
       /\ shares' = [shares EXCEPT ![p] = @ \cup {o}]
  /\ pc' = [pc EXCEPT ![p] = IF shares'[p] = job[p].orders THEN "recompute" ELSE "link"]
  /\ UNCHANGED <<dataVars, job, locks, snap>>

-----------------------------------------------------------------------------
(* Soft-deleting, restoring and removing a report *)

OpenDeactivate(p, r) ==
  /\ rows[r].status \in {"live", "deleted"}
  /\ Begin(p, "mark", "deactivate", NoKind, rows[r].orders, r)

OpenReactivate(p, r) ==
  /\ rows[r].status \in {"live", "deleted"}
  /\ Begin(p, "mark", "reactivate", NoKind, rows[r].orders, r)

\* tx.report.update: waits for the row, fails if the report was removed.
Mark(p) ==
  /\ pc[p] = "mark"
  /\ ~RowLocked(job[p].report)
  /\ \/ /\ rows[job[p].report].status = "gone"
        /\ Rollback(p)
     \/ /\ rows[job[p].report].status # "gone"
        /\ pc' = [pc EXCEPT ![p] = "recompute"]
        /\ UNCHANGED <<dataVars, job, locks, shares, snap>>

\* DELETE /reports/:reportID: one statement, the join rows cascade, and no
\* flag of any order is recomputed.
HardDelete(p, r) ==
  /\ pc[p] = "idle"
  /\ rows[r].status \in {"live", "deleted"}
  /\ ~RowLocked(r)
  /\ rows' = [rows EXCEPT ![r].status = "gone"]
  /\ UNCHANGED <<revived, flags, recent, procVars>>

-----------------------------------------------------------------------------
(* recomputeReportFlags *)

\* What the transaction of p itself changes in the set of live reports.
WithOwn(p, R) ==
  CASE job[p].op \in {"client", "branch", "reactivate"} -> R \cup {job[p].report}
    [] job[p].op = "deactivate" -> R \ {job[p].report}
    [] OTHER -> R

Recompute(p) ==
  /\ pc[p] = "recompute"
  /\ snap' = [snap EXCEPT ![p] =
                {r \in WithOwn(p, Live) : rows[r].orders \cap job[p].orders # {}}]
  /\ pc' = [pc EXCEPT ![p] = "apply"]
  /\ UNCHANGED <<dataVars, job, locks, shares>>

\* The UPDATE reaches the rows in the order of the scan, not of the ids.
LockRow(p) ==
  /\ pc[p] = "apply"
  /\ \E o \in Missing(p) :
       /\ ~LockedByOther(p, o)
       /\ locks' = [locks EXCEPT ![p] = @ \cup {o}]
  /\ UNCHANGED <<dataVars, pc, job, shares, snap>>

CommittedRow(p, r) ==
  IF r # job[p].report \/ job[p].op = "reconcile" THEN rows[r]
  ELSE [rows[r] EXCEPT !.status = IF job[p].op = "deactivate" THEN "deleted" ELSE "live"]

WrittenFlags(p, o) == IF o \in job[p].orders THEN FlagsFrom(snap[p], o) ELSE flags[o]

Commit(p) ==
  /\ pc[p] = "apply"
  /\ Missing(p) = {}
  /\ rows' = [r \in Reports |-> CommittedRow(p, r)]
  /\ flags' = [o \in Orders |-> WrittenFlags(p, o)]
  /\ revived' = revived \cup {r \in Reports : /\ job[p].op = "reactivate"
                                              /\ r = job[p].report
                                              /\ rows[r].status = "deleted"}
  /\ Finish(p)
  /\ UNCHANGED recent

-----------------------------------------------------------------------------
(* The reconcile job, failures, and time *)

\* An order keeps waiting for the next run when the LIMIT cuts the result.
OpenReconcile(p) ==
  \E B \in SUBSET Mismatched :
    /\ B # {}
    /\ Cardinality(B) <= BatchLimit
    /\ B = Mismatched \/ Cardinality(B) = BatchLimit
    /\ Begin(p, "recompute", "reconcile", NoKind, B, NoReport)

Blocked(p) == pc[p] = "apply" /\ \E o \in Missing(p) : LockedByOther(p, o)

\* A request ends early when the 30 s transaction timeout, a deadlock or a lost
\* connection rolls it back; the job, a single statement, only as the victim
\* of a deadlock.
Abort(p) ==
  /\ pc[p] # "idle"
  /\ p \in Jobs => Blocked(p)
  /\ Rollback(p)

\* 30 days pass without a Prisma update of the order ...
AgeOut(o) ==
  /\ recent' = recent \ {o}
  /\ UNCHANGED <<rows, revived, flags, procVars>>

\* ... or one sets updatedAt.  The raw UPDATE of the flags does not.
Touch(o) ==
  /\ recent' = recent \cup {o}
  /\ UNCHANGED <<rows, revived, flags, procVars>>

-----------------------------------------------------------------------------
Init ==
  /\ rows = [r \in Reports |-> FreeRow]
  /\ revived = {}
  /\ flags = [o \in Orders |-> {}]
  /\ recent = Orders
  /\ pc = [p \in Procs |-> "idle"]
  /\ job = [p \in Procs |-> NoJob]
  /\ locks = [p \in Procs |-> {}]
  /\ shares = [p \in Procs |-> {}]
  /\ snap = [p \in Procs |-> {}]

Request(p) ==
  \/ \E k \in ClientKinds, S \in SUBSET Orders : OpenClient(p, k, S)
  \/ \E k \in BranchKinds, S \in SUBSET Orders : OpenBranch(p, k, S)
  \/ \E r \in Reports : OpenDeactivate(p, r)
  \/ \E r \in Reports : OpenReactivate(p, r)
  \/ \E r \in Reports : HardDelete(p, r)

Statement(p) ==
  \/ LockOrder(p)
  \/ Recheck(p)
  \/ Insert(p)
  \/ Link(p)
  \/ Mark(p)
  \/ Recompute(p)
  \/ LockRow(p)
  \/ Commit(p)

Next ==
  \/ \E p \in Requests : Request(p)
  \/ \E p \in Procs : Statement(p) \/ Abort(p)
  \/ \E p \in Jobs : OpenReconcile(p)
  \/ \E o \in Ageing : AgeOut(o) \/ Touch(o)

Spec == Init /\ [][Next]_vars

\* The job is started every day and its statement runs to the end; nothing is
\* assumed of the requests.
FairSpec ==
  /\ Spec
  /\ \A p \in Jobs : WF_vars(OpenReconcile(p)) /\ WF_vars(Statement(p))

-----------------------------------------------------------------------------
(* Properties *)

\* Every variable has its type, an idle process holds no lock, and every row of
\* a report in use has a kind and an order.
TypeOK ==
  /\ rows \in [Reports -> Row]
  /\ revived \in SUBSET Reports
  /\ flags \in [Orders -> SUBSET Kinds]
  /\ recent \in SUBSET Orders
  /\ pc \in [Procs -> {"idle", "lock", "insert", "link", "mark", "recompute", "apply"}]
  /\ job \in [Procs -> Job]
  /\ locks \in [Procs -> SUBSET Orders]
  /\ shares \in [Procs -> SUBSET Orders]
  /\ snap \in [Procs -> SUBSET Reports]
  /\ \A p \in Procs : pc[p] = "idle" => locks[p] = {} /\ shares[p] = {}
  /\ \A r \in Reports : IF rows[r].status = "free" THEN rows[r] = FreeRow
                         ELSE rows[r].kind \in Kinds /\ rows[r].orders # {}

\* No order is in two visible CLIENT reports of the same secondary type, except
\* through a report that was soft-deleted and then reactivated: the locks and
\* the second look of createReport leave no other way, however creations,
\* deletions and restorations interleave.
NoDoubleBilling ==
  \A r, s \in Live :
    /\ r # s
    /\ rows[r].kind \in ClientKinds
    /\ rows[r].kind = rows[s].kind
    /\ rows[r].orders \cap rows[s].orders # {}
    => r \in revived \/ s \in revived

\* CLIENT creations whose batches overlap queue up in one direction: whoever
\* waits for a row wants a smaller id than the holder, if the holder waits too.
\* So no number of them can wait on each other in a circle.
WantsRowOf(p, q, o) ==
  /\ pc[p] = "lock"
  /\ o \in LockTargets(p) \cap locks[q]

CreatorsQueueInOrder ==
  \A p, q \in Procs : \A a, b \in Orders :
    /\ pc[q] = "lock"
    /\ WantsRowOf(p, q, a)
    /\ b \in LockTargets(q)
    => a < b

\* A CLIENT creation commits flags that miss no visible report of its orders:
\* with FOR UPDATE held before its snapshot no other creation or restoration
\* touching them can commit between the snapshot and the commit.
ClientCommitMissesNothing ==
  [][\A p \in Procs :
       Commit(p) /\ job[p].op = "client"
         => \A o \in job[p].orders : TrueFlags(o)' \subseteq flags'[o]]_vars

\* Whenever no request is running the flags of an order say which visible
\* reports hold it.  Removed reports are left out: DELETE does not maintain the
\* flags at all.
FlagsMatchAtRest ==
  /\ \A p \in Procs : pc[p] = "idle"
  /\ \A r \in Reports : rows[r].status # "gone"
  => \A o \in Orders : flags[o] = TrueFlags(o)

\* When the requests stop, the daily job leaves every order whose updatedAt
\* stays inside the window with the flags its visible reports imply.
RequestsStop ==
  /\ <>[](\A p \in Requests : pc[p] = "idle")
  /\ <>[][\A p \in Requests : ~Request(p)]_vars

FlagsRepaired ==
  RequestsStop => \A o \in Orders : <>[](o \in recent) => <>[](flags[o] = TrueFlags(o))

\* The committed rows, as the abstract registry sees them.
CommittedRows ==
  [r \in Reports |-> IF rows[r].status = "pending" THEN FreeRow ELSE rows[r]]

Registry == INSTANCE ReportRegistry WITH rows <- CommittedRows

\* Seen from the committed rows, every report operation is one atomic step.
ImplementsRegistry == Registry!Spec
=============================================================================
