--------------------------- MODULE ReportDelivery ---------------------------
(***************************************************************************)
(* PATCH /reports/:reportID/deliver: a receiving agent scans a CLIENT      *)
(* report, and the first scan records its agent and its time for good.     *)
(*                                                                         *)
(* The module follows one CLIENT report.  Each call is a process whose     *)
(* steps are the statements of its READ COMMITTED transaction; between two *)
(* of them the report may be hidden, shown or removed, other agents may    *)
(* scan it, and employees may be barred or deleted.  A call is made once   *)
(* and also stands for the time it stamps; a retry is another call.        *)
(*                                                                         *)
(* The transactions that hide, show or remove the report and delete an     *)
(* employee are one step each: they wait for the rows a delivery holds,    *)
(* and their other statements touch nothing that is read here.             *)
(***************************************************************************)
CONSTANTS
  Calls,      \* the scans made in a run (bounds the run)
  Agents,     \* employees whose token says RECEIVING_AGENT
  Insiders,   \* those of the company that owns the report
  NoAgent,    \* receivingAgentId is null
  NoCall      \* deliveredAt is null

ASSUME AgentsAssumption == Insiders \subseteq Agents /\ NoAgent \notin Agents
ASSUME CallsAssumption == NoCall \notin Calls

VARIABLES
  report,   \* the committed Report and ClientReport row
  staff,    \* the committed Employee rows
  pc,       \* the next statement of each call
  caller,   \* the employee whose token the call carries
  count,    \* what updateMany returned to the call
  answer    \* what the call read, and once it is done what it answered

deliveryVars == <<report, staff, pc, caller, count, answer>>

Stamps == Calls \cup {NoCall}
Assignees == Agents \cup {NoAgent}

DeliveryReport == [state : {"live", "deleted", "gone"}, delivered : BOOLEAN,
                   deliveredAt : Stamps, agent : Assignees]

Answer == [status : {0, 200, 403, 404, 500}, delivered : BOOLEAN,
           deliveredAt : Stamps, agent : Assignees]

Failure(status) ==
  [status |-> status, delivered |-> FALSE, deliveredAt |-> NoCall, agent |-> NoAgent]

Success(r) ==
  [status |-> 200, delivered |-> r.delivered, deliveredAt |-> r.deliveredAt,
   agent |-> r.agent]

-----------------------------------------------------------------------------
(* The rows of an open transaction *)

\* The where clause: CLIENT report of the token's company, not soft-deleted.
Available(p) == report.state = "live" /\ caller[p] \in Insiders

\* Slip: the first-delivery condition is forgotten.
DeliverableAgain(p) == Available(p)

Deliverable(p) == Available(p) /\ ~report.delivered

\* Slip: an error is answered while its transaction stays open.
HoldsOn(p) == count[p] = 1 /\ pc[p] \in {"assign", "read", "commit", "done"}

\* The row lock of a successful updateMany is held to the end.
Holds(p) == count[p] = 1 /\ pc[p] \in {"assign", "read", "commit"}

\* Slip: the first delivery is looked up, not claimed by the update.
RowHeldByNobody == FALSE

RowHeld == \E p \in Calls : Holds(p)

\* What call p sees of the report after its two writes.
OwnView(p) ==
  IF Holds(p)
    THEN [report EXCEPT !.delivered = TRUE, !.deliveredAt = p, !.agent = caller[p]]
    ELSE report

-----------------------------------------------------------------------------
(* The handler *)

Call(p, a) ==
  /\ pc[p] = "idle"
  /\ pc' = [pc EXCEPT ![p] = "check"]
  /\ caller' = [caller EXCEPT ![p] = a]
  /\ UNCHANGED <<report, staff, count, answer>>

\* An error thrown inside the transaction rolls it back.
Fail(p, status) ==
  /\ pc' = [pc EXCEPT ![p] = "done"]
  /\ answer' = [answer EXCEPT ![p] = Failure(status)]
  /\ UNCHANGED <<report, staff, caller, count>>

CheckAgent(p) ==
  /\ pc[p] = "check"
  /\ \/ /\ staff[caller[p]] # "active"
        /\ Fail(p, 403)
     \/ /\ staff[caller[p]] = "active"
        /\ pc' = [pc EXCEPT ![p] = "stamp"]
        /\ UNCHANGED <<report, staff, caller, count, answer>>

\* updateMany: a row that does not match is not waited for; one that matches is
\* taken when its holder is done, if it still matches then.
Stamp(p) ==
  /\ pc[p] = "stamp"
  /\ \/ /\ ~Deliverable(p)
        /\ count' = [count EXCEPT ![p] = 0]
        /\ pc' = [pc EXCEPT ![p] = "read"]
     \/ /\ Deliverable(p)
        /\ ~RowHeld
        /\ count' = [count EXCEPT ![p] = 1]
        /\ pc' = [pc EXCEPT ![p] = "assign"]
  /\ UNCHANGED <<report, staff, caller, answer>>

\* connect fails when the employee row is gone by now.
Assign(p) ==
  /\ pc[p] = "assign"
  /\ \/ /\ staff[caller[p]] = "gone"
        /\ Fail(p, 500)
     \/ /\ staff[caller[p]] # "gone"
        /\ pc' = [pc EXCEPT ![p] = "read"]
        /\ UNCHANGED <<report, staff, caller, count, answer>>

\* findFirst with the same where, whether or not this call stamped the row.
Read(p) ==
  /\ pc[p] = "read"
  /\ \/ /\ ~Available(p)
        /\ Fail(p, 404)
     \/ /\ Available(p)
        /\ pc' = [pc EXCEPT ![p] = "commit"]
        /\ answer' = [answer EXCEPT ![p] = Success(OwnView(p))]
        /\ UNCHANGED <<report, staff, caller, count>>

\* The answer may be lost although the transaction is committed.
Commit(p) ==
  /\ pc[p] = "commit"
  /\ report' = OwnView(p)
  /\ pc' = [pc EXCEPT ![p] = "done"]
  /\ answer' \in {answer, [answer EXCEPT ![p] = Failure(500)]}
  /\ UNCHANGED <<staff, caller, count>>

\* The transaction's time limit or a lost connection.
Abort(p) ==
  /\ pc[p] \notin {"idle", "done"}
  /\ Fail(p, 500)

-----------------------------------------------------------------------------
(* Everybody else *)

\* deactivateReport, reactivateReport and deleteReport, by the state they set.
SetReport(from, to) ==
  /\ report.state \in from
  /\ ~RowHeld
  /\ report' = [report EXCEPT !.state = to]
  /\ UNCHANGED <<staff, pc, caller, count, answer>>

\* deactivateEmployee, reactivateEmployee, or a new role or company.
SetStaff(a, from, to) ==
  /\ staff[a] = from
  /\ staff' = [staff EXCEPT ![a] = to]
  /\ UNCHANGED <<report, pc, caller, count, answer>>

\* DELETE of the row waits for the foreign key of an assignment in progress and
\* sets receivingAgentId to null (onDelete: SetNull).
DeleteEmployee(a) ==
  /\ staff[a] # "gone"
  /\ ~\E p \in Calls : Holds(p) /\ pc[p] # "assign" /\ caller[p] = a
  /\ staff' = [staff EXCEPT ![a] = "gone"]
  /\ report' = [report EXCEPT !.agent = IF @ = a THEN NoAgent ELSE @]
  /\ UNCHANGED <<pc, caller, count, answer>>

-----------------------------------------------------------------------------
\* createReport may already have named an agent.
DeliveryInit ==
  /\ report \in [state : {"live"}, delivered : {FALSE}, deliveredAt : {NoCall},
                 agent : Assignees]
  /\ staff = [a \in Agents |-> "active"]
  /\ pc = [p \in Calls |-> "idle"]
  /\ caller = [p \in Calls |-> NoAgent]
  /\ count = [p \in Calls |-> 0]
  /\ answer = [p \in Calls |-> Failure(0)]

Step(p) ==
  \/ CheckAgent(p)
  \/ Stamp(p)
  \/ Assign(p)
  \/ Read(p)
  \/ Commit(p)

Others ==
  \/ SetReport({"live", "deleted"}, "deleted")
  \/ SetReport({"live", "deleted"}, "live")
  \/ SetReport({"live", "deleted"}, "gone")
  \/ \E a \in Agents : \/ SetStaff(a, "active", "barred")
                       \/ SetStaff(a, "barred", "active")
                       \/ DeleteEmployee(a)

DeliveryNext ==
  \/ \E p \in Calls : (\E a \in Agents : Call(p, a)) \/ Step(p) \/ Abort(p)
  \/ Others

DeliverySpec == DeliveryInit /\ [][DeliveryNext]_deliveryVars

\* The server goes on with every call; nobody has to call, to hide the report or
\* to run into the time limit.
FairDeliverySpec == DeliverySpec /\ \A p \in Calls : WF_deliveryVars(Step(p))

-----------------------------------------------------------------------------
(* Properties *)

\* Every variable has its type; only a delivered report has a stamp.
DeliveryTypeOK ==
  /\ report \in DeliveryReport
  /\ report.delivered <=> report.deliveredAt # NoCall
  /\ staff \in [Agents -> {"active", "barred", "gone"}]
  /\ pc \in [Calls -> {"idle", "check", "stamp", "assign", "read", "commit", "done"}]
  /\ caller \in [Calls -> Assignees]
  /\ count \in [Calls -> {0, 1}]
  /\ answer \in [Calls -> Answer]

\* The recorded agent is the one whose own call set the recorded time, an
\* employee of the report's company, and is missing only when that employee was
\* deleted: time and agent are written by two statements, and never mix.
RecordIsOneCall ==
  report.delivered =>
    LET a == caller[report.deliveredAt]
    IN /\ a \in Insiders
       /\ report.agent = a \/ (report.agent = NoAgent /\ staff[a] = "gone")

\* However calls, retries and deletions interleave, a recorded delivery keeps
\* its time and its agent, but for the deletion of that employee.
FirstDeliveryStands ==
  [][report.delivered =>
       /\ report'.delivered
       /\ report'.deliveredAt = report.deliveredAt
       /\ report'.agent \in {report.agent, NoAgent}]_deliveryVars

\* A call that answered "delivered" told of the one delivery that is recorded:
\* no two agents are both told that theirs was the first.
AnswersAgree ==
  \A p \in Calls :
    pc[p] = "done" /\ answer[p].delivered =>
      /\ report.delivered
      /\ answer[p].deliveredAt = report.deliveredAt
      /\ answer[p].agent \in {caller[report.deliveredAt], NoAgent}

\* Every call is answered, though calls wait for each other's row and employees
\* are deleted under them, and none of them needs its time limit for that.
EveryCallAnswered == \A p \in Calls : pc[p] = "check" ~> pc[p] = "done"
=============================================================================
