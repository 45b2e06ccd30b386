--------------------------- MODULE ReportsProofs ---------------------------
(***************************************************************************)
(* Proofs about the reports beside the CLIENT report's flags: the delivery *)
(* of a report (ReportDelivery), for any number of calls and employees, and*)
(* the other types of reports (OtherReports), for any number of orders,    *)
(* reports and requests.                                                   *)
(*                                                                         *)
(* What makes the delivery's properties inductive is the row lock: at most *)
(* one call holds the report, the report it holds stays live and           *)
(* undelivered until it commits, and its agent cannot be deleted once      *)
(* assigned.                                                               *)
(*                                                                         *)
(* The sum of a report is only compared with another sum, never computed:  *)
(* two sums over the same orders are equal when their terms are.           *)
(***************************************************************************)
EXTENDS ReportDelivery, OtherReports, TLAPS

-----------------------------------------------------------------------------
(* ReportDelivery *)

\* Two calls never hold the report at once.
OneHolder == \A p, q \in Calls : Holds(p) /\ Holds(q) => p = q

\* What a call checked when it took the row is still so.
HolderDeliverable == \A p \in Calls : Holds(p) => Deliverable(p)

\* The foreign key of an assignment in progress keeps the employee.
HolderEmployed ==
  \A p \in Calls : Holds(p) /\ pc[p] # "assign" => staff[caller[p]] # "gone"

\* A call has a caller from its first step on.
CallerKnown == \A p \in Calls : pc[p] # "idle" => caller[p] \in Agents

\* The recorded stamp is that of a finished call.
StampDone == report.delivered => pc[report.deliveredAt] = "done"

\* What a call is about to answer agrees with what it is about to record, or
\* with what was recorded when it read.
PendingAgrees ==
  \A p \in Calls :
    pc[p] = "commit" /\ answer[p].delivered =>
      IF Holds(p)
        THEN answer[p].deliveredAt = p /\ answer[p].agent = caller[p]
        ELSE /\ report.delivered
             /\ answer[p].deliveredAt = report.deliveredAt
             /\ answer[p].agent \in {caller[report.deliveredAt], NoAgent}

DeliveryIInv ==
  /\ DeliveryTypeOK
  /\ OneHolder
  /\ HolderDeliverable
  /\ HolderEmployed
  /\ CallerKnown
  /\ StampDone
  /\ RecordIsOneCall
  /\ PendingAgrees
  /\ AnswersAgree

\* The invariant holds initially.
LEMMA DeliveryInitIInv == DeliveryInit => DeliveryIInv
  <1> SUFFICES ASSUME DeliveryInit PROVE DeliveryIInv
    OBVIOUS
  <1> USE AgentsAssumption, CallsAssumption DEF DeliveryInit
  <1>1. DeliveryTypeOK
    BY DEF DeliveryTypeOK, DeliveryReport, Answer, Failure, Stamps, Assignees
  <1>2. \A p \in Calls : ~Holds(p) /\ pc[p] = "idle"
    BY DEF Holds
  <1> QED
    BY <1>1, <1>2 DEF DeliveryIInv, OneHolder, HolderDeliverable, HolderEmployed,
         CallerKnown, StampDone, RecordIsOneCall, PendingAgrees, AnswersAgree

\* A failing call gives up whatever it held and answers nothing.
LEMMA FailKeeps ==
  ASSUME DeliveryIInv, NEW p \in Calls, NEW s \in {403, 404, 500}, pc[p] # "idle", pc[p] # "done",
         Fail(p, s)
  PROVE  DeliveryIInv'
  <1> USE AgentsAssumption, CallsAssumption DEF DeliveryIInv, Fail
  <1>1. DeliveryTypeOK'
    BY DEF DeliveryTypeOK, Answer, Failure, Stamps, Assignees
  <1>2. \A q \in Calls : Holds(q)' => Holds(q) /\ q # p
    BY DEF Holds, DeliveryTypeOK
  <1>3. \A q \in Calls \ {p} : pc'[q] = pc[q] /\ answer'[q] = answer[q]
    BY DEF DeliveryTypeOK
  <1>4. pc'[p] = "done" /\ ~answer'[p].delivered
    BY DEF DeliveryTypeOK, Failure
  <1>5. (OneHolder /\ HolderDeliverable /\ HolderEmployed /\ CallerKnown)'
    BY <1>2, <1>3, <1>4
    DEF OneHolder, HolderDeliverable, HolderEmployed, CallerKnown, Deliverable, Available
  <1>6. (StampDone /\ RecordIsOneCall)'
    BY <1>3, <1>4 DEF StampDone, RecordIsOneCall, DeliveryTypeOK, DeliveryReport, Stamps
  <1>7. \A q \in Calls \ {p} : Holds(q)' <=> Holds(q)
    BY <1>3 DEF Holds
  <1>8. PendingAgrees'
    BY <1>3, <1>4, <1>7 DEF PendingAgrees
  <1>9. AnswersAgree'
    BY <1>3, <1>4 DEF AnswersAgree
  <1> QED
    BY <1>1, <1>5, <1>6, <1>8, <1>9

\* A call starts with no row and no answer.
LEMMA CallKeeps ==
  ASSUME DeliveryIInv, NEW p \in Calls, NEW a \in Agents, Call(p, a)
  PROVE  DeliveryIInv'
  <1> USE AgentsAssumption, CallsAssumption DEF DeliveryIInv, Call
  <1>1. DeliveryTypeOK'
    BY DEF DeliveryTypeOK, Assignees
  <1>2. \A q \in Calls : Holds(q)' <=> Holds(q)
    BY DEF Holds, DeliveryTypeOK
  <1>3. \A q \in Calls : pc[q] # "idle" => pc'[q] = pc[q] /\ caller'[q] = caller[q]
    BY DEF DeliveryTypeOK
  <1>4. pc'[p] = "check" /\ caller'[p] = a
    BY DEF DeliveryTypeOK
  <1>5. \A q \in Calls : Holds(q) => pc[q] # "idle"
    BY DEF Holds
  <1>6. (OneHolder /\ HolderDeliverable /\ HolderEmployed)'
    BY <1>2, <1>3, <1>5
    DEF OneHolder, HolderDeliverable, HolderEmployed, Deliverable, Available
  <1>7. CallerKnown'
    BY <1>4 DEF CallerKnown, DeliveryTypeOK
  <1>8. report.delivered => /\ report.deliveredAt \in Calls
                            /\ caller'[report.deliveredAt] = caller[report.deliveredAt]
                            /\ pc'[report.deliveredAt] = "done"
    BY <1>3 DEF StampDone, DeliveryTypeOK, DeliveryReport, Stamps
  <1>9. (StampDone /\ RecordIsOneCall)'
    BY <1>8 DEF StampDone, RecordIsOneCall
  <1>10. \A q \in Calls : pc'[q] \in {"commit", "done"} => pc'[q] = pc[q] /\ caller'[q] = caller[q]
    BY <1>3, <1>4 DEF DeliveryTypeOK
  <1>11. PendingAgrees'
    BY <1>2, <1>8, <1>10 DEF PendingAgrees
  <1>12. AnswersAgree'
    BY <1>8, <1>10 DEF AnswersAgree
  <1> QED
    BY <1>1, <1>6, <1>7, <1>9, <1>11, <1>12

\* A step that only moves a call on, without taking or giving up the row and
\* short of its commit, changes nothing the invariant speaks of.
LEMMA MoveKeeps ==
  ASSUME DeliveryIInv, NEW p \in Calls,
         NEW from \in {"check", "assign"}, NEW to \in {"stamp", "read"},
         pc[p] = from, from = "check" <=> to = "stamp",
         pc' = [pc EXCEPT ![p] = to],
         to = "read" => staff[caller[p]] # "gone",
         UNCHANGED <<report, staff, caller, count, answer>>,
         from = "check" => ~Holds(p)
  PROVE  DeliveryIInv'
  <1> USE AgentsAssumption, CallsAssumption DEF DeliveryIInv
  <1>1. DeliveryTypeOK'
    BY DEF DeliveryTypeOK
  <1>2. \A q \in Calls : Holds(q)' <=> Holds(q)
    BY DEF Holds, DeliveryTypeOK
  <1>3. \A q \in Calls \ {p} : pc'[q] = pc[q]
    BY DEF DeliveryTypeOK
  <1>4. pc'[p] = to
    BY DEF DeliveryTypeOK
  <1>5. (OneHolder /\ HolderDeliverable /\ CallerKnown)'
    BY <1>2, <1>3 DEF OneHolder, HolderDeliverable, CallerKnown, Deliverable, Available
  <1>6. HolderEmployed'
    BY <1>2, <1>3, <1>4 DEF HolderEmployed
  <1>7. (StampDone /\ RecordIsOneCall)'
    BY <1>3 DEF StampDone, RecordIsOneCall, DeliveryTypeOK, DeliveryReport, Stamps
  <1>8. (PendingAgrees /\ AnswersAgree)'
    BY <1>2, <1>3, <1>4 DEF PendingAgrees, AnswersAgree
  <1> QED
    BY <1>1, <1>5, <1>6, <1>7, <1>8

\* Only a free and still undelivered report is taken.
LEMMA StampKeeps ==
  ASSUME DeliveryIInv, NEW p \in Calls, Stamp(p)
  PROVE  DeliveryIInv'
  <1> USE AgentsAssumption, CallsAssumption DEF DeliveryIInv, Stamp
  <1>1. DeliveryTypeOK'
    BY DEF DeliveryTypeOK
  <1>2. \A q \in Calls \ {p} : pc'[q] = pc[q] /\ (Holds(q)' <=> Holds(q))
    BY DEF Holds, DeliveryTypeOK
  <1>3. pc'[p] \in {"read", "assign"} /\ pc[p] = "stamp"
    BY DEF DeliveryTypeOK
  <1>4. Holds(p)' => pc'[p] = "assign" /\ Deliverable(p) /\ ~RowHeld
    BY DEF Holds, DeliveryTypeOK
  <1>5. OneHolder'
    BY <1>2, <1>4 DEF OneHolder, RowHeld
  <1>6. HolderDeliverable'
    BY <1>2, <1>4 DEF HolderDeliverable, Deliverable, Available
  <1>7. (HolderEmployed /\ CallerKnown)'
    BY <1>2, <1>3, <1>4 DEF HolderEmployed, CallerKnown
  <1>8. (StampDone /\ RecordIsOneCall)'
    BY <1>2, <1>3 DEF StampDone, RecordIsOneCall, DeliveryTypeOK, DeliveryReport, Stamps
  <1>9. (PendingAgrees /\ AnswersAgree)'
    BY <1>2, <1>3 DEF PendingAgrees, AnswersAgree
  <1> QED
    BY <1>1, <1>5, <1>6, <1>7, <1>8, <1>9

\* What a call reads is either its own delivery or the recorded one.
LEMMA ReadKeeps ==
  ASSUME DeliveryIInv, NEW p \in Calls, Read(p)
  PROVE  DeliveryIInv'
  <1> USE AgentsAssumption, CallsAssumption DEF DeliveryIInv
  <1>1. CASE Fail(p, 404)
    BY <1>1, FailKeeps DEF Read
  <1>2. CASE /\ pc[p] = "read"
             /\ pc' = [pc EXCEPT ![p] = "commit"]
             /\ answer' = [answer EXCEPT ![p] = Success(OwnView(p))]
             /\ UNCHANGED <<report, staff, caller, count>>
    <2> USE <1>2
    <2>1. OwnView(p) \in DeliveryReport
      BY DEF OwnView, DeliveryReport, DeliveryTypeOK, Stamps, Assignees
    <2>2. DeliveryTypeOK'
      BY <2>1 DEF DeliveryTypeOK, Success, Answer, DeliveryReport
    <2>3. \A q \in Calls : Holds(q)' <=> Holds(q)
      BY DEF Holds, DeliveryTypeOK
    <2>4. \A q \in Calls \ {p} : pc'[q] = pc[q] /\ answer'[q] = answer[q]
      BY DEF DeliveryTypeOK
    <2>5. pc'[p] = "commit" /\ answer'[p] = Success(OwnView(p))
      BY DEF DeliveryTypeOK
    <2>6. (OneHolder /\ HolderDeliverable /\ HolderEmployed /\ CallerKnown)'
      BY <2>3, <2>4, <2>5
      DEF OneHolder, HolderDeliverable, HolderEmployed, CallerKnown, Deliverable, Available
    <2>7. (StampDone /\ RecordIsOneCall)'
      BY <2>4, <2>5 DEF StampDone, RecordIsOneCall, DeliveryTypeOK, DeliveryReport, Stamps
    <2>8. CASE Holds(p)
      <3>1. answer'[p].deliveredAt = p /\ answer'[p].agent = caller[p]
        BY <2>5, <2>8 DEF OwnView, Success, DeliveryTypeOK, DeliveryReport
      <3> QED
        BY <2>2, <2>3, <2>4, <2>5, <2>6, <2>7, <2>8, <3>1
        DEF PendingAgrees, AnswersAgree
    <2>9. CASE ~Holds(p)
      <3>1. answer'[p] = Success(report)
        BY <2>5, <2>9 DEF OwnView
      <3>2. answer'[p].delivered => /\ report.delivered
                                    /\ answer'[p].deliveredAt = report.deliveredAt
                                    /\ answer'[p].agent \in {caller[report.deliveredAt], NoAgent}
        BY <3>1 DEF Success, RecordIsOneCall
      <3> QED
        BY <2>2, <2>3, <2>4, <2>5, <2>6, <2>7, <2>9, <3>2
        DEF PendingAgrees, AnswersAgree
    <2> QED
      BY <2>8, <2>9
  <1> QED
    BY <1>1, <1>2 DEF Read

\* A commit records what the call pends, and no other call can contradict it.
LEMMA CommitKeeps ==
  ASSUME DeliveryIInv, NEW p \in Calls, Commit(p)
  PROVE  DeliveryIInv'
  <1> USE AgentsAssumption, CallsAssumption DEF DeliveryIInv
  <1>0. /\ pc[p] = "commit"
        /\ pc' = [pc EXCEPT ![p] = "done"]
        /\ answer' \in {answer, [answer EXCEPT ![p] = Failure(500)]}
        /\ staff' = staff /\ caller' = caller /\ count' = count
    BY DEF Commit
  <1> USE <1>0
  <1>1. pc[p] = "commit" /\ pc'[p] = "done" /\ \A q \in Calls \ {p} : pc'[q] = pc[q]
    BY DEF DeliveryTypeOK
  <1>2. \A q \in Calls \ {p} : answer'[q] = answer[q]
    BY DEF DeliveryTypeOK
  <1>3. answer'[p] = answer[p] \/ ~answer'[p].delivered
    BY DEF DeliveryTypeOK, Failure
  <1>4. answer' \in [Calls -> Answer]
    <2>1. Failure(500) \in Answer
      BY DEF Failure, Answer, Stamps, Assignees
    <2>2. CASE answer' = answer
      BY <2>2 DEF DeliveryTypeOK
    <2>3. CASE answer' = [answer EXCEPT ![p] = Failure(500)]
      BY <2>1, <2>3 DEF DeliveryTypeOK
    <2> QED
      BY <2>2, <2>3
  <1>5. \A q \in Calls : Holds(q)' <=> Holds(q) /\ q # p
    BY <1>1 DEF Holds
  <1>6. caller[p] \in Agents
    BY <1>1 DEF CallerKnown
  <1>7. CASE Holds(p)
    <2>1. report' = [report EXCEPT !.delivered = TRUE, !.deliveredAt = p, !.agent = caller[p]]
      BY <1>7 DEF OwnView, Commit
    <2>2. Deliverable(p) /\ staff[caller[p]] # "gone"
      BY <1>1, <1>7 DEF HolderDeliverable, HolderEmployed
    <2>3. ~report.delivered /\ caller[p] \in Insiders
      BY <2>2 DEF Deliverable, Available
    <2>4. report' \in DeliveryReport /\ report'.delivered /\ report'.deliveredAt = p
          /\ report'.agent = caller[p]
      BY <2>1, <1>6 DEF DeliveryTypeOK, DeliveryReport, Stamps, Assignees
    <2>5. DeliveryTypeOK'
      BY <2>4, <1>4 DEF DeliveryTypeOK
    <2>6. \A q \in Calls : ~Holds(q)'
      BY <1>5, <1>7 DEF OneHolder
    <2>7. (OneHolder /\ HolderDeliverable /\ HolderEmployed /\ CallerKnown)'
      BY <2>6, <1>1, <1>6 DEF OneHolder, HolderDeliverable, HolderEmployed, CallerKnown
    <2>8. (StampDone /\ RecordIsOneCall)'
      BY <2>3, <2>4, <1>1 DEF StampDone, RecordIsOneCall
    <2>9. \A q \in Calls \ {p} : pc[q] \in {"commit", "done"} => ~answer[q].delivered
      BY <2>3, <1>7 DEF PendingAgrees, AnswersAgree, OneHolder
    <2>10. PendingAgrees'
      BY <2>9, <1>1, <1>2 DEF PendingAgrees
    <2>11. AnswersAgree'
      BY <2>4, <2>9, <1>1, <1>2, <1>3, <1>7 DEF AnswersAgree, PendingAgrees
    <2> QED
      BY <2>5, <2>7, <2>8, <2>10, <2>11
  <1>8. CASE ~Holds(p)
    <2>1. report' = report
      BY <1>8 DEF OwnView, Commit
    <2>2. DeliveryTypeOK'
      BY <2>1, <1>4 DEF DeliveryTypeOK
    <2>3. (OneHolder /\ HolderDeliverable /\ HolderEmployed /\ CallerKnown)'
      BY <2>1, <1>1, <1>5, <1>6
      DEF OneHolder, HolderDeliverable, HolderEmployed, CallerKnown, Deliverable, Available
    <2>4. (StampDone /\ RecordIsOneCall)'
      BY <2>1, <1>1 DEF StampDone, RecordIsOneCall, DeliveryTypeOK, DeliveryReport, Stamps
    <2>5. PendingAgrees'
      BY <2>1, <1>1, <1>2, <1>5 DEF PendingAgrees
    <2>6. AnswersAgree'
      BY <2>1, <1>1, <1>2, <1>3, <1>8 DEF AnswersAgree, PendingAgrees
    <2> QED
      BY <2>2, <2>3, <2>4, <2>5, <2>6
  <1> QED
    BY <1>7, <1>8

\* A report that somebody holds is not hidden, shown or removed.
LEMMA SetStateKeeps ==
  ASSUME DeliveryIInv, NEW S, NEW to \in {"live", "deleted", "gone"}, SetReport(S, to)
  PROVE  DeliveryIInv'
  <1> USE AgentsAssumption, CallsAssumption DEF DeliveryIInv, SetReport
  <1>1. /\ report' \in DeliveryReport
        /\ report'.delivered = report.delivered
        /\ report'.deliveredAt = report.deliveredAt
        /\ report'.agent = report.agent
    BY DEF DeliveryTypeOK, DeliveryReport
  <1>2. DeliveryTypeOK'
    BY <1>1 DEF DeliveryTypeOK
  <1>3. \A q \in Calls : ~Holds(q) /\ ~Holds(q)'
    BY DEF RowHeld, Holds
  <1>4. (OneHolder /\ HolderDeliverable /\ HolderEmployed /\ CallerKnown)'
    BY <1>3 DEF OneHolder, HolderDeliverable, HolderEmployed, CallerKnown
  <1>5. (StampDone /\ RecordIsOneCall)'
    BY <1>1 DEF StampDone, RecordIsOneCall
  <1>6. (PendingAgrees /\ AnswersAgree)'
    BY <1>1, <1>3 DEF PendingAgrees, AnswersAgree
  <1> QED
    BY <1>2, <1>4, <1>5, <1>6

\* Barring an employee changes no row of the report.
LEMMA SetStaffKeeps ==
  ASSUME DeliveryIInv, NEW a \in Agents, NEW from \in {"active", "barred"},
         NEW to \in {"active", "barred"}, SetStaff(a, from, to)
  PROVE  DeliveryIInv'
  <1> USE AgentsAssumption, CallsAssumption DEF DeliveryIInv, SetStaff
  <1>1. DeliveryTypeOK'
    BY DEF DeliveryTypeOK
  <1>2. \A b \in Agents : staff'[b] = "gone" <=> staff[b] = "gone"
    BY DEF DeliveryTypeOK
  <1>3. \A q \in Calls : Holds(q)' <=> Holds(q)
    BY DEF Holds
  <1>4. (OneHolder /\ HolderDeliverable /\ CallerKnown)'
    BY <1>3 DEF OneHolder, HolderDeliverable, CallerKnown, Deliverable, Available
  <1>5. HolderEmployed'
    BY <1>2, <1>3 DEF HolderEmployed, CallerKnown, Holds
  <1>6. (StampDone /\ RecordIsOneCall)'
    BY <1>2 DEF StampDone, RecordIsOneCall
  <1>7. (PendingAgrees /\ AnswersAgree)'
    BY <1>3 DEF PendingAgrees, AnswersAgree
  <1> QED
    BY <1>1, <1>4, <1>5, <1>6, <1>7

\* Deleting an employee waits for an assignment and clears only a reference to
\* that employee.
LEMMA DeleteEmployeeKeeps ==
  ASSUME DeliveryIInv, NEW a \in Agents, DeleteEmployee(a)
  PROVE  DeliveryIInv'
  <1> USE AgentsAssumption, CallsAssumption DEF DeliveryIInv, DeleteEmployee
  <1>1. /\ report' \in DeliveryReport
        /\ report'.state = report.state
        /\ report'.delivered = report.delivered
        /\ report'.deliveredAt = report.deliveredAt
        /\ report'.agent = IF report.agent = a THEN NoAgent ELSE report.agent
    BY DEF DeliveryTypeOK, DeliveryReport, Assignees
  <1>2. DeliveryTypeOK'
    BY <1>1 DEF DeliveryTypeOK
  <1>3. staff'[a] = "gone" /\ \A b \in Agents \ {a} : staff'[b] = staff[b]
    BY DEF DeliveryTypeOK
  <1>4. \A q \in Calls : Holds(q)' <=> Holds(q)
    BY DEF Holds
  <1>5. (OneHolder /\ HolderDeliverable /\ CallerKnown)'
    BY <1>1, <1>4 DEF OneHolder, HolderDeliverable, CallerKnown, Deliverable, Available
  <1>6. HolderEmployed'
    BY <1>3, <1>4 DEF HolderEmployed, CallerKnown, Holds
  <1>7. StampDone'
    BY <1>1 DEF StampDone
  <1>8. RecordIsOneCall'
    BY <1>1, <1>3 DEF RecordIsOneCall
  <1>9. (PendingAgrees /\ AnswersAgree)'
    BY <1>1, <1>4 DEF PendingAgrees, AnswersAgree
  <1> QED
    BY <1>2, <1>5, <1>6, <1>7, <1>8, <1>9

\* Every step preserves the invariant.
LEMMA DeliveryNextIInv == DeliveryIInv /\ [DeliveryNext]_deliveryVars => DeliveryIInv'
  <1> SUFFICES ASSUME DeliveryIInv, [DeliveryNext]_deliveryVars PROVE DeliveryIInv'
    OBVIOUS
  <1>1. ASSUME NEW p \in Calls, NEW a \in Agents, Call(p, a) PROVE DeliveryIInv'
    BY <1>1, CallKeeps
  <1>2. ASSUME NEW p \in Calls, CheckAgent(p) PROVE DeliveryIInv'
    <2>1. CASE Fail(p, 403)
      BY <1>2, <2>1, FailKeeps DEF CheckAgent
    <2>2. CASE pc' = [pc EXCEPT ![p] = "stamp"]
               /\ UNCHANGED <<report, staff, caller, count, answer>>
      BY <1>2, <2>2, MoveKeeps DEF CheckAgent, Holds
    <2> QED
      BY <1>2, <2>1, <2>2 DEF CheckAgent
  <1>3. ASSUME NEW p \in Calls, Stamp(p) PROVE DeliveryIInv'
    BY <1>3, StampKeeps
  <1>4. ASSUME NEW p \in Calls, Assign(p) PROVE DeliveryIInv'
    <2>1. CASE Fail(p, 500)
      BY <1>4, <2>1, FailKeeps DEF Assign
    <2>2. CASE staff[caller[p]] # "gone" /\ pc' = [pc EXCEPT ![p] = "read"]
               /\ UNCHANGED <<report, staff, caller, count, answer>>
      BY <1>4, <2>2, MoveKeeps DEF Assign
    <2> QED
      BY <1>4, <2>1, <2>2 DEF Assign
  <1>5. ASSUME NEW p \in Calls, Read(p) PROVE DeliveryIInv'
    BY <1>5, ReadKeeps
  <1>6. ASSUME NEW p \in Calls, Commit(p) PROVE DeliveryIInv'
    BY <1>6, CommitKeeps
  <1>7. ASSUME NEW p \in Calls, Abort(p) PROVE DeliveryIInv'
    BY <1>7, FailKeeps DEF Abort
  <1>8. ASSUME Others PROVE DeliveryIInv'
    BY <1>8, SetStateKeeps, SetStaffKeeps, DeleteEmployeeKeeps DEF Others
  <1>9. CASE UNCHANGED deliveryVars
    BY <1>9
    DEF deliveryVars, DeliveryIInv, DeliveryTypeOK, OneHolder, HolderDeliverable, HolderEmployed,
         CallerKnown, StampDone, RecordIsOneCall, PendingAgrees, AnswersAgree,
         Holds, Deliverable, Available
  <1> QED
    BY <1>1, <1>2, <1>3, <1>4, <1>5, <1>6, <1>7, <1>8, <1>9 DEF DeliveryNext, Step

\* The invariant holds in every reachable state.
THEOREM DeliveryInductive == DeliverySpec => []DeliveryIInv
  BY DeliveryInitIInv, DeliveryNextIInv, PTL DEF DeliverySpec

\* ReportDelivery!DeliveryTypeOK: every variable keeps its type, and the delivered flag
\* and its time are set together.
THEOREM DeliveryTypes == DeliverySpec => []DeliveryTypeOK
  <1>1. DeliveryIInv => DeliveryTypeOK
    BY DEF DeliveryIInv
  <1> QED
    BY <1>1, DeliveryInductive, PTL

\* The agent and the time of a recorded delivery come from one and the same call.
THEOREM RecordHolds == DeliverySpec => []RecordIsOneCall
  <1>1. DeliveryIInv => RecordIsOneCall
    BY DEF DeliveryIInv
  <1> QED
    BY <1>1, DeliveryInductive, PTL

\* All calls that answer "delivered" tell of the one recorded delivery.
THEOREM AnswersHold == DeliverySpec => []AnswersAgree
  <1>1. DeliveryIInv => AnswersAgree
    BY DEF DeliveryIInv
  <1> QED
    BY <1>1, DeliveryInductive, PTL

\* No step of anybody replaces a recorded delivery.
THEOREM FirstStands == DeliverySpec => FirstDeliveryStands
  <1> DEFINE Stands == report.delivered => /\ report'.delivered
                                          /\ report'.deliveredAt = report.deliveredAt
                                          /\ report'.agent \in {report.agent, NoAgent}
  <1>1. ASSUME DeliveryIInv, [DeliveryNext]_deliveryVars PROVE Stands
    <2> USE <1>1 DEF DeliveryIInv
    <2>1. ASSUME NEW p \in Calls, Commit(p) PROVE Stands
      BY <2>1 DEF Commit, OwnView, HolderDeliverable, Deliverable
    <2>2. ASSUME NEW S, NEW to, SetReport(S, to) PROVE Stands
      BY <2>2 DEF SetReport, DeliveryTypeOK, DeliveryReport
    <2>3. ASSUME NEW a \in Agents, DeleteEmployee(a) PROVE Stands
      BY <2>3 DEF DeleteEmployee, DeliveryTypeOK, DeliveryReport
    <2>4. CASE UNCHANGED report
      BY <2>4
    <2> QED
      BY <2>1, <2>2, <2>3, <2>4
      DEF DeliveryNext, Others, Step, Call, CheckAgent, Stamp, Assign, Read, Abort, Fail,
          SetStaff, deliveryVars
  <1>2. DeliveryIInv /\ [DeliveryNext]_deliveryVars => [Stands]_deliveryVars
    BY <1>1
  <1> QED
    BY <1>2, DeliveryInductive, PTL DEF DeliverySpec, FirstDeliveryStands

-----------------------------------------------------------------------------
(* OtherReports *)

\* A report whose sum is one of A: that a sum is a number is left to TLC.
ReportOf(A) == [state : {"free", "live", "deleted", "gone"}, kind : AllKinds,
                orders : SUBSET Orders, counted : SUBSET Orders, amount : A]

Shape ==
  /\ order \in [Orders -> Order]
  /\ \E A : rep \in [Reports -> ReportOf(A)]
  /\ req \in [Requests -> Request]
  /\ \A p \in Requests : req[p].step = "idle" => req[p] = Idle
  /\ \A p \in Requests : req[p].step = "reread" => req[p].kind = "DELIVERY_AGENT"
  /\ overlapped \subseteq Orders
  /\ revived \subseteq Reports

\* Orders that two requests hold at once are on record.
Apart ==
  \A p, q \in Requests : p # q => req[p].on \cap req[q].on \subseteq overlapped

\* What the early check found is still so: no report that was never restored counts
\* an order of a request that is to make a report of the same kind.
StillFree ==
  \A p \in Requests, r \in Reports \ revived :
    req[p].kind \in Checked /\ rep[r].state = "live" /\ rep[r].kind = req[p].kind
      => req[p].on \cap rep[r].counted \subseteq overlapped

\* A company's form that gives the cost of all of its orders or of none.
WholeForm(p) ==
  req[p].kind = "COMPANY" =>
    \/ \A o \in req[p].on : req[p].cost[o] = 0
    \/ \A o \in req[p].on : req[p].cost[o] # 0

\* A request that writes costs has the orders as they are, and one that makes its
\* report has their nets.
Faithful ==
  \A p \in Requests : \A o \in req[p].on \ overlapped :
    /\ req[p].step = "costs" =>
         /\ req[p].old[o] = order[o]
         /\ req[p].kind \in Costed
         /\ req[p].kind = "COMPANY" => \E x \in req[p].on : req[p].cost[x] # 0
    /\ req[p].step = "insert" /\ WholeForm(p) =>
         NetOf(req[p].kind, req[p].old[o]) = NetOf(req[p].kind, order[o])

IInv == Shape /\ Apart /\ StillFree /\ ListsWhatItCounts /\ Faithful

-----------------------------------------------------------------------------
(* Operators *)

LEMMA IdleFacts ==
  /\ Idle \in Request /\ Idle.on = {} /\ Idle.kind = "BRANCH" /\ Idle.step = "idle"
  /\ "BRANCH" \notin Checked
BY MoneyAssumption DEF Idle, Request, AllKinds, Unpaid, Order, Checked

\* What is read of the orders S is what they are.
LEMMA ReadFacts ==
  ASSUME Shape, NEW S \in SUBSET Orders
  PROVE  /\ ReadOf(S) \in [Orders -> Order]
         /\ \A o \in S : ReadOf(S)[o] = order[o]
BY DEF ReadOf, Shape, Unpaid, Order

\* The money of a report on the orders S, as they are in the table "of".
SumOf(kind, S, of) == MapThenSumSet(LAMBDA o : NetOf(kind, of[o]), S)

\* Sums over the same orders are equal when every term is.
LEMMA SameSum ==
  ASSUME NEW kind, NEW S, NEW old, NEW now,
         \A o \in S : NetOf(kind, old[o]) = NetOf(kind, now[o])
  PROVE  SumOf(kind, S, old) = SumOf(kind, S, now)
<1> DEFINE Sum(of) == [s \in SUBSET S |-> IF s = {} THEN 0
                         ELSE NetOf(kind, old[CHOOSE x \in s : TRUE])
                                + of[s \ {CHOOSE x \in s : TRUE}]]
           SumNow(of) == [s \in SUBSET S |-> IF s = {} THEN 0
                            ELSE NetOf(kind, now[CHOOSE x \in s : TRUE])
                                   + of[s \ {CHOOSE x \in s : TRUE}]]
<1>1. \A of : Sum(of) = SumNow(of)
  <2> SUFFICES ASSUME NEW s \in SUBSET S, s # {}
               PROVE  NetOf(kind, old[CHOOSE x \in s : TRUE])
                        = NetOf(kind, now[CHOOSE x \in s : TRUE])
    OBVIOUS
  <2>1. (CHOOSE x \in s : TRUE) \in s
    OBVIOUS
  <2> QED BY <2>1
<1> HIDE DEF Sum, SumNow
<1>2. (CHOOSE of : of = Sum(of)) = (CHOOSE of : of = SumNow(of))
  BY <1>1
<1>3. SumOf(kind, S, old) = (CHOOSE of : of = Sum(of))[S]
  BY DEF SumOf, MapThenSumSet, MapThenFoldSet, Sum
<1>4. SumOf(kind, S, now) = (CHOOSE of : of = SumNow(of))[S]
  BY DEF SumOf, MapThenSumSet, MapThenFoldSet, SumNow
<1> QED BY <1>2, <1>3, <1>4

-----------------------------------------------------------------------------
(* Requests begin and end *)

\* A request begins with what it has just read.
LEMMA BeginKeeps ==
  ASSUME IInv, NEW p \in Requests, NEW r \in Request, Begin(p, r),
         r.step \notin {"idle", "reread"},
         r.step = "costs" =>
           /\ r.kind \in Costed
           /\ r.kind = "COMPANY" => \E x \in r.on : r.cost[x] # 0,
         \A o \in r.on : r.old[o] = order[o],
         \A o \in r.on, s \in Reports \ revived :
           r.kind \in Checked /\ rep[s].state = "live" /\ rep[s].kind = r.kind
             => o \notin rep[s].orders,
         UNCHANGED <<order, rep, revived>>
  PROVE  IInv'
<1> USE DEF IInv
<1>1. /\ req \in [Requests -> Request]
      /\ req' \in [Requests -> Request] /\ req'[p] = r
      /\ \A q \in Requests \ {p} : req'[q] = req[q]
  BY DEF Shape, Begin
<1>2. overlapped \subseteq overlapped' /\ overlapped' \subseteq Orders
  BY DEF Shape, Begin, Request
<1>3. \A q \in Requests \ {p} : r.on \cap req[q].on \subseteq overlapped'
  BY DEF Begin
<1>4. Shape'
  BY <1>1, <1>2 DEF Shape
<1>5. Apart'
  BY <1>1, <1>2, <1>3 DEF Apart
<1>6. ListsWhatItCounts'
  BY <1>2 DEF ListsWhatItCounts
<1>7. StillFree'
  <2> SUFFICES ASSUME NEW q \in Requests, NEW s \in Reports \ revived,
                      req'[q].kind \in Checked, rep[s].state = "live",
                      rep[s].kind = req'[q].kind
               PROVE  req'[q].on \cap rep[s].counted \subseteq overlapped'
    BY DEF StillFree
  <2>1. CASE q # p
    BY <1>1, <1>2, <2>1 DEF StillFree
  <2>2. CASE q = p
    <3>1. rep[s].counted \subseteq rep[s].orders \cup overlapped
      BY DEF ListsWhatItCounts
    <3> QED BY <1>1, <1>2, <2>2, <3>1
  <2> QED BY <2>1, <2>2
<1>8. Faithful'
  BY <1>1, <1>2 DEF Faithful, WholeForm
<1> QED BY <1>4, <1>5, <1>6, <1>7, <1>8

\* A request that ends, having written into its own orders or not.
LEMMA EndKeeps ==
  ASSUME IInv, NEW p \in Requests, End(p),
         order' \in [Orders -> Order],
         \A o \in Orders \ req[p].on : order'[o] = order[o],
         UNCHANGED <<rep, begun, overlapped, revived>>
  PROVE  IInv'
<1> USE DEF IInv
<1>1. /\ req \in [Requests -> Request]
      /\ req' \in [Requests -> Request] /\ req'[p] = Idle
      /\ \A q \in Requests \ {p} : req'[q] = req[q]
  BY IdleFacts DEF Shape, End
<1>2. Shape'
  BY <1>1, IdleFacts DEF Shape
<1>3. Apart' /\ StillFree' /\ ListsWhatItCounts'
  BY <1>1, IdleFacts DEF Apart, StillFree, ListsWhatItCounts
<1>4. \A q \in Requests \ {p} : \A o \in req[q].on \ overlapped : order'[o] = order[o]
  BY <1>1 DEF Apart, Request
<1>5. Faithful'
  BY <1>1, <1>4, IdleFacts DEF Faithful, WholeForm
<1> QED BY <1>2, <1>3, <1>5

-----------------------------------------------------------------------------
(* What a request does *)

LEMMA CreateKeeps ==
  ASSUME IInv, NEW p \in Requests, NEW S \in SUBSET Orders,
         NEW kind \in Kinds, NEW cost \in [S -> Costs], CreateReport(p, S, kind, cost)
  PROVE  IInv'
<1> DEFINE r == [step |-> FirstStep(kind, S, cost), on |-> S, old |-> ReadOf(S), kind |-> kind,
                 cost |-> [o \in Orders |-> IF o \in S /\ kind \in Costed THEN cost[o] ELSE 0],
                 paid |-> 0]
<1>1. Begin(p, r) /\ UNCHANGED <<order, rep, revived>> /\ \A o \in S : ~Refused(o, kind)
  BY DEF CreateReport
<1>2. Shape /\ kind \in AllKinds
  BY KindsAssumption DEF IInv
<1>3. r.step \in {"costs", "insert"}
  BY DEF FirstStep
<1>4. r \in Request
  BY <1>2, <1>3, ReadFacts DEF Request
<1>5. \A o \in r.on : r.old[o] = order[o]
  BY <1>2, ReadFacts
<1>6. r.step = "costs" =>
        /\ r.kind \in Costed
        /\ r.kind = "COMPANY" => \E x \in r.on : r.cost[x] # 0
  BY DEF FirstStep
<1>7. \A o \in r.on, s \in Reports \ revived :
        r.kind \in Checked /\ rep[s].state = "live" /\ rep[s].kind = r.kind
          => o \notin rep[s].orders
  BY <1>1 DEF Refused, LiveReportsOf
<1> HIDE DEF r
<1> QED BY <1>1, <1>3, <1>4, <1>5, <1>6, <1>7, BeginKeeps

LEMMA UpdateKeeps ==
  ASSUME IInv, NEW p \in Requests, NEW o \in Orders, NEW paid \in Amounts,
         UpdateOrder(p, o, paid)
  PROVE  IInv'
<1> DEFINE r == [Idle EXCEPT !.step = "update", !.on = {o}, !.old = ReadOf({o}), !.paid = paid]
<1>1. Begin(p, r) /\ UNCHANGED <<order, rep, revived>>
  BY DEF UpdateOrder
<1>2. Shape /\ {o} \in SUBSET Orders
  BY DEF IInv
<1>3. ReadOf({o}) \in [Orders -> Order] /\ ReadOf({o})[o] = order[o]
  BY <1>2, ReadFacts
<1>4. r \in Request
  BY <1>2, <1>3, IdleFacts DEF Request
<1>5. r.kind \notin Checked /\ r.step = "update" /\ r.on = {o} /\ r.old[o] = order[o]
  BY <1>3, IdleFacts DEF Request
<1> HIDE DEF r
<1> QED BY <1>1, <1>4, <1>5, BeginKeeps

LEMMA WriteKeeps ==
  ASSUME IInv, NEW p \in Requests, WriteOrder(p)
  PROVE  IInv'
<1>1. order \in [Orders -> Order] /\ req[p] \in Request
  BY DEF IInv, Shape
<1>2. req[p].paid \in Int /\ \A o \in Orders : req[p].old[o].companyNet \in Int
  <2>1. Amounts \cup {0} \subseteq Int
    BY MoneyAssumption
  <2> QED BY <1>1, <2>1 DEF Request, Order
<1>3. order' \in [Orders -> Order]
  BY <1>1, <1>2 DEF WriteOrder, Order
<1> QED BY <1>3, EndKeeps DEF WriteOrder

LEMMA StopKeeps ==
  ASSUME IInv, NEW p \in Requests, Stop(p)
  PROVE  IInv'
BY EndKeeps DEF Stop, IInv, Shape

\* A request that goes on to another step, with what it has read anew.
LEMMA GoneOn ==
  ASSUME IInv, NEW p \in Requests, NEW step, NEW old \in [Orders -> Order],
         step \in {"reread", "insert"}, step = "reread" => req[p].kind = "DELIVERY_AGENT",
         req[p].step # "idle",
         req' = [req EXCEPT ![p].step = step, ![p].old = old],
         order' \in [Orders -> Order],
         \A o \in Orders \ req[p].on : order'[o] = order[o],
         step = "insert" =>
           \A o \in req[p].on \ overlapped :
             WholeForm(p) => NetOf(req[p].kind, old[o]) = NetOf(req[p].kind, order'[o]),
         UNCHANGED <<rep, begun, overlapped, revived>>
  PROVE  IInv'
<1> USE DEF IInv
<1> DEFINE r == [[req[p] EXCEPT !.step = step] EXCEPT !.old = old]
<1>1. req \in [Requests -> Request] /\ req[p] \in Request
  BY DEF Shape
<1>2. req' = [req EXCEPT ![p] = r]
  BY <1>1 DEF Request
<1>3. /\ r \in Request /\ r.step = step /\ r.old = old
      /\ r.on = req[p].on /\ r.kind = req[p].kind /\ r.cost = req[p].cost
  BY <1>1 DEF Request
<1> HIDE DEF r
<1>4. /\ req' \in [Requests -> Request]
      /\ req'[p] = r
      /\ \A q \in Requests \ {p} : req'[q] = req[q]
  BY <1>1, <1>2, <1>3
<1>5. Shape'
  BY <1>3, <1>4 DEF Shape
<1>6. Apart' /\ StillFree' /\ ListsWhatItCounts'
  BY <1>3, <1>4 DEF Apart, StillFree, ListsWhatItCounts
<1>7. \A q \in Requests \ {p} : \A o \in req[q].on \ overlapped : order'[o] = order[o]
  BY <1>1 DEF Apart, Request
<1>8. WholeForm(p)' <=> WholeForm(p)
  BY <1>3, <1>4 DEF WholeForm
<1>9. Faithful'
  <2> SUFFICES ASSUME NEW q \in Requests, NEW o \in req'[q].on \ overlapped
               PROVE  /\ req'[q].step = "costs" =>
                           /\ req'[q].old[o] = order'[o]
                           /\ req'[q].kind \in Costed
                           /\ req'[q].kind = "COMPANY" => \E x \in req'[q].on : req'[q].cost[x] # 0
                      /\ req'[q].step = "insert" /\ WholeForm(q)' =>
                           NetOf(req'[q].kind, req'[q].old[o]) = NetOf(req'[q].kind, order'[o])
    BY DEF Faithful
  <2>1. CASE q = p
    BY <1>3, <1>4, <1>8, <2>1
  <2>2. CASE q # p
    BY <1>4, <1>7, <2>2 DEF Faithful, WholeForm
  <2> QED BY <2>1, <2>2
<1> QED BY <1>5, <1>6, <1>9

LEMMA RereadKeeps ==
  ASSUME IInv, NEW p \in Requests, Reread(p)
  PROVE  IInv'
<1>1. Shape /\ req[p].on \in SUBSET Orders
  BY DEF IInv, Shape, Request
<1> QED BY <1>1, ReadFacts, GoneOn DEF Reread, Shape

\* What the cost statement leaves in the table is what it leaves in memory, but
\* for an agent's report, which reads again.
LEMMA CostsKeep ==
  ASSUME IInv, NEW p \in Requests, UpdateOrdersCosts(p)
  PROVE  IInv'
<1> USE DEF IInv
<1>1. /\ order \in [Orders -> Order] /\ req[p] \in Request /\ req[p].step = "costs"
      /\ UNCHANGED <<rep, begun, overlapped, revived>>
  BY DEF UpdateOrdersCosts, Shape
<1>2. \A o \in Orders : /\ req[p].cost[o] \in Int
                        /\ req[p].old[o] \in Order
                        /\ order[o] \in Order
  <2>1. Costs \cup {0} \subseteq Int
    BY MoneyAssumption
  <2> QED BY <1>1, <2>1 DEF Request
<1>3. \A o \in Orders : Costing(p, o) \in Order /\ Applied(p, o) \in Order
  BY <1>2 DEF Costing, Applied, Order
<1>4. order' \in [Orders -> Order] /\ \A o \in Orders \ req[p].on : order'[o] = order[o]
  BY <1>1, <1>3 DEF UpdateOrdersCosts
<1> DEFINE step == IF req[p].kind = "DELIVERY_AGENT" THEN "reread" ELSE "insert"
           old == [o \in Orders |-> Applied(p, o)]
<1>5. old \in [Orders -> Order] /\ req' = [req EXCEPT ![p].step = step, ![p].old = old]
  BY <1>3 DEF UpdateOrdersCosts
<1>6. ASSUME step = "insert", NEW o \in req[p].on \ overlapped, WholeForm(p)
      PROVE  NetOf(req[p].kind, old[o]) = NetOf(req[p].kind, order'[o])
  <2>1. /\ o \in Orders /\ req[p].old[o] = order[o]
        /\ req[p].kind \in {"BRANCH", "COMPANY"}
        /\ req[p].kind = "COMPANY" => req[p].cost[o] # 0
    BY <1>1, <1>6 DEF Faithful, Costed, WholeForm, Request
  <2>2. old[o] = Applied(p, o) /\ order'[o] = Costing(p, o)
    BY <1>6, <2>1 DEF UpdateOrdersCosts
  <2> QED BY <1>2, <2>1, <2>2 DEF Applied, Costing, NetOf, Order
<1> HIDE DEF old
<1>7. step \in {"reread", "insert"} /\ (step = "reread" => req[p].kind = "DELIVERY_AGENT")
  OBVIOUS
<1> HIDE DEF step
<1> QED BY <1>1, <1>4, <1>5, <1>6, <1>7, GoneOn

-----------------------------------------------------------------------------
(* Reports begin, are deleted and restored *)

\* The lists of the other reports only lose orders that the new one has.
LEMMA InsertKeeps ==
  ASSUME IInv, NEW p \in Requests, NEW r \in Reports, InsertReport(p, r)
  PROVE  IInv'
<1> USE DEF IInv
<1> DEFINE amount == SumOf(req[p].kind, req[p].on, req[p].old)
           new == [state |-> "live", kind |-> req[p].kind, orders |-> req[p].on,
                   counted |-> req[p].on, amount |-> amount]
<1>1. /\ req \in [Requests -> Request] /\ req[p] \in Request
      /\ req' \in [Requests -> Request] /\ req'[p] = Idle
      /\ \A q \in Requests \ {p} : req'[q] = req[q]
  BY IdleFacts DEF Shape, InsertReport, End
<1>2. PICK A : rep \in [Reports -> ReportOf(A)]
  BY DEF Shape
<1>3. rep' = [Connected(p) EXCEPT ![r] = new]
      /\ UNCHANGED <<order, begun, overlapped, revived>>
  BY DEF InsertReport, SumOf
<1> HIDE DEF amount
<1>4. new \in ReportOf(A \cup {amount})
  BY <1>1 DEF ReportOf, Request
<1>5. \A s \in Reports :
        /\ Connected(p)[s] \in ReportOf(A \cup {amount})
        /\ Connected(p)[s].state = rep[s].state /\ Connected(p)[s].kind = rep[s].kind
        /\ Connected(p)[s].counted = rep[s].counted
        /\ rep[s].orders \subseteq Connected(p)[s].orders
             \cup (IF req[p].kind \in ToOne /\ rep[s].kind = req[p].kind THEN req[p].on ELSE {})
  BY <1>2 DEF Connected, ReportOf
<1>6. Connected(p) = [s \in Reports |-> Connected(p)[s]]
  BY DEF Connected
<1> HIDE DEF new
<1>7. /\ rep' \in [Reports -> ReportOf(A \cup {amount})] /\ rep'[r] = new
      /\ \A s \in Reports \ {r} : rep'[s] = Connected(p)[s]
  BY <1>3, <1>4, <1>5, <1>6
<1>8. Shape'
  BY <1>1, <1>3, <1>7, IdleFacts DEF Shape
<1>9. Apart'
  BY <1>1, <1>3, IdleFacts DEF Apart
<1>10. new.state = "live" /\ new.kind = req[p].kind /\ new.orders = req[p].on
       /\ new.counted = req[p].on
  BY DEF new
<1>11. \A q \in Requests \ {p} : req[q].on \cap req[p].on \subseteq overlapped
  BY DEF Apart
<1>12. StillFree'
  <2> SUFFICES ASSUME NEW q \in Requests, NEW s \in Reports \ revived,
                      req'[q].kind \in Checked, rep'[s].state = "live",
                      rep'[s].kind = req'[q].kind
               PROVE  req'[q].on \cap rep'[s].counted \subseteq overlapped
    BY <1>3 DEF StillFree
  <2>1. q # p /\ req'[q] = req[q]
    BY <1>1, IdleFacts
  <2>2. CASE s = r
    BY <1>7, <1>10, <1>11, <2>1, <2>2
  <2>3. CASE s # r
    BY <1>5, <1>7, <2>1, <2>3 DEF StillFree
  <2> QED BY <2>2, <2>3
<1>13. ListsWhatItCounts'
  <2>1. \A s \in Reports \ revived :
          rep[s].state = "live" /\ rep[s].kind = req[p].kind /\ req[p].kind \in Checked
            => req[p].on \cap rep[s].counted \subseteq overlapped
    BY DEF StillFree
  <2>2. \A s \in Reports \ revived : rep'[s].state = "live" =>
          rep'[s].counted \subseteq rep'[s].orders \cup overlapped
    <3> SUFFICES ASSUME NEW s \in Reports \ revived, rep'[s].state = "live", s # r
                 PROVE  rep'[s].counted \subseteq rep'[s].orders \cup overlapped
      BY <1>7, <1>10
    <3>1. rep[s].counted \subseteq rep[s].orders \cup overlapped
      BY <1>5, <1>7 DEF ListsWhatItCounts
    <3>2. ToOne \subseteq Checked
      BY DEF ToOne, Checked, AllKinds
    <3> QED BY <1>5, <1>7, <2>1, <3>1, <3>2
  <2>3. \A s, t \in Reports \ revived :
          /\ s # t
          /\ rep'[s].state = "live" /\ rep'[t].state = "live"
          /\ rep'[s].kind = rep'[t].kind /\ rep'[s].kind \in Checked
          => rep'[s].counted \cap rep'[t].counted \subseteq overlapped
    <3> SUFFICES ASSUME NEW s \in Reports \ revived, NEW t \in Reports \ revived, s # t,
                        rep'[s].state = "live", rep'[t].state = "live",
                        rep'[s].kind = rep'[t].kind, rep'[s].kind \in Checked
                 PROVE  rep'[s].counted \cap rep'[t].counted \subseteq overlapped
      OBVIOUS
    <3>1. CASE s = r
      BY <1>5, <1>7, <1>10, <2>1, <3>1
    <3>2. CASE t = r
      BY <1>5, <1>7, <1>10, <2>1, <3>2
    <3>3. CASE s # r /\ t # r
      BY <1>5, <1>7, <3>3 DEF ListsWhatItCounts
    <3> QED BY <3>1, <3>2, <3>3
  <2> QED BY <1>3, <2>2, <2>3 DEF ListsWhatItCounts
<1>14. Faithful'
  BY <1>1, <1>3, IdleFacts DEF Faithful, WholeForm
<1> QED BY <1>8, <1>9, <1>12, <1>13, <1>14

\* A report is deleted, restored or removed: its money was counted before, or the
\* report was restored.
LEMMA SetReportKeeps ==
  ASSUME IInv, NEW r \in Reports, DeactivateReport(r) \/ ReactivateReport(r) \/ DeleteReport(r)
  PROVE  IInv'
<1> USE DEF IInv
<1>1. PICK A : rep \in [Reports -> ReportOf(A)]
  BY DEF Shape
<1>2. /\ UNCHANGED <<order, req, begun, overlapped>>
      /\ revived \subseteq revived' /\ revived' \subseteq Reports
  BY DEF DeactivateReport, ReactivateReport, DeleteReport, Shape
<1>3. /\ rep' \in [Reports -> ReportOf(A)]
      /\ \A s \in Reports \ {r} : rep'[s] = rep[s]
  <2>1. CASE DeactivateReport(r)
    BY <1>1, <2>1 DEF DeactivateReport, ReportOf
  <2>2. CASE ReactivateReport(r)
    BY <1>1, <2>2 DEF ReactivateReport, ReportOf
  <2>3. CASE DeleteReport(r)
    <3> DEFINE gone == [[rep[r] EXCEPT !.state = "gone"] EXCEPT !.orders = {}]
    <3>1. rep' = [rep EXCEPT ![r] = gone]
      BY <1>1, <2>3 DEF DeleteReport, ReportOf
    <3>2. gone \in ReportOf(A)
      BY <1>1 DEF ReportOf
    <3> QED BY <1>1, <3>1, <3>2
  <2> QED BY <2>1, <2>2, <2>3
<1>4. rep'[r].state = "live" /\ r \notin revived' =>
        /\ rep[r].state = "live"
        /\ rep'[r].kind = rep[r].kind /\ rep'[r].counted = rep[r].counted
        /\ rep'[r].orders = rep[r].orders
  <2>1. CASE DeactivateReport(r)
    BY <1>1, <2>1 DEF DeactivateReport, ReportOf
  <2>2. CASE ReactivateReport(r)
    BY <1>1, <2>2 DEF ReactivateReport, ReportOf, Existing
  <2>3. CASE DeleteReport(r)
    BY <1>1, <2>3 DEF DeleteReport, ReportOf
  <2> QED BY <2>1, <2>2, <2>3
<1>5. Shape'
  BY <1>2, <1>3 DEF Shape
<1>6. Apart' /\ Faithful'
  BY <1>2 DEF Apart, Faithful, WholeForm
<1>7. StillFree'
  BY <1>2, <1>3, <1>4 DEF StillFree
<1>8. ListsWhatItCounts'
  BY <1>2, <1>3, <1>4 DEF ListsWhatItCounts
<1> QED BY <1>5, <1>6, <1>7, <1>8

-----------------------------------------------------------------------------
(* The inductive invariant *)

LEMMA InitIInv == Init => IInv
<1> SUFFICES ASSUME Init PROVE IInv
  OBVIOUS
<1>1. order \in [Orders -> Order]
  BY MoneyAssumption DEF Init, Unpaid, Order
<1>2. rep \in [Reports -> ReportOf({0})]
  BY DEF Init, FreeReport, ReportOf, AllKinds
<1>3. Shape
  BY <1>1, <1>2, IdleFacts DEF Init, Shape
<1> QED BY <1>3, IdleFacts
      DEF Init, IInv, Apart, StillFree, ListsWhatItCounts, Faithful, FreeReport

LEMMA NextIInv == IInv /\ [Next]_vars => IInv'
<1> SUFFICES ASSUME IInv, [Next]_vars PROVE IInv'
  OBVIOUS
<1>1. CASE \E p \in Requests, S \in SUBSET Orders, kind \in Kinds :
             \E cost \in [S -> Costs] : CreateReport(p, S, kind, cost)
  BY <1>1, CreateKeeps
<1>2. CASE \E p \in Requests : UpdateOrdersCosts(p)
  BY <1>2, CostsKeep
<1>3. CASE \E p \in Requests : Reread(p)
  BY <1>3, RereadKeeps
<1>4. CASE \E p \in Requests, r \in Reports : InsertReport(p, r)
  BY <1>4, InsertKeeps
<1>5. CASE \E p \in Requests, o \in Orders, paid \in Amounts : UpdateOrder(p, o, paid)
  BY <1>5, UpdateKeeps
<1>6. CASE \E p \in Requests : WriteOrder(p)
  BY <1>6, WriteKeeps
<1>7. CASE \E p \in Requests : Stop(p)
  BY <1>7, StopKeeps
<1>8. CASE \E r \in Reports : DeactivateReport(r) \/ ReactivateReport(r) \/ DeleteReport(r)
  BY <1>8, SetReportKeeps
<1>9. CASE UNCHANGED vars
  BY <1>9 DEF vars, IInv, Shape, Apart, StillFree, ListsWhatItCounts, Faithful, WholeForm
<1> QED BY <1>1, <1>2, <1>3, <1>4, <1>5, <1>6, <1>7, <1>8, <1>9 DEF Next, Rest

\* IInv holds in every reachable state.
THEOREM Inductive == Spec => []IInv
BY InitIInv, NextIInv, PTL DEF Spec

-----------------------------------------------------------------------------
(* The properties *)

\* However creations, payments and deletions interleave, an order is counted in the
\* money of one live report of a checked kind, and a live report lists what its
\* money counts, but for orders two requests held at once and restored reports.
THEOREM ListsWhatItCountsHolds == Spec => []ListsWhatItCounts
<1>1. IInv => ListsWhatItCounts
  BY DEF IInv
<1> QED BY <1>1, Inductive, PTL

\* A report's money is the sum of the nets its orders have when it is made, but for
\* orders two requests held at once and forms with the cost of some orders only.
THEOREM ReportsMadeForTheirOrders == Spec => MadeForItsOrders
<1> DEFINE Made ==
      \A p \in Requests, r \in Reports :
        /\ rep[r].state = "free" /\ rep'[r].state = "live"
        /\ req[p].step = "insert" /\ req'[p].step = "idle"
        /\ req[p].on \cap overlapped = {}
        /\ req[p].kind = "COMPANY" =>
             \/ \A o \in req[p].on : req[p].cost[o] = 0
             \/ \A o \in req[p].on : req[p].cost[o] # 0
        => rep'[r].amount = MapThenSumSet(LAMBDA o : NetOf(req[p].kind, order[o]), req[p].on)
<1>1. IInv /\ [Next]_vars => [Made]_vars
  <2> SUFFICES ASSUME IInv, Next, NEW p \in Requests, NEW r \in Reports,
                      rep[r].state = "free", rep'[r].state = "live",
                      req[p].step = "insert", req'[p].step = "idle",
                      req[p].on \cap overlapped = {}, WholeForm(p)
               PROVE  rep'[r].amount = SumOf(req[p].kind, req[p].on, order)
    BY DEF WholeForm, SumOf
  <2>1. \E A : rep \in [Reports -> ReportOf(A)]
    BY DEF IInv, Shape
  <2>2. PICK q \in Requests, s \in Reports : InsertReport(q, s)
    <3>1. rep' # rep
      OBVIOUS
    <3>2. ~\E s \in Reports : DeactivateReport(s) \/ ReactivateReport(s) \/ DeleteReport(s)
      BY <2>1 DEF DeactivateReport, ReactivateReport, DeleteReport, Existing
    <3> QED BY <3>1, <3>2 DEF Next, CreateReport, UpdateOrdersCosts, Reread, UpdateOrder,
                             WriteOrder, Stop, Rest, vars
  <2>3. s = r
    BY <2>1, <2>2 DEF InsertReport, Connected, ReportOf
  <2>4. q = p
    BY <2>2 DEF InsertReport, End, IInv, Shape
  <2>5. rep'[r].amount = SumOf(req[p].kind, req[p].on, req[p].old)
    BY <2>2, <2>3, <2>4 DEF InsertReport, Connected, SumOf
  <2>6. \A o \in req[p].on : NetOf(req[p].kind, req[p].old[o]) = NetOf(req[p].kind, order[o])
    BY DEF IInv, Faithful
  <2> QED BY <2>5, <2>6, SameSum
<1>2. [][Made]_vars => MadeForItsOrders
  BY PTL DEF MadeForItsOrders
<1> QED BY <1>1, <1>2, Inductive, PTL DEF Spec
=============================================================================
