---------------------------- MODULE ScreensProofs ----------------------------
(***************************************************************************)
(* What is shown: the screens of the treasury for any branches and any     *)
(* number of moves, and the lists kept in Redis for any number of requests *)
(* and agents.                                                             *)
(***************************************************************************)
EXTENDS ListCaches, Treasury, FiniteSetTheorems, SequenceTheorems, TLAPS

-----------------------------------------------------------------------------
(* Treasury: the invariant *)

Entry == [state : {"none", "live", "deleted"}, type : {"DEPOSIT", "WITHDRAW"},
          branch : BranchIds \cup {Null}, report : Kinds \cup {Null},
          approved : BOOLEAN, approvedforMain : BOOLEAN]

OneRow ==
  \A e, f \in Entries : money[e].report = money[f].report /\ money[e].report # Null => e = f

\* A report has one row; what a screen shows is read off the rows and the reports.
TreasuryIInv ==
  /\ place \in Places
  /\ report \in [Kinds -> [state : {"none", "live", "deleted", "gone"}, forChild : BOOLEAN]]
  /\ money \in [Entries -> Entry]
  /\ OneRow

\* Whoever shares a report with another row gives it up, so a report keeps one row.
LEMMA LinkedFacts ==
  ASSUME NEW t \in [Entries -> Entry], NEW e \in Entries, NEW k \in Kinds \cup {Null},
         \A x, y \in Entries \ {e} : t[x].report = t[y].report /\ t[x].report # Null => x = y
  PROVE  /\ Linked(t, e, k) \in [Entries -> Entry]
         /\ \A x, y \in Entries :
              /\ Linked(t, e, k)[x].report = Linked(t, e, k)[y].report
              /\ Linked(t, e, k)[x].report # Null
              => x = y
<1>1. \A x \in Entries : /\ [t[x] EXCEPT !.report = k] \in Entry
                         /\ [t[x] EXCEPT !.report = Null] \in Entry
                         /\ [t[x] EXCEPT !.report = k].report = k
                         /\ [t[x] EXCEPT !.report = Null].report = Null
  BY DEF Entry
<1>2. \A x \in Entries :
        Linked(t, e, k)[x].report = IF x = e THEN k
                                    ELSE IF k # Null /\ t[x].report = k THEN Null ELSE t[x].report
  BY <1>1 DEF Linked
<1>3. Linked(t, e, k) \in [Entries -> Entry]
  BY <1>1 DEF Linked
<1> QED BY <1>2, <1>3

LEMMA NoEntryFacts ==
  /\ NoEntry \in Entry /\ NoEntry.report = Null /\ "hand" \in Entries /\ Kinds \subseteq Entries
BY DEF NoEntry, Entry, Entries, Kinds

\* The branch of a user is one.
LEMMA ViewFacts ==
  ASSUME NEW u \in Users, NEW t \in BranchIds \cup {Null}
  PROVE  /\ HomeBranch(u) \in BranchIds
         /\ View(u, t).branch \in BranchIds
         /\ View(u, t).main \in BOOLEAN
         /\ View(u, t).main => View(u, t).branch = MainBranch
BY TreasuryAssumption DEF Users, View, Picks, HomeBranch, AtMain, mainRepository

LEMMA TreasuryInitIInv == TreasuryInit => TreasuryIInv
BY NoEntryFacts DEF TreasuryInit, TreasuryIInv, OneRow

\* Rows that are written in fields other than their report keep the invariant.
LEMMA RowsKeep ==
  ASSUME TreasuryIInv, UNCHANGED place, money' \in [Entries -> Entry],
         report' \in [Kinds -> [state : {"none", "live", "deleted", "gone"}, forChild : BOOLEAN]],
         \A e \in Entries : money'[e].report \in {money[e].report, Null}
  PROVE  TreasuryIInv'
BY DEF TreasuryIInv, OneRow

LEMMA PostReportKeeps ==
  ASSUME TreasuryIInv, NEW k \in Kinds, NEW u \in Users, NEW forChild \in BOOLEAN,
         PostReport(k, u, forChild)
  PROVE  TreasuryIInv'
<1> DEFINE new == [NoEntry EXCEPT !.state = "live", !.type = TypeOf(k), !.branch = PostedTo(k, u)]
<1>1. /\ UNCHANGED place
      /\ report' = [report EXCEPT ![k] = [state |-> "live", forChild |-> forChild]]
      /\ money' = Linked([money EXCEPT ![k] = new], k, k)
  BY DEF PostReport
<1>2. PostedTo(k, u) \in BranchIds /\ TypeOf(k) \in {"DEPOSIT", "WITHDRAW"}
  BY DEF PostedTo, TypeOf, TreasuryIInv, Users, Places
<1>3. new \in Entry
  BY <1>2, NoEntryFacts DEF Entry
<1> HIDE DEF new
<1> DEFINE t == [money EXCEPT ![k] = new]
<1>4. /\ t \in [Entries -> Entry] /\ k \in Entries
      /\ \A x \in Entries \ {k} : t[x] = money[x]
  BY <1>3, NoEntryFacts DEF TreasuryIInv
<1>5. \A x, y \in Entries \ {k} : t[x].report = t[y].report /\ t[x].report # Null => x = y
  BY <1>4 DEF TreasuryIInv, OneRow
<1> HIDE DEF t
<1>6. money' = Linked(t, k, k)
  BY <1>1 DEF t
<1>7. money' \in [Entries -> Entry] /\ OneRow'
  BY <1>4, <1>5, <1>6, LinkedFacts DEF OneRow
<1> QED BY <1>1, <1>7 DEF TreasuryIInv

LEMMA CreateTransactionKeeps ==
  ASSUME TreasuryIInv, NEW u \in Users, NEW type \in {"DEPOSIT", "WITHDRAW"},
         NEW k \in Kinds \cup {Null}, NEW approved \in BOOLEAN,
         CreateTransaction(u, type, k, approved)
  PROVE  TreasuryIInv'
<1> DEFINE new == [NoEntry EXCEPT !.state = "live", !.type = type, !.branch = HomeBranch(u),
                                  !.approved = approved, !.approvedforMain = approved]
<1>1. /\ UNCHANGED <<place, report>>
      /\ money' = Linked([money EXCEPT !["hand"] = new], "hand", k)
  BY DEF CreateTransaction
<1>2. HomeBranch(u) \in BranchIds
  BY ViewFacts
<1>3. new \in Entry
  BY <1>2, NoEntryFacts DEF Entry
<1> HIDE DEF new
<1> DEFINE t == [money EXCEPT !["hand"] = new]
<1>4. /\ t \in [Entries -> Entry] /\ "hand" \in Entries
      /\ \A x \in Entries \ {"hand"} : t[x] = money[x]
  BY <1>3, NoEntryFacts DEF TreasuryIInv
<1>5. \A x, y \in Entries \ {"hand"} : t[x].report = t[y].report /\ t[x].report # Null => x = y
  BY <1>4 DEF TreasuryIInv, OneRow
<1> HIDE DEF t
<1>6. money' = Linked(t, "hand", k)
  BY <1>1 DEF t
<1>7. money' \in [Entries -> Entry] /\ OneRow'
  BY <1>4, <1>5, <1>6, LinkedFacts DEF OneRow
<1> QED BY <1>1, <1>7 DEF TreasuryIInv

LEMMA UpdateTransactionKeeps ==
  ASSUME TreasuryIInv, NEW e \in Entries,
         UpdateTransaction(e) \/ DeleteTransaction(e) \/ ApproveTransaction(e)
  PROVE  TreasuryIInv'
<1> USE DEF TreasuryIInv
<1>1. UNCHANGED <<place, report>>
  BY DEF UpdateTransaction, DeleteTransaction, ApproveTransaction
<1>2. ASSUME NEW k \in Kinds, money' = Linked(money, e, k) PROVE TreasuryIInv'
  <2>1. money' \in [Entries -> Entry] /\ OneRow'
    BY <1>2, LinkedFacts DEF OneRow
  <2> QED BY <1>1, <2>1
<1>3. ASSUME NEW new \in Entry, new.report = money[e].report, money' = [money EXCEPT ![e] = new]
      PROVE  TreasuryIInv'
  <2>1. money' \in [Entries -> Entry]
    BY <1>3
  <2>2. \A x \in Entries : money'[x].report = money[x].report
    BY <1>3
  <2> QED BY <1>1, <2>1, <2>2, RowsKeep
<1>4. ASSUME NEW type \in {"DEPOSIT", "WITHDRAW"}, money' = [money EXCEPT ![e].type = type]
      PROVE  TreasuryIInv'
  <2>1. [money[e] EXCEPT !.type = type] \in Entry
    BY DEF Entry
  <2> QED BY <1>3, <1>4, <2>1 DEF Entry
<1>5. ASSUME NEW b \in BranchIds, money' = [money EXCEPT ![e].branch = b] PROVE TreasuryIInv'
  <2>1. [money[e] EXCEPT !.branch = b] \in Entry
    BY DEF Entry
  <2> QED BY <1>3, <1>5, <2>1 DEF Entry
<1>6. ASSUME NEW a \in BOOLEAN, money' = [money EXCEPT ![e].approved = a] PROVE TreasuryIInv'
  <2>1. [money[e] EXCEPT !.approved = a] \in Entry
    BY DEF Entry
  <2> QED BY <1>3, <1>6, <2>1 DEF Entry
<1>7. ASSUME money' = [money EXCEPT ![e].state = "deleted"] PROVE TreasuryIInv'
  <2>1. [money[e] EXCEPT !.state = "deleted"] \in Entry
    BY DEF Entry
  <2> QED BY <1>3, <1>7, <2>1 DEF Entry
<1> QED BY <1>2, <1>4, <1>5, <1>6, <1>7
        DEF UpdateTransaction, DeleteTransaction, ApproveTransaction

\* Approving rows writes one of their two flags.
LEMMA SetApprovedFacts ==
  ASSUME money \in [Entries -> Entry], NEW S, SetApproved(S)
  PROVE  /\ money' \in [Entries -> Entry]
         /\ \A e \in Entries : /\ money'[e].state = money[e].state /\ money'[e].type = money[e].type
                               /\ money'[e].branch = money[e].branch
                               /\ money'[e].report = money[e].report
                               /\ e \in S => money'[e].approved = TRUE
                               /\ e \notin S => money'[e] = money[e]
<1>1. \A e \in Entries : [money[e] EXCEPT !.approved = TRUE] \in Entry
  BY DEF Entry
<1>2. money' = [e \in Entries |-> IF e \in S THEN [money[e] EXCEPT !.approved = TRUE] ELSE money[e]]
  BY DEF SetApproved
<1>3. money' \in [Entries -> Entry]
  BY <1>1, <1>2
<1>4. ASSUME NEW e \in Entries
      PROVE  /\ money'[e].state = money[e].state /\ money'[e].type = money[e].type
             /\ money'[e].branch = money[e].branch /\ money'[e].report = money[e].report
             /\ e \in S => money'[e].approved = TRUE
             /\ e \notin S => money'[e] = money[e]
  BY <1>2 DEF Entry
<1> QED BY <1>3, <1>4

LEMMA SetApprovedForMainFacts ==
  ASSUME money \in [Entries -> Entry], NEW S, SetApprovedForMain(S)
  PROVE  /\ money' \in [Entries -> Entry]
         /\ \A e \in Entries : /\ money'[e].state = money[e].state /\ money'[e].type = money[e].type
                               /\ money'[e].branch = money[e].branch
                               /\ money'[e].report = money[e].report
                               /\ e \in S => money'[e].approvedforMain = TRUE
                               /\ e \notin S => money'[e] = money[e]
<1>1. \A e \in Entries : [money[e] EXCEPT !.approvedforMain = TRUE] \in Entry
  BY DEF Entry
<1>2. money' = [e \in Entries |->
                  IF e \in S THEN [money[e] EXCEPT !.approvedforMain = TRUE] ELSE money[e]]
  BY DEF SetApprovedForMain
<1>3. money' \in [Entries -> Entry]
  BY <1>1, <1>2
<1>4. ASSUME NEW e \in Entries
      PROVE  /\ money'[e].state = money[e].state /\ money'[e].type = money[e].type
             /\ money'[e].branch = money[e].branch /\ money'[e].report = money[e].report
             /\ e \in S => money'[e].approvedforMain = TRUE
             /\ e \notin S => money'[e] = money[e]
  BY <1>2 DEF Entry
<1> QED BY <1>3, <1>4

LEMMA ApproveKeeps ==
  ASSUME TreasuryIInv, ApproveAllPending \/ \E u \in Users : ApproveAllBranchTransactions(u)
  PROVE  TreasuryIInv'
<1>1. UNCHANGED <<place, report>> /\ \E S : SetApproved(S) \/ SetApprovedForMain(S)
  BY DEF ApproveAllPending, ApproveAllBranchTransactions
<1>2. /\ money' \in [Entries -> Entry]
      /\ \A e \in Entries : money'[e].report = money[e].report
  BY <1>1, SetApprovedFacts, SetApprovedForMainFacts DEF TreasuryIInv
<1> QED BY <1>1, <1>2, RowsKeep DEF TreasuryIInv

LEMMA TreasuryReportKeeps ==
  ASSUME TreasuryIInv, NEW k \in Kinds, DeactivateReport(k) \/ ReactivateReport(k) \/ DeleteReport(k)
  PROVE  TreasuryIInv'
<1> USE DEF TreasuryIInv
<1>1. CASE DeactivateReport(k) \/ ReactivateReport(k)
  <2>1. PICK to \in {"live", "deleted"} :
          /\ UNCHANGED place /\ report' = [report EXCEPT ![k].state = to]
          /\ money' = [e \in Entries |-> IF money[e].report = k THEN [money[e] EXCEPT !.state = to]
                                         ELSE money[e]]
    BY <1>1 DEF DeactivateReport, ReactivateReport, SetReport
  <2>2. /\ money' \in [Entries -> Entry]
        /\ \A e \in Entries : money'[e].report = money[e].report
    BY <2>1 DEF Entry
  <2> QED BY <2>1, <2>2, RowsKeep
<1>2. CASE DeleteReport(k)
  <2>1. /\ UNCHANGED place /\ report' = [report EXCEPT ![k].state = "gone"]
        /\ money' = [e \in Entries |-> IF money[e].report = k THEN [money[e] EXCEPT !.report = Null]
                                       ELSE money[e]]
    BY <1>2 DEF DeleteReport
  <2>2. /\ money' \in [Entries -> Entry]
        /\ \A e \in Entries : money'[e].report \in {money[e].report, Null}
    BY <2>1 DEF Entry
  <2> QED BY <2>1, <2>2, RowsKeep
<1> QED BY <1>1, <1>2

LEMMA TreasuryNextIInv == TreasuryIInv /\ [TreasuryNext]_treasuryVars => TreasuryIInv'
<1> SUFFICES ASSUME TreasuryIInv, [TreasuryNext]_treasuryVars PROVE TreasuryIInv'
  OBVIOUS
<1>1. CASE UNCHANGED treasuryVars
  BY <1>1 DEF treasuryVars, TreasuryIInv, OneRow
<1>2. ASSUME NEW u \in Users, NEW k \in Kinds, NEW forChild \in BOOLEAN, PostReport(k, u, forChild)
      PROVE  TreasuryIInv'
  BY <1>2, PostReportKeeps
<1>3. ASSUME NEW u \in Users, NEW type \in {"DEPOSIT", "WITHDRAW"}, NEW k \in Kinds \cup {Null},
             NEW a \in BOOLEAN, CreateTransaction(u, type, k, a)
      PROVE  TreasuryIInv'
  BY <1>3, CreateTransactionKeeps
<1>4. ASSUME NEW e \in Entries,
             UpdateTransaction(e) \/ DeleteTransaction(e) \/ ApproveTransaction(e)
      PROVE  TreasuryIInv'
  BY <1>4, UpdateTransactionKeeps
<1>5. ASSUME ApproveAllPending \/ \E u \in Users : ApproveAllBranchTransactions(u)
      PROVE  TreasuryIInv'
  BY <1>5, ApproveKeeps
<1>6. ASSUME NEW k \in Kinds, DeactivateReport(k) \/ ReactivateReport(k) \/ DeleteReport(k)
      PROVE  TreasuryIInv'
  BY <1>6, TreasuryReportKeeps
<1> QED BY <1>1, <1>2, <1>3, <1>4, <1>5, <1>6 DEF TreasuryNext, TreasuryRest

\* However rows are posted, edited, linked, approved and deleted, a report has one row.
THEOREM TreasuryInductive == TreasurySpec => []TreasuryIInv
BY TreasuryInitIInv, TreasuryNextIInv, PTL DEF TreasurySpec

-----------------------------------------------------------------------------
(* Treasury: what is shown *)

\* What the screens read off a row.
LEMMA RowFacts ==
  ASSUME TreasuryIInv, NEW e \in Entries
  PROVE  /\ money[e].type \in {"DEPOSIT", "WITHDRAW"} /\ money[e].branch \in BranchIds \cup {Null}
         /\ money[e].report \in Kinds \cup {Null}
         /\ money[e].approved \in BOOLEAN /\ money[e].approvedforMain \in BOOLEAN
         /\ \A v \in Views : Approved(e, v) \in BOOLEAN
BY DEF TreasuryIInv, Entry, Approved

\* The side a row is listed on.
Side(v, e) ==
  IF v.main /\ OfReport(e, {"received", "forwarded"}) THEN Other(money[e].type) ELSE money[e].type

Shown(v, done) ==
  {x \in Entries : /\ Live(x) /\ Approved(x, v) = done
                   /\ \/ money[x].branch = v.branch
                      \/ v.main /\ WithMain(x, {"received", "forwarded"})}

Line(v, x) == [entry |-> x, type |-> Side(v, x)]

\* A row is listed on the side its type says, at the main branch on the other one if it
\* is of a branch report.
LEMMA ListedFacts ==
  ASSUME NEW v, NEW done, NEW type, NEW e
  PROVE  e \in Listed(v, done, type) <=> e \in Shown(v, done) /\ Side(v, e) = type
<1>1. Transactions(v, done) = {Line(v, x) : x \in Shown(v, done)}
  BY DEF Transactions, Shown, Side, Line
<1>2. \A x : Line(v, x).entry = x /\ Line(v, x).type = Side(v, x)
  BY DEF Line
<1>3. Listed(v, done, type) = {t.entry : t \in {x \in Transactions(v, done) : x.type = type}}
  BY DEF Listed
<1>4. ASSUME e \in Listed(v, done, type) PROVE e \in Shown(v, done) /\ Side(v, e) = type
  <2>1. PICK t \in Transactions(v, done) : t.type = type /\ t.entry = e
    BY <1>3, <1>4
  <2>2. PICK x \in Shown(v, done) : t = Line(v, x)
    BY <1>1, <2>1
  <2> QED BY <1>2, <2>1, <2>2
<1>5. ASSUME e \in Shown(v, done), Side(v, e) = type PROVE e \in Listed(v, done, type)
  <2>1. Line(v, e) \in Transactions(v, done)
    BY <1>1, <1>5
  <2> QED BY <1>2, <1>3, <1>5, <2>1
<1> QED BY <1>4, <1>5

\* Away from a row turned round by hand, the side a row is listed on is the one it is
\* summed on.
LEMMA EvenRows ==
  ASSUME TreasuryIInv, NEW v \in Views, NEW e \in Entries, ~Odd(e)
  PROVE  /\ e \in Listed(v, TRUE, "DEPOSIT") <=> e \in TotalDeposit(v)
         /\ e \in Listed(v, TRUE, "WITHDRAW") <=> e \in TotalWithdraw(v)
         /\ e \in Listed(v, FALSE, "DEPOSIT") <=> e \in DailyDeposit(v)
         /\ v.main => (e \in Listed(v, FALSE, "WITHDRAW") <=> e \in DailyWithdraw(v))
<1>1. v.main \in BOOLEAN /\ v.branch \in BranchIds /\ (v.main => v.branch = MainBranch)
  BY ViewFacts DEF Views
<1>2. Approved(e, v) \in BOOLEAN
  BY RowFacts
<1>3. v.main => (Approved(e, v) <=> money[e].approvedforMain)
  BY <1>1 DEF Approved
<1>4. ASSUME NEW done \in BOOLEAN, NEW type \in {"DEPOSIT", "WITHDRAW"}
      PROVE  e \in Listed(v, done, type) <=>
               /\ Live(e) /\ (Approved(e, v) <=> done)
               /\ \/ money[e].branch = v.branch /\ money[e].type = type
                  \/ /\ v.main /\ type = "DEPOSIT" /\ money[e].type = "WITHDRAW"
                     /\ WithMain(e, {"received"})
                  \/ /\ v.main /\ type = "WITHDRAW" /\ money[e].type = "DEPOSIT"
                     /\ WithMain(e, {"forwarded"})
  <2>1. e \in Listed(v, done, type) <=> e \in Shown(v, done) /\ Side(v, e) = type
    BY ListedFacts
  <2>2. (Approved(e, v) = done) <=> (Approved(e, v) <=> done)
    BY <1>2
  <2>3. e \in Shown(v, done) <=>
          /\ Live(e) /\ Approved(e, v) = done
          /\ \/ money[e].branch = v.branch
             \/ v.main /\ WithMain(e, {"received", "forwarded"})
    BY DEF Shown
  <2>4. /\ money[e].type \in {"DEPOSIT", "WITHDRAW"} /\ money[e].report \in Kinds \cup {Null}
    BY RowFacts
  <2>5. /\ \/ money[e].branch = v.branch
           \/ v.main /\ WithMain(e, {"received", "forwarded"})
        /\ Side(v, e) = type
        <=> \/ money[e].branch = v.branch /\ money[e].type = type
            \/ /\ v.main /\ type = "DEPOSIT" /\ money[e].type = "WITHDRAW"
               /\ WithMain(e, {"received"})
            \/ /\ v.main /\ type = "WITHDRAW" /\ money[e].type = "DEPOSIT"
               /\ WithMain(e, {"forwarded"})
    BY <1>1, <2>4 DEF Odd, TypeOf, WithMain, OfReport, Side, Other
  <2> QED BY <2>1, <2>2, <2>3, <2>5
<1>5. /\ e \in TotalDeposit(v) <=>
           /\ Live(e) /\ Approved(e, v)
           /\ \/ money[e].branch = v.branch /\ money[e].type = "DEPOSIT"
              \/ v.main /\ money[e].type = "WITHDRAW" /\ WithMain(e, {"received"})
      /\ e \in TotalWithdraw(v) <=>
           /\ Live(e) /\ Approved(e, v)
           /\ \/ money[e].branch = v.branch /\ money[e].type = "WITHDRAW"
              \/ v.main /\ money[e].type = "DEPOSIT" /\ WithMain(e, {"forwarded"})
      /\ e \in DailyDeposit(v) <=>
           /\ Live(e) /\ ~Approved(e, v)
           /\ \/ money[e].branch = v.branch /\ money[e].type = "DEPOSIT"
              \/ v.main /\ money[e].type = "WITHDRAW" /\ WithMain(e, {"received"})
      /\ e \in DailyWithdraw(v) <=>
           /\ Live(e) /\ ~money[e].approvedforMain
           /\ \/ money[e].branch = v.branch /\ money[e].type = "WITHDRAW"
              \/ v.main /\ money[e].type = "DEPOSIT" /\ WithMain(e, {"forwarded"})
  BY DEF TotalDeposit, TotalWithdraw, DailyDeposit, DailyWithdraw
<1>6. e \in Listed(v, TRUE, "DEPOSIT") <=> e \in TotalDeposit(v)
  BY <1>4, <1>5
<1>7. e \in Listed(v, TRUE, "WITHDRAW") <=> e \in TotalWithdraw(v)
  BY <1>4, <1>5
<1>8. e \in Listed(v, FALSE, "DEPOSIT") <=> e \in DailyDeposit(v)
  BY <1>4, <1>5
<1>9. ASSUME v.main PROVE e \in Listed(v, FALSE, "WITHDRAW") <=> e \in DailyWithdraw(v)
  BY <1>3, <1>4, <1>5, <1>9
<1> QED BY <1>6, <1>7, <1>8, <1>9

\* The three screens of a user are of one branch, but for the orders of the main branch's
\* staff who name a branch.
LEMMA ScreensOfOneBranch == OneBranchBehind
<1> SUFFICES ASSUME NEW u \in Users, NEW t \in BranchIds \cup {Null}
             PROVE  /\ DailyBranch(u, t) = View(u, t).branch
                    /\ OrdersView(u, t) = View(u, t) \/ (AtMain(u) /\ ~Picks(u, t) /\ t # Null)
  BY DEF OneBranchBehind
<1>1. u.role \in {"COMPANY_MANAGER", "BRANCH_MANAGER"}
  BY DEF Users
<1>2. DailyBranch(u, t) = View(u, t).branch
  BY <1>1 DEF DailyBranch, View, Picks, HomeBranch
<1>3. CASE Picks(u, t) \/ t = Null
  <2>1. (AtMain(u) /\ t = Null) = AtMain(u) \/ Picks(u, t)
    BY <1>3 DEF AtMain
  <2> QED BY <1>2, <2>1 DEF OrdersView, View
<1>4. CASE ~Picks(u, t) /\ t # Null
  <2>1. AtMain(u) \in BOOLEAN
    BY DEF AtMain
  <2> QED BY <1>2, <1>4, <2>1 DEF OrdersView, View
<1> QED BY <1>2, <1>3, <1>4

\* The lists and the sums of the treasury agree, for any branches and any number of
\* moves: getAllTransactions against getStatistics and getDailyStatistics.
THEOREM ListsAddUpHolds == TreasurySpec => []ListsAddUp
<1>1. TreasuryIInv => ListsAddUp
  <2> SUFFICES ASSUME TreasuryIInv PROVE ListsAddUp
    OBVIOUS
  <2>1. ASSUME NEW v \in Views
        PROVE  LET Even(S) == {e \in S : ~Odd(e)}
               IN /\ Even(Listed(v, TRUE, "DEPOSIT")) = Even(TotalDeposit(v))
                  /\ Even(Listed(v, TRUE, "WITHDRAW")) = Even(TotalWithdraw(v))
                  /\ Even(Listed(v, FALSE, "DEPOSIT")) = Even(DailyDeposit(v))
                  /\ v.main => Even(Listed(v, FALSE, "WITHDRAW")) = Even(DailyWithdraw(v))
    <3>1. \A done, type : Listed(v, done, type) \subseteq Entries
      BY ListedFacts DEF Shown
    <3>2. /\ TotalDeposit(v) \subseteq Entries /\ TotalWithdraw(v) \subseteq Entries
          /\ DailyDeposit(v) \subseteq Entries /\ DailyWithdraw(v) \subseteq Entries
      BY DEF TotalDeposit, TotalWithdraw, DailyDeposit, DailyWithdraw
    <3> QED BY <3>1, <3>2, EvenRows
  <2> QED BY <2>1, ScreensOfOneBranch DEF ListsAddUp
<1> QED BY <1>1, TreasuryInductive, PTL

\* A report with a row counts as approved or as waiting, and never as both.
LEMMA CountsOnce ==
  ASSUME TreasuryIInv, NEW k \in Kinds, NEW main \in BOOLEAN
  PROVE  /\ ~(Counts(k, main, TRUE) /\ Counts(k, main, FALSE))
         /\ Counts(k, main, TRUE) \/ Counts(k, main, FALSE) <=> Settled(k) /\ HasMoney(k)
<1> DEFINE v == [main |-> main]
<1>1. \A e \in Entries : Approved(e, v) \in BOOLEAN
  BY RowFacts DEF Approved
<1> HIDE DEF v
<1>2. \A done : Counts(k, main, done) <=>
        Settled(k) /\ \E e \in Entries : Live(e) /\ money[e].report = k /\ Approved(e, v) = done
  BY DEF Counts, v
<1>3. HasMoney(k) <=> \E e \in Entries : Live(e) /\ money[e].report = k
  BY DEF HasMoney, LiveEntries
<1>4. \A e \in Entries : Approved(e, v) = TRUE \/ Approved(e, v) = FALSE
  BY <1>1
<1>5. Null # k
  BY NullAssumption
<1>6. ~(Counts(k, main, TRUE) /\ Counts(k, main, FALSE))
  <2> SUFFICES ASSUME Counts(k, main, TRUE), Counts(k, main, FALSE) PROVE FALSE
    OBVIOUS
  <2>1. PICK e \in Entries : money[e].report = k /\ Approved(e, v) = TRUE
    BY <1>2
  <2>2. PICK f \in Entries : money[f].report = k /\ Approved(f, v) = FALSE
    BY <1>2
  <2>3. e = f
    BY <1>5, <2>1, <2>2 DEF TreasuryIInv, OneRow
  <2> QED BY <2>1, <2>2, <2>3
<1>7. Counts(k, main, TRUE) \/ Counts(k, main, FALSE) <=> Settled(k) /\ HasMoney(k)
  BY <1>2, <1>3, <1>4
<1> QED BY <1>6, <1>7

\* An order delivered or owned by the branch of v, and what is due to its client.
LEMMA ClientsMoney ==
  ASSUME TreasuryIInv, NEW v \in Views, place.client = v.branch
  PROVE  Cardinality({s \in 1..3 : CASE s = 1 -> ForClients(v)
                                     [] s = 2 -> DailyPaidToClients(v)
                                     [] OTHER -> PaidToClients(v)})
           = IF Settled("client") /\ ~HasMoney("client") THEN 0 ELSE 1
<1> DEFINE S == {s \in 1..3 : CASE s = 1 -> ForClients(v)
                                [] s = 2 -> DailyPaidToClients(v)
                                [] OTHER -> PaidToClients(v)}
<1>1. v.main \in BOOLEAN /\ "client" \in Kinds
  BY ViewFacts DEF Views, Kinds
<1>2. /\ ForClients(v) <=> ~Settled("client")
      /\ DailyPaidToClients(v) <=> Counts("client", v.main, FALSE)
      /\ PaidToClients(v) <=> Counts("client", v.main, TRUE)
  BY DEF ForClients, DailyPaidToClients, PaidToClients
<1>3. /\ ~(Counts("client", v.main, TRUE) /\ Counts("client", v.main, FALSE))
      /\ Counts("client", v.main, TRUE) \/ Counts("client", v.main, FALSE) <=>
           Settled("client") /\ HasMoney("client")
  BY <1>1, CountsOnce
<1>4. \A s : s \in S <=> \/ s = 1 /\ ForClients(v)
                         \/ s = 2 /\ DailyPaidToClients(v)
                         \/ s = 3 /\ PaidToClients(v)
  BY DEF S
<1> HIDE DEF S
<1>5. CASE ~Settled("client")
  <2>1. S = {1}
    BY <1>2, <1>3, <1>4, <1>5
  <2> QED BY <1>5, <2>1, FS_Singleton DEF S
<1>6. CASE Settled("client") /\ ~HasMoney("client")
  <2>1. S = {}
    BY <1>2, <1>3, <1>4, <1>6
  <2> QED BY <1>6, <2>1, FS_EmptySet DEF S
<1>7. CASE Settled("client") /\ HasMoney("client")
  <2>1. S = {2} \/ S = {3}
    BY <1>2, <1>3, <1>4, <1>7
  <2> QED BY <1>7, <2>1, FS_Singleton DEF S
<1> QED BY <1>5, <1>6, <1>7

\* Whatever is posted, edited, linked, approved and deleted, an order's money is on one
\* screen of a branch at a time: the figures of getStatistics, getDailyStatistics and
\* getProfitOrders.
THEOREM MoneyIsOnOneScreenHolds == TreasurySpec => []MoneyIsOnOneScreen
<1>1. ASSUME TreasuryIInv, NEW v \in Views
      PROVE  /\ place.order = v.branch =>
                  /\ ~(NotReceived(v) /\ ReceivedFromAgents(v))
                  /\ place.agent = v.branch => NotReceived(v) \/ ReceivedFromAgents(v)
                  /\ DailyFromAgents(v) => ReceivedFromAgents(v)
                  /\ Settled("received") /\ HasMoney("received") =>
                       ReceivedBranchNet(v) # DailyReceivedNet(v)
             /\ ~(ForwardedBranchNet(v) /\ DailyForwardedNet(v))
             /\ ~(InsideBranchNet(v) /\ DailyInsideNet(v))
             /\ v.main /\ InsideBranchNet(v) =>
                  ReceivedBranchNet([branch |-> place.order, main |-> FALSE])
  <2>1. v.main \in BOOLEAN /\ {"client", "agent", "received", "forwarded"} \subseteq Kinds
    BY ViewFacts DEF Views, Kinds
  <2>2. \A k \in Kinds, main \in BOOLEAN :
          /\ ~(Counts(k, main, TRUE) /\ Counts(k, main, FALSE))
          /\ Counts(k, main, TRUE) \/ Counts(k, main, FALSE) <=> Settled(k) /\ HasMoney(k)
    BY <1>1, CountsOnce
  <2>3. ASSUME place.order = v.branch
        PROVE  /\ ~(NotReceived(v) /\ ReceivedFromAgents(v))
               /\ place.agent = v.branch => NotReceived(v) \/ ReceivedFromAgents(v)
               /\ DailyFromAgents(v) => ReceivedFromAgents(v)
    <3>1. /\ NotReceived(v) <=> place.agent = v.branch /\ ~Settled("agent")
          /\ ReceivedFromAgents(v) <=> Settled("agent")
      BY <2>3 DEF NotReceived, ReceivedFromAgents
    <3>2. DailyFromAgents(v) => Settled("agent")
      BY DEF DailyFromAgents, Counts
    <3> QED BY <3>1, <3>2
  <2>4. ASSUME place.order = v.branch, Settled("received"), HasMoney("received")
        PROVE  ReceivedBranchNet(v) # DailyReceivedNet(v)
    <3>1. /\ ReceivedBranchNet(v) <=> Counts("received", TRUE, TRUE)
          /\ DailyReceivedNet(v) <=> Counts("received", TRUE, FALSE)
      BY <2>4 DEF ReceivedBranchNet, DailyReceivedNet
    <3> QED BY <2>1, <2>2, <2>4, <3>1
  <2>5. ~(ForwardedBranchNet(v) /\ DailyForwardedNet(v))
    BY <2>1, <2>2 DEF ForwardedBranchNet, DailyForwardedNet
  <2>6. ~(InsideBranchNet(v) /\ DailyInsideNet(v))
    BY <2>1, <2>2 DEF InsideBranchNet, DailyInsideNet
  <2>7. v.main /\ InsideBranchNet(v) =>
          ReceivedBranchNet([branch |-> place.order, main |-> FALSE])
    BY DEF InsideBranchNet, ReceivedBranchNet
  <2> QED BY <2>3, <2>4, <2>5, <2>6, <2>7
<1>2. TreasuryIInv => MoneyIsOnOneScreen
  BY <1>1, ClientsMoney DEF MoneyIsOnOneScreen
<1> QED BY <1>2, TreasuryInductive, PTL

\* Once what v sees of live rows is approved for it, nothing waits there, and its
\* treasury is what it was and what waited.
LEMMA NothingWaits ==
  ASSUME TreasuryIInv, TreasuryIInv', NEW v \in Views, UNCHANGED report,
         \A e \in Entries : /\ money'[e].state = money[e].state /\ money'[e].type = money[e].type
                            /\ money'[e].branch = money[e].branch
                            /\ money'[e].report = money[e].report
                            /\ Live(e) /\ (money[e].branch = v.branch \/ v.main)
                                 => Approved(e, v)' = TRUE
  PROVE  /\ Transactions(v, FALSE)' = {}
         /\ Transactions(v, TRUE)' = Transactions(v, TRUE) \cup Transactions(v, FALSE)
         /\ TotalDeposit(v)' = TotalDeposit(v) \cup DailyDeposit(v)
         /\ v.main => TotalWithdraw(v)' = TotalWithdraw(v) \cup DailyWithdraw(v)
<1> DEFINE seen == {e \in Entries : Live(e) /\ (money[e].branch = v.branch
                                                  \/ (v.main /\ WithMain(e, {"received", "forwarded"})))}
<1>1. \A e \in Entries : /\ Live(e)' <=> Live(e)
                         /\ \A K : WithMain(e, K)' <=> WithMain(e, K)
                         /\ Side(v, e)' = Side(v, e)
  BY DEF Live, WithMain, OfReport, Side, Other
<1>2. \A e \in Entries : Approved(e, v) = TRUE \/ Approved(e, v) = FALSE
  BY RowFacts
<1>3. \A done : Shown(v, done) = {e \in seen : Approved(e, v) = done}
  BY DEF Shown
<1>4. \A done : Shown(v, done)' = {e \in seen : Approved(e, v)' = done}
  BY <1>1 DEF Shown
<1>5. \A e \in seen : e \in Entries /\ Approved(e, v)' = TRUE
  OBVIOUS
<1> HIDE DEF seen
<1>6. Shown(v, FALSE)' = {} /\ Shown(v, TRUE)' = seen
  BY <1>4, <1>5
<1>7. Shown(v, TRUE) \cup Shown(v, FALSE) = seen
  <2>1. \A e \in seen : e \in Shown(v, TRUE) \/ e \in Shown(v, FALSE)
    BY <1>2, <1>3, <1>5
  <2>2. Shown(v, TRUE) \subseteq seen /\ Shown(v, FALSE) \subseteq seen
    BY <1>3
  <2> QED BY <2>1, <2>2
<1>8. \A done : /\ Transactions(v, done) = {Line(v, x) : x \in Shown(v, done)}
                /\ Transactions(v, done)' = {Line(v, x)' : x \in Shown(v, done)'}
  BY DEF Transactions, Shown, Side, Line
<1>9. \A e \in seen : Line(v, e)' = Line(v, e)
  BY <1>1, <1>5 DEF Line
<1>10. Transactions(v, FALSE)' = {}
  BY <1>6, <1>8
<1>11. Transactions(v, TRUE)' = Transactions(v, TRUE) \cup Transactions(v, FALSE)
  <2>1. \A t : t \in Transactions(v, TRUE)' <=> \E x \in seen : t = Line(v, x)
    <3>1. \A t : t \in Transactions(v, TRUE)' <=> \E x \in seen : t = Line(v, x)'
      <4>1. Transactions(v, TRUE)' = {Line(v, x)' : x \in Shown(v, TRUE)'}
        BY DEF Transactions, Shown, Side, Line
      <4>2. Shown(v, TRUE)' = seen
        BY <1>6
      <4> QED BY <4>1, <4>2
    <3> QED BY <1>9, <3>1
  <2>2. \A t : t \in Transactions(v, TRUE) \/ t \in Transactions(v, FALSE)
                <=> \E x \in seen : t = Line(v, x)
    <3>1. \A t, done : t \in Transactions(v, done) <=> \E x \in Shown(v, done) : t = Line(v, x)
      BY <1>8
    <3> QED BY <1>7, <3>1
  <2> QED BY <2>1, <2>2
<1>12. TotalDeposit(v)' = TotalDeposit(v) \cup DailyDeposit(v)
  <2>1. \A e \in Entries :
          /\ Live(e)
          /\ \/ money[e].branch = v.branch /\ money[e].type = "DEPOSIT"
             \/ v.main /\ money[e].type = "WITHDRAW" /\ WithMain(e, {"received"})
          => Approved(e, v)' = TRUE
    OBVIOUS
  <2> QED BY <1>1, <2>1 DEF TotalDeposit, DailyDeposit
<1>13. ASSUME v.main PROVE TotalWithdraw(v)' = TotalWithdraw(v) \cup DailyWithdraw(v)
  <2>1. \A e \in Entries : Live(e) => Approved(e, v)' = TRUE
    BY <1>13
  <2>2. \A e \in Entries : Approved(e, v) <=> money[e].approvedforMain
    BY <1>13 DEF Approved
  <2> QED BY <1>1, <2>1, <2>2 DEF TotalWithdraw, DailyWithdraw
<1> QED BY <1>10, <1>11, <1>12, <1>13

\* Approving everything empties the list of what waits and moves it to the treasury, at
\* the main branch and at any other: approveAllBranchTransactions.
THEOREM ApprovalTakesWhatWaitsHolds == TreasurySpec => ApprovalTakesWhatWaits
<1> DEFINE Step(u) ==
      ApproveAllBranchTransactions(u) =>
        LET v == View(u, Null)
        IN /\ Transactions(v, FALSE)' = {}
           /\ Transactions(v, TRUE)' = Transactions(v, TRUE) \cup Transactions(v, FALSE)
           /\ TotalDeposit(v)' = TotalDeposit(v) \cup DailyDeposit(v)
           /\ v.main => TotalWithdraw(v)' = TotalWithdraw(v) \cup DailyWithdraw(v)
<1>1. ASSUME TreasuryIInv, [TreasuryNext]_treasuryVars, NEW u \in Users,
             ApproveAllBranchTransactions(u)
      PROVE  LET v == View(u, Null)
             IN /\ Transactions(v, FALSE)' = {}
                /\ Transactions(v, TRUE)' = Transactions(v, TRUE) \cup Transactions(v, FALSE)
                /\ TotalDeposit(v)' = TotalDeposit(v) \cup DailyDeposit(v)
                /\ v.main => TotalWithdraw(v)' = TotalWithdraw(v) \cup DailyWithdraw(v)
  <2> DEFINE v == View(u, Null)
  <2>1. v \in Views /\ TreasuryIInv' /\ money \in [Entries -> Entry] /\ UNCHANGED report
    BY <1>1, TreasuryNextIInv DEF Views, TreasuryIInv, ApproveAllBranchTransactions
  <2>2. v = [branch |-> HomeBranch(u), main |-> AtMain(u)]
    BY DEF View, Picks
  <2>3. ~AtMain(u) => HomeBranch(u) = u.branch
    BY DEF AtMain, HomeBranch
  <2>4. v.branch = HomeBranch(u) /\ (v.main <=> AtMain(u))
    BY <2>2
  <2> HIDE DEF v
  <2>5. CASE AtMain(u)
    <3>1. SetApprovedForMain(LiveEntries)
      BY <1>1, <2>5 DEF ApproveAllBranchTransactions
    <3>2. \A e \in Entries : Live(e) => Approved(e, v)' = TRUE
      BY <2>1, <2>4, <2>5, <3>1, SetApprovedForMainFacts DEF LiveEntries, Approved
    <3>3. \A e \in Entries : /\ money'[e].state = money[e].state
                             /\ money'[e].type = money[e].type
                             /\ money'[e].branch = money[e].branch
                             /\ money'[e].report = money[e].report
      BY <2>1, <3>1, SetApprovedForMainFacts
    <3> QED BY <1>1, <2>1, <3>2, <3>3, NothingWaits DEF v
  <2>6. CASE ~AtMain(u)
    <3> DEFINE S == {e \in LiveEntries : money[e].branch = u.branch}
    <3>1. SetApproved(S)
      BY <1>1, <2>6 DEF ApproveAllBranchTransactions
    <3>2. \A e \in Entries : Live(e) /\ money[e].branch = v.branch => e \in S
      BY <2>3, <2>4, <2>6 DEF LiveEntries
    <3> HIDE DEF S
    <3>3. \A e \in Entries : Live(e) /\ (money[e].branch = v.branch \/ v.main)
                               => Approved(e, v)' = TRUE
      BY <2>1, <2>4, <2>6, <3>1, <3>2, SetApprovedFacts DEF Approved
    <3>4. \A e \in Entries : /\ money'[e].state = money[e].state
                             /\ money'[e].type = money[e].type
                             /\ money'[e].branch = money[e].branch
                             /\ money'[e].report = money[e].report
      BY <2>1, <3>1, SetApprovedFacts
    <3> QED BY <1>1, <2>1, <3>3, <3>4, NothingWaits DEF v
  <2> QED BY <2>5, <2>6
<1>2. TreasuryIInv /\ [TreasuryNext]_treasuryVars => [\A u \in Users : Step(u)]_treasuryVars
  BY <1>1
<1>3. [][\A u \in Users : Step(u)]_treasuryVars => ApprovalTakesWhatWaits
  BY DEF ApprovalTakesWhatWaits
<1> QED BY <1>2, <1>3, TreasuryInductive, PTL DEF TreasurySpec

-----------------------------------------------------------------------------
(* ListCaches: the changes, as sequences of statements *)

Statements == Writes \cup {"keys", "del"}

AllWrites(s) == \A i \in 1 .. Len(s) : s[i] \in Writes

Drops(s) == Len(s) >= 1 /\ s[1] = "del" /\ \A i \in 2 .. Len(s) : s[i] \in Writes

Finds(s) ==
  Len(s) >= 2 /\ s[1] = "keys" /\ s[2] = "del" /\ \A i \in 3 .. Len(s) : s[i] \in Writes

WritesFirst(s) == Len(s) = 3 /\ s[1] \in Writes /\ s[2] = "keys" /\ s[3] = "del"

\* What a change may have left to do.
Plan(s) == AllWrites(s) \/ Drops(s) \/ Finds(s) \/ WritesFirst(s)

\* Behind, of the statements left.
IsBehind(s) ==
  (\E i \in 1 .. Len(s) : s[i] = "del") /\ \A i \in 1 .. Len(s) : s[i] \notin Writes

LEMMA StatementFacts ==
  /\ "keys" \notin Writes /\ "del" \notin Writes
  /\ <<>> \in Seq(Statements) /\ Plan(<<>>) /\ ~IsBehind(<<>>) /\ ~Drops(<<>>)
BY DEF Writes, Plan, IsBehind, Drops, AllWrites

LEMMA BehindFacts ==
  ASSUME NEW p \in Requests, request[p].steps \in Seq(Statements)
  PROVE  Behind(p) <=> IsBehind(request[p].steps)
<1> DEFINE s == request[p].steps
<1>1. DOMAIN s = 1 .. Len(s)
  OBVIOUS
<1>2. Behind(p) <=> LET left == {s[i] : i \in DOMAIN s} IN "del" \in left /\ left \cap Writes = {}
  BY DEF Behind
<1> QED BY <1>1, <1>2 DEF IsBehind

LEMMA BehindFactsPrimed ==
  ASSUME NEW p \in Requests, request'[p].steps \in Seq(Statements)
  PROVE  Behind(p)' <=> IsBehind(request'[p].steps)
<1> DEFINE s == request'[p].steps
<1>1. DOMAIN s = 1 .. Len(s)
  OBVIOUS
<1>2. Behind(p)' <=> LET left == {s[i] : i \in DOMAIN s} IN "del" \in left /\ left \cap Writes = {}
  BY DEF Behind
<1> QED BY <1>1, <1>2 DEF IsBehind

\* One statement done: what is left is a plan, of the kind the statement says.
LEMMA PlanTail ==
  ASSUME NEW s \in Seq(Statements), s # <<>>, Plan(s)
  PROVE  /\ Tail(s) \in Seq(Statements) /\ Plan(Tail(s)) /\ Head(s) \in Statements
         /\ Head(s) = "keys" => /\ Drops(Tail(s)) /\ ~AllWrites(Tail(s))
                                /\ IsBehind(s) => IsBehind(Tail(s))
         /\ Head(s) = "del" => AllWrites(Tail(s)) /\ ~Drops(Tail(s)) /\ Drops(s)
         /\ Head(s) \in Writes =>
              /\ ~IsBehind(s) /\ ~Drops(Tail(s))
              /\ \/ AllWrites(s) /\ AllWrites(Tail(s))
                 \/ IsBehind(Tail(s)) /\ ~AllWrites(Tail(s))
<1> DEFINE t == Tail(s)
<1>1. /\ Len(s) \in Nat /\ Len(s) >= 1 /\ Head(s) = s[1] /\ \A i \in 1 .. Len(s) : s[i] \in Statements
      /\ t \in Seq(Statements) /\ Len(t) = Len(s) - 1
      /\ \A i \in 1 .. Len(t) : t[i] = s[i + 1]
  BY HeadTailProperties, EmptySeq
<1>2. "keys" \notin Writes /\ "del" \notin Writes
  BY StatementFacts
<1> HIDE DEF t
<1>3. CASE AllWrites(s)
  <2>1. AllWrites(t) /\ s[1] \in Writes
    BY <1>1, <1>3 DEF AllWrites
  <2>2. ~Drops(t) /\ ~IsBehind(s)
    BY <1>1, <1>2, <1>3, <2>1 DEF AllWrites, Drops, IsBehind
  <2> QED BY <1>1, <1>2, <1>3, <2>1, <2>2 DEF Plan, t
<1>4. CASE Drops(s)
  <2>1. AllWrites(t) /\ s[1] = "del"
    BY <1>1, <1>4 DEF AllWrites, Drops
  <2>2. ~Drops(t)
    BY <1>1, <1>2, <2>1 DEF AllWrites, Drops
  <2> QED BY <1>1, <1>2, <1>4, <2>1, <2>2 DEF Plan, t
<1>5. CASE Finds(s)
  <2>1. s[1] = "keys" /\ t[1] = "del" /\ Len(t) >= 1
    BY <1>1, <1>5 DEF Finds
  <2>2. Drops(t)
    BY <1>1, <1>5, <2>1 DEF Finds, Drops
  <2>3. ~AllWrites(t)
    BY <1>1, <1>2, <2>1 DEF AllWrites
  <2>4. ASSUME IsBehind(s) PROVE IsBehind(t)
    <3>1. 1 \in 1 .. Len(t) /\ t[1] = "del"
      BY <1>1, <2>1
    <3>2. \A i \in 1 .. Len(t) : t[i] \notin Writes
      BY <1>1, <2>4 DEF IsBehind
    <3> QED BY <3>1, <3>2 DEF IsBehind
  <2> QED BY <1>1, <1>2, <2>1, <2>2, <2>3, <2>4 DEF Plan, t
<1>6. CASE WritesFirst(s)
  <2>1. s[1] \in Writes /\ Len(t) = 2 /\ t[1] = "keys" /\ t[2] = "del"
    BY <1>1, <1>6 DEF WritesFirst
  <2>2. Finds(t) /\ IsBehind(t) /\ ~AllWrites(t) /\ ~Drops(t)
    BY <1>2, <2>1 DEF Finds, IsBehind, AllWrites, Drops
  <2>3. ~IsBehind(s)
    BY <1>1, <2>1 DEF IsBehind
  <2> QED BY <1>1, <1>2, <2>1, <2>2, <2>3 DEF Plan, t
<1> QED BY <1>3, <1>4, <1>5, <1>6 DEF Plan

LEMMA DropThenPlan ==
  ASSUME NEW w \in Seq(Writes)
  PROVE  DropThen(w) \in Seq(Statements) /\ Finds(DropThen(w))
<1> DEFINE d == <<"keys", "del">>
           s == d \o w
<1>1. d \in Seq(Statements) /\ w \in Seq(Statements) /\ Len(d) = 2 /\ Len(w) \in Nat
  BY DEF Statements
<1>2. /\ s \in Seq(Statements) /\ Len(s) = Len(w) + 2
      /\ \A i \in 1 .. Len(s) : s[i] = IF i <= 2 THEN d[i] ELSE w[i - 2]
  BY <1>1, ConcatProperties
<1>3. d[1] = "keys" /\ d[2] = "del" /\ \A i \in 1 .. Len(w) : w[i] \in Writes
  OBVIOUS
<1>4. DropThen(w) = s
  BY DEF DropThen
<1> HIDE DEF s, d
<1>5. s[1] = "keys" /\ s[2] = "del" /\ \A i \in 3 .. Len(s) : s[i] \in Writes
  BY <1>1, <1>2, <1>3
<1> QED BY <1>1, <1>2, <1>4, <1>5 DEF Finds

LEMMA ThenDropPlan ==
  ASSUME NEW w \in Writes
  PROVE  ThenDrop(<<w>>) \in Seq(Statements) /\ WritesFirst(ThenDrop(<<w>>))
BY DEF ThenDrop, Statements, WritesFirst

\* Every change drops the lists and then writes, or writes once and then drops them.
LEMMA ChangesFacts ==
  ASSUME NEW s \in Changes, table \in Tables
  PROVE  /\ s \in Seq(Statements) /\ Plan(s) /\ s # <<>>
         /\ ~AllWrites(s) /\ ~Drops(s)
<1>1. \/ s \in {DropThen(<<"create", "addAgents">>), DropThen(<<"update", "clearAgents", "addAgents">>),
                DropThen(<<"delete">>), DropThen(<<"hide">>), DropThen(<<"show">>),
                DropThen(<<"update">>), DropThen(<<"createUser", "create">>),
                DropThen(<<"create">>)}
      \/ s \in {ThenDrop(<<"create">>), ThenDrop(<<"update">>), ThenDrop(<<"delete">>)}
  BY DEF Changes, Tables, createEmployee, updateEmployee, deleteEmployee, deactivateEmployee,
         reactivateEmployee, createStore, updateStore, deleteStore, deactivateStore, reactivateStore,
         createLocation, updateLocation, deleteLocation, createClient, updateClient, deleteClient,
         deactivateClient, reactivateClient, createBranch, updateBranch, deleteBranch
<1>2. {<<"create", "addAgents">>, <<"update", "clearAgents", "addAgents">>, <<"delete">>, <<"hide">>,
       <<"show">>, <<"update">>, <<"createUser", "create">>, <<"create">>} \subseteq Seq(Writes)
  BY DEF Writes
<1>3. {"create", "update", "delete"} \subseteq Writes
  BY DEF Writes
<1>4. s \in Seq(Statements) /\ (Finds(s) \/ WritesFirst(s))
  BY <1>1, <1>2, <1>3, DropThenPlan, ThenDropPlan
<1>5. /\ Len(s) \in Nat
      /\ Finds(s) => Len(s) >= 1 /\ s[1] = "keys"
      /\ WritesFirst(s) => Len(s) >= 3 /\ s[1] \in Writes /\ s[2] = "keys"
  BY <1>4 DEF Finds, WritesFirst
<1>6. s # <<>>
  BY <1>4, <1>5
<1>7. ~AllWrites(s)
  <2>1. 1 \in 1 .. Len(s) /\ (WritesFirst(s) => 2 \in 1 .. Len(s))
    BY <1>4, <1>5
  <2> QED BY <1>4, <1>5, <2>1, StatementFacts DEF AllWrites
<1>8. ~Drops(s)
  BY <1>4, <1>5, StatementFacts DEF Drops
<1> QED BY <1>4, <1>6, <1>7, <1>8 DEF Plan

-----------------------------------------------------------------------------
(* ListCaches: the invariant *)

Contents == [of : DOMAIN ListOf, rows : SUBSET {1, 2}, agents : SUBSET Agents]

Copies == [content : Contents, met : BOOLEAN]

\* What a request is doing.
Doing == [steps : Seq(Statements), list : DOMAIN ListOf \cup {Nil},
          got : SUBSET (Keys \cup Contents), given : SUBSET Agents, met : BOOLEAN]

ListTypes ==
  /\ table \in Tables /\ row \in Row /\ agents \subseteq Agents
  /\ cache \in [Keys -> {Nil} \cup Copies]
  /\ request \in [Requests -> Doing]
  /\ answer = [p \in Requests |-> answer[p]]
  /\ \A p \in Requests : Reading(p) => request[p].got \subseteq Contents

\* A change does not read, and what it has left is a plan.
Planned == \A p \in Requests : Plan(request[p].steps) /\ ~(Changing(p) /\ Reading(p))

Marked(k) == cache[k] = Nil \/ cache[k].met

\* A change that has only writes left has left no list that was read in peace; one
\* that is to delete the lists it found has found every one of them.
Dropped(p) ==
  /\ Changing(p) /\ AllWrites(request[p].steps) => \A k \in Keys : Marked(k)
  /\ Drops(request[p].steps) => \A k \in Keys \ request[p].got : Marked(k)

\* A reader who met no change reads in peace.
InPeace(p) ==
  Reading(p) /\ ~request[p].met =>
    /\ \A q \in Requests : ~Changing(q)
    /\ request[p].got = {} \/ request[p].got = {Content(request[p].list)}

\* A list read in peace is under the key it is asked for by.
Keyed == \A k \in Keys : Marked(k) \/ ListOf[cache[k].content.of].key = k

ListsIInv ==
  /\ ListTypes /\ Planned /\ Keyed
  /\ \A p \in Requests : Dropped(p)
  /\ \A p \in Requests : InPeace(p)
  /\ CachedListsAreCurrent

\* A list that may be answered from Redis has its key to itself.
LEMMA ListFacts ==
  /\ \A n \in DOMAIN ListOf : ListOf[n].key \in Keys
  /\ \A n, m \in DOMAIN ListOf : ListOf[n].served /\ ListOf[m].key = ListOf[n].key => m = n
<1>1. \A n \in DOMAIN ListOf : ListOf[n].key \in Keys
  BY DEF Keys
<1>2. DOMAIN ListOf = {"employees", "stores", "minified", "clientStores", "locations", "clients",
                       "branches", "children"}
  BY DEF ListOf
<1>3. /\ ListOf["employees"] = Employees /\ ListOf["stores"] = Stores
      /\ ListOf["minified"] = MinifiedStores /\ ListOf["clientStores"] = ClientStores
      /\ ListOf["locations"] = Locations /\ ListOf["clients"] = Clients
      /\ ListOf["branches"] = Branches /\ ListOf["children"] = ChildBranches
  BY DEF ListOf
<1>4. /\ Employees.key = "employees" /\ Stores.key = "stores"
      /\ MinifiedStores.key = "minified stores" /\ ClientStores.key = "client stores"
      /\ Locations.key = "locations" /\ Clients.key = "clients"
      /\ Branches.key = "branches" /\ ChildBranches.key = "branches"
      /\ Branches.served = FALSE /\ ChildBranches.served = FALSE
  BY DEF Employees, Stores, MinifiedStores, ClientStores, Locations, Clients, Branches,
         ChildBranches, List
<1>5. \A n, m \in DOMAIN ListOf : ListOf[n].served /\ ListOf[m].key = ListOf[n].key => m = n
  BY <1>2, <1>3, <1>4
<1> QED BY <1>1, <1>5

LEMMA ContentFacts ==
  ASSUME row \in Row, agents \subseteq Agents, NEW n \in DOMAIN ListOf
  PROVE  Content(n) \in Contents /\ Content(n).of = n
BY DEF Content, Contents, Row

LEMMA IdleFacts ==
  /\ Idle \in Doing /\ Idle.steps = <<>> /\ Idle.list = Nil /\ Idle.got = {} /\ Idle.met = FALSE
BY StatementFacts DEF Idle, Doing

LEMMA ListInitIInv == Init => ListsIInv
<1> SUFFICES ASSUME Init PROVE ListsIInv
  OBVIOUS
<1>1. /\ \A p \in Requests : request[p] = Idle
      /\ \A k \in Keys : cache[k] = Nil
  BY DEF Init
<1>2. row \in Row
  BY DEF Init, None, Row
<1>3. ListTypes
  BY <1>1, <1>2, IdleFacts DEF Init, ListTypes, Reading
<1>4. Planned
  BY <1>1, IdleFacts, StatementFacts DEF Planned, Changing
<1>5. \A p \in Requests : Dropped(p) /\ InPeace(p)
  BY <1>1, IdleFacts, StatementFacts DEF Dropped, InPeace, Changing, Reading
<1> QED BY <1>1, <1>3, <1>4, <1>5 DEF ListsIInv, Keyed, Marked, CachedListsAreCurrent

\* A statement of p leaves the other requests as they are, and p with a statement less.
LEMMA AdvanceFacts ==
  ASSUME ListTypes, Planned, NEW p \in Requests, Changing(p), NEW got \in SUBSET Keys,
         Advance(p, got)
  PROVE  /\ request' \in [Requests -> Doing]
         /\ \A q \in Requests \ {p} : request'[q] = request[q]
         /\ request'[p].steps = Tail(request[p].steps)
         /\ request'[p].list = Nil
         /\ request'[p].steps # <<>> => request'[p].got = got
<1> DEFINE s == request[p].steps
           more == [request[p] EXCEPT !.steps = Tail(s), !.got = got]
<1>1. request \in [Requests -> Doing] /\ request[p] \in Doing /\ request[p].list = Nil
  BY DEF ListTypes, Planned, Reading
<1>2. s \in Seq(Statements) /\ s # <<>> /\ Plan(s)
  BY <1>1 DEF Changing, Doing, Planned
<1>3. Tail(s) \in Seq(Statements)
  BY <1>2, PlanTail
<1>4. request' = [request EXCEPT ![p] = IF Tail(s) = <<>> THEN Idle ELSE more]
  BY DEF Advance, Steps
<1>5. more \in Doing /\ more.steps = Tail(s) /\ more.list = Nil /\ more.got = got
  BY <1>1, <1>3 DEF Doing
<1> HIDE DEF more, s
<1>6. /\ \A q \in Requests \ {p} : request'[q] = request[q]
      /\ request'[p] = IF Tail(s) = <<>> THEN Idle ELSE more
  BY <1>1, <1>4
<1>7. request' \in [Requests -> Doing]
  BY <1>1, <1>4, <1>5, IdleFacts
<1> QED BY <1>5, <1>6, <1>7, IdleFacts DEF s

\* While a change runs nobody reads in peace.
LEMMA NoPeace ==
  ASSUME NEW p \in Requests, Changing(p), \A q \in Requests : InPeace(q)
  PROVE  \A q \in Requests : Reading(q) => request[q].met
BY DEF InPeace

\* What a statement of p keeps, whatever it leaves in the database and Redis.
LEMMA AdvanceKeeps ==
  ASSUME ListsIInv, NEW p \in Requests, Changing(p), NEW got \in SUBSET Keys, Advance(p, got)
  PROVE  /\ Planned'
         /\ \A q \in Requests : InPeace(q)'
         /\ \A q \in Requests : Reading(q)' => request'[q].got \subseteq Contents
<1>1. ListTypes /\ Planned /\ \A q \in Requests : InPeace(q)
  BY DEF ListsIInv
<1>2. /\ \A q \in Requests \ {p} : request'[q] = request[q]
      /\ request'[p].steps = Tail(request[p].steps)
      /\ request'[p].list = Nil
  BY <1>1, AdvanceFacts
<1>3. /\ request[p].steps \in Seq(Statements) /\ request[p].steps # <<>>
      /\ Plan(request[p].steps)
  BY <1>1 DEF ListTypes, Planned, Doing, Changing
<1>4. Plan(request'[p].steps)
  BY <1>2, <1>3, PlanTail
<1>5. ~Reading(p)'
  BY <1>2 DEF Reading
<1>6. Planned'
  BY <1>1, <1>2, <1>4, <1>5 DEF Planned, Changing, Reading
<1>7. \A q \in Requests \ {p} : Reading(q) => request[q].met
  BY <1>1, NoPeace
<1>8. \A q \in Requests : Reading(q)' => q # p /\ Reading(q) /\ request'[q] = request[q]
  BY <1>2, <1>5 DEF Reading
<1>9. \A q \in Requests : InPeace(q)'
  BY <1>7, <1>8 DEF InPeace
<1>10. \A q \in Requests : Reading(q)' => request'[q].got \subseteq Contents
  BY <1>1, <1>8 DEF ListTypes
<1> QED BY <1>6, <1>9, <1>10

LEMMA FindKeysKeeps ==
  ASSUME ListsIInv, NEW p \in Requests, FindKeys(p)
  PROVE  ListsIInv'
<1> DEFINE got == {k \in Keys : cache[k] # Nil}
           s == request[p].steps
<1>1. /\ Changing(p) /\ Head(s) = "keys" /\ Advance(p, got) /\ got \in SUBSET Keys
      /\ UNCHANGED <<table, row, agents, cache, answer>>
  BY DEF FindKeys
<1>2. ListTypes /\ Planned /\ (\A q \in Requests : Dropped(q)) /\ CachedListsAreCurrent
  BY DEF ListsIInv
<1>3. s \in Seq(Statements) /\ s # <<>> /\ Plan(s)
  BY <1>1, <1>2 DEF ListTypes, Planned, Doing, Changing
<1>4. Drops(Tail(s)) /\ ~AllWrites(Tail(s)) /\ (IsBehind(s) => IsBehind(Tail(s)))
  BY <1>1, <1>3, PlanTail
<1> HIDE DEF got, s
<1>5. /\ request' \in [Requests -> Doing]
      /\ \A q \in Requests \ {p} : request'[q] = request[q]
      /\ request'[p].steps = Tail(s)
      /\ request'[p].steps # <<>> => request'[p].got = got
  BY <1>1, <1>2, AdvanceFacts DEF s
<1>6. Planned' /\ (\A q \in Requests : InPeace(q)')
      /\ \A q \in Requests : Reading(q)' => request'[q].got \subseteq Contents
  BY <1>1, AdvanceKeeps
<1>7. ListTypes'
  BY <1>1, <1>2, <1>5, <1>6 DEF ListTypes
<1>8. Dropped(p)'
  <2>1. request'[p].got = got
    BY <1>4, <1>5, StatementFacts
  <2>2. \A k \in Keys \ got : Marked(k)'
    BY <1>1 DEF Marked, got
  <2> QED BY <1>4, <1>5, <2>1, <2>2 DEF Dropped
<1>9. \A k \in Keys : Marked(k)' <=> Marked(k)
  BY <1>1 DEF Marked
<1>10. \A q \in Requests \ {p} : Dropped(q)'
  BY <1>2, <1>5, <1>9 DEF Dropped, Changing
<1>11. Keyed'
  BY <1>1, <1>9 DEF ListsIInv, Keyed
<1>12. \A q \in Requests : Behind(q) => Behind(q)'
  <2>1. \A q \in Requests : request[q].steps \in Seq(Statements) /\ request'[q].steps \in Seq(Statements)
    BY <1>2, <1>5 DEF ListTypes, Doing
  <2> QED BY <1>4, <1>5, <2>1, BehindFacts, BehindFactsPrimed DEF s
<1>13. CachedListsAreCurrent'
  <2>1. \A n : Content(n)' = Content(n)
    BY <1>1 DEF Content
  <2> QED BY <1>1, <1>2, <1>12, <2>1 DEF CachedListsAreCurrent
<1> QED BY <1>6, <1>7, <1>8, <1>10, <1>11, <1>13 DEF ListsIInv

LEMMA DelKeeps ==
  ASSUME ListsIInv, NEW p \in Requests, Del(p)
  PROVE  ListsIInv'
<1> DEFINE s == request[p].steps
<1>1. /\ Changing(p) /\ Head(s) = "del" /\ Advance(p, {}) /\ {} \in SUBSET Keys
      /\ cache' = [k \in Keys |-> IF k \in request[p].got THEN Nil ELSE cache[k]]
      /\ UNCHANGED <<table, row, agents, answer>>
  BY DEF Del
<1>2. ListTypes /\ Planned /\ Dropped(p)
  BY DEF ListsIInv
<1>3. s \in Seq(Statements) /\ s # <<>> /\ Plan(s)
  BY <1>1, <1>2 DEF ListTypes, Planned, Doing, Changing
<1>4. Drops(s)
  BY <1>1, <1>3, PlanTail
<1> HIDE DEF s
<1>5. \A k \in Keys : Marked(k)'
  BY <1>1, <1>2, <1>4 DEF Dropped, Marked, s
<1>6. request' \in [Requests -> Doing]
  BY <1>1, <1>2, AdvanceFacts
<1>7. Planned' /\ (\A q \in Requests : InPeace(q)')
      /\ \A q \in Requests : Reading(q)' => request'[q].got \subseteq Contents
  BY <1>1, AdvanceKeeps
<1>8. cache' \in [Keys -> {Nil} \cup Copies]
  BY <1>1, <1>2 DEF ListTypes
<1>9. ListTypes'
  BY <1>1, <1>2, <1>6, <1>7, <1>8 DEF ListTypes
<1>10. \A q \in Requests : Dropped(q)'
  BY <1>5 DEF Dropped
<1>11. Keyed' /\ CachedListsAreCurrent'
  BY <1>5 DEF Keyed, CachedListsAreCurrent, Marked
<1> QED BY <1>7, <1>9, <1>10, <1>11 DEF ListsIInv

LEMMA WriteKeeps ==
  ASSUME ListsIInv, NEW p \in Requests, Write(p)
  PROVE  ListsIInv'
<1> DEFINE s == request[p].steps
<1>1. /\ Changing(p) /\ Head(s) \in Writes /\ Advance(p, {}) /\ {} \in SUBSET Keys
      /\ UNCHANGED <<table, cache, answer>>
  BY DEF Write
<1>2. ListTypes /\ Planned /\ (\A q \in Requests : Dropped(q))
  BY DEF ListsIInv
<1>3. s \in Seq(Statements) /\ s # <<>> /\ Plan(s)
  BY <1>1, <1>2 DEF ListTypes, Planned, Doing, Changing
<1>4. /\ ~IsBehind(s) /\ ~Drops(Tail(s))
      /\ \/ AllWrites(s) /\ AllWrites(Tail(s))
         \/ IsBehind(Tail(s)) /\ ~AllWrites(Tail(s))
  BY <1>1, <1>3, PlanTail
<1> HIDE DEF s
<1>5. /\ request' \in [Requests -> Doing]
      /\ \A q \in Requests \ {p} : request'[q] = request[q]
      /\ request'[p].steps = Tail(s)
  BY <1>1, <1>2, AdvanceFacts DEF s
<1>6. Planned' /\ (\A q \in Requests : InPeace(q)')
      /\ \A q \in Requests : Reading(q)' => request'[q].got \subseteq Contents
  BY <1>1, AdvanceKeeps
<1>7. row' \in Row /\ agents' \subseteq Agents
  <2>1. /\ row' = Written(Head(s))
        /\ agents' = CASE Head(s) \in {"clearAgents", "delete"} -> {}
                       [] Head(s) = "addAgents" -> agents \cup request[p].given
                       [] OTHER -> agents
    BY DEF Write, s
  <2>2. row \in Row /\ agents \subseteq Agents /\ request[p].given \subseteq Agents
    BY <1>2 DEF ListTypes, Doing
  <2>3. row' \in Row
    BY <2>1, <2>2 DEF Written, Row, None
  <2>4. agents' \subseteq Agents
    BY <2>1, <2>2
  <2> QED BY <2>3, <2>4
<1>8. ListTypes'
  BY <1>1, <1>2, <1>5, <1>6, <1>7 DEF ListTypes
<1>9. \A k \in Keys : Marked(k)' <=> Marked(k)
  BY <1>1 DEF Marked
<1>10. Keyed'
  BY <1>1, <1>9 DEF ListsIInv, Keyed
<1>11. CASE AllWrites(s)
  <2>1. \A k \in Keys : Marked(k)'
    BY <1>1, <1>2, <1>9, <1>11 DEF Dropped, s
  <2>2. \A q \in Requests : Dropped(q)'
    BY <2>1 DEF Dropped
  <2>3. CachedListsAreCurrent'
    BY <2>1 DEF CachedListsAreCurrent, Marked
  <2> QED BY <1>6, <1>8, <1>10, <2>2, <2>3 DEF ListsIInv
<1>12. CASE IsBehind(Tail(s)) /\ ~AllWrites(Tail(s))
  <2>1. Dropped(p)'
    BY <1>4, <1>5, <1>12 DEF Dropped
  <2>2. \A q \in Requests \ {p} : Dropped(q)'
    BY <1>2, <1>5, <1>9 DEF Dropped, Changing
  <2>3. Behind(p)'
    <3>1. request'[p].steps \in Seq(Statements)
      BY <1>5 DEF Doing
    <3> QED BY <1>5, <1>12, <3>1, BehindFactsPrimed
  <2>4. CachedListsAreCurrent'
    BY <2>3 DEF CachedListsAreCurrent
  <2> QED BY <1>6, <1>8, <1>10, <2>1, <2>2, <2>4 DEF ListsIInv
<1> QED BY <1>4, <1>11, <1>12

LEMMA ChangeKeeps ==
  ASSUME ListsIInv, NEW p \in Requests, NEW steps \in Changes, NEW given \in SUBSET Agents,
         Change(p, steps, given)
  PROVE  ListsIInv'
<1> DEFINE new == [Idle EXCEPT !.steps = steps, !.given = given]
           met(q) == [request[q] EXCEPT !.met = TRUE]
<1>1. /\ request[p] = Idle
      /\ request' = [q \in Requests |-> IF q = p THEN new
                                        ELSE IF Reading(q) THEN met(q) ELSE request[q]]
      /\ answer' = [answer EXCEPT ![p] = Nil]
      /\ UNCHANGED <<table, row, agents, cache>>
  BY DEF Change, Begin
<1>2. ListTypes /\ Planned /\ (\A q \in Requests : Dropped(q)) /\ CachedListsAreCurrent
  BY DEF ListsIInv
<1>3. /\ steps \in Seq(Statements) /\ Plan(steps) /\ steps # <<>>
      /\ ~AllWrites(steps) /\ ~Drops(steps)
  BY <1>2, ChangesFacts DEF ListTypes
<1>4. new \in Doing /\ new.steps = steps /\ new.list = Nil
  BY <1>3, IdleFacts DEF Doing
<1>5. \A q \in Requests : /\ met(q) \in Doing /\ met(q).steps = request[q].steps
                          /\ met(q).list = request[q].list /\ met(q).got = request[q].got
                          /\ met(q).met = TRUE
  BY <1>2 DEF ListTypes, Doing
<1> HIDE DEF new, met
<1>6. request' \in [Requests -> Doing]
  BY <1>1, <1>2, <1>4, <1>5 DEF ListTypes
<1>7. /\ request'[p] = new
      /\ \A q \in Requests \ {p} : /\ request'[q].steps = request[q].steps
                                   /\ request'[q].list = request[q].list
                                   /\ request'[q].got = request[q].got
                                   /\ Reading(q) => request'[q].met = TRUE
  BY <1>1, <1>5
<1>8. ~Reading(p)'
  BY <1>4, <1>7 DEF Reading
<1>9. ListTypes'
  <2>1. \A q \in Requests : Reading(q)' => request'[q].got \subseteq Contents
    BY <1>2, <1>7, <1>8 DEF ListTypes, Reading
  <2>2. answer' = [q \in Requests |-> answer'[q]]
    BY <1>1, <1>2 DEF ListTypes
  <2> QED BY <1>1, <1>2, <1>6, <2>1, <2>2 DEF ListTypes
<1>10. Planned'
  BY <1>2, <1>3, <1>4, <1>7, <1>8 DEF Planned, Changing, Reading
<1>11. \A q \in Requests : InPeace(q)'
  BY <1>7, <1>8 DEF InPeace, Reading
<1>12. \A k \in Keys : Marked(k)' <=> Marked(k)
  BY <1>1 DEF Marked
<1>13. Dropped(p)'
  BY <1>3, <1>4, <1>7 DEF Dropped
<1>14. \A q \in Requests \ {p} : Dropped(q)'
  BY <1>2, <1>7, <1>12 DEF Dropped, Changing
<1>15. Keyed'
  BY <1>1, <1>12 DEF ListsIInv, Keyed
<1>16. CachedListsAreCurrent'
  <2>1. \A n : Content(n)' = Content(n)
    BY <1>1 DEF Content
  <2>2. \A q \in Requests : request[q].steps \in Seq(Statements) /\ request'[q].steps \in Seq(Statements)
    BY <1>2, <1>6 DEF ListTypes, Doing
  <2>3. ~Behind(p)
    BY <1>1, <2>2, BehindFacts, IdleFacts, StatementFacts
  <2>4. \A q \in Requests : Behind(q) => Behind(q)'
    BY <1>7, <2>2, <2>3, BehindFacts, BehindFactsPrimed
  <2> QED BY <1>1, <1>2, <2>1, <2>4 DEF CachedListsAreCurrent
<1> QED BY <1>9, <1>10, <1>11, <1>13, <1>14, <1>15, <1>16 DEF ListsIInv

\* A change that dies before it drops the lists leaves them marked.
LEMMA StopKeeps ==
  ASSUME ListsIInv, NEW p \in Requests, Stop(p)
  PROVE  ListsIInv'
<1> DEFINE marked(k) == [cache[k] EXCEPT !.met = TRUE]
<1>1. /\ cache' = [k \in Keys |-> IF Behind(p) /\ cache[k] # Nil THEN marked(k) ELSE cache[k]]
      /\ request' = [request EXCEPT ![p] = Idle]
      /\ UNCHANGED <<table, row, agents, answer>>
  BY DEF Stop
<1>2. /\ ListTypes /\ Planned /\ (\A q \in Requests : Dropped(q)) /\ CachedListsAreCurrent
      /\ Keyed /\ \A q \in Requests : InPeace(q)
  BY DEF ListsIInv
<1>3. \A k \in Keys : cache[k] # Nil => /\ marked(k) \in Copies /\ marked(k).met = TRUE
                                        /\ marked(k).content = cache[k].content
  BY <1>2 DEF ListTypes, Copies
<1> HIDE DEF marked
<1>4. cache' \in [Keys -> {Nil} \cup Copies]
  BY <1>1, <1>2, <1>3 DEF ListTypes
<1>5. /\ request' \in [Requests -> Doing] /\ request'[p] = Idle
      /\ \A q \in Requests \ {p} : request'[q] = request[q]
  BY <1>1, <1>2, IdleFacts DEF ListTypes
<1>6. \A k \in Keys : /\ Marked(k) => Marked(k)'
                      /\ Behind(p) => Marked(k)'
                      /\ ~Behind(p) => cache'[k] = cache[k]
  BY <1>1, <1>3 DEF Marked
<1>7. \A k \in Keys : ~Marked(k)' => cache'[k] = cache[k]
  BY <1>1, <1>3 DEF Marked
<1>8. ~Changing(p)' /\ ~Reading(p)'
  BY <1>5, IdleFacts DEF Changing, Reading
<1>9. ListTypes'
  BY <1>1, <1>2, <1>4, <1>5, <1>8 DEF ListTypes, Reading
<1>10. Planned'
  BY <1>2, <1>5, <1>8, IdleFacts, StatementFacts DEF Planned, Changing, Reading
<1>11. \A q \in Requests : Dropped(q)'
  <2>1. Dropped(p)'
    BY <1>5, <1>8, IdleFacts, StatementFacts DEF Dropped
  <2>2. \A q \in Requests \ {p} : Dropped(q)'
    BY <1>2, <1>5, <1>6 DEF Dropped, Changing
  <2> QED BY <2>1, <2>2
<1>12. \A n : Content(n)' = Content(n)
  BY <1>1 DEF Content
<1>13. \A q \in Requests : InPeace(q)'
  <2>1. \A q \in Requests \ {p} : Reading(q)' => Reading(q)
    BY <1>5 DEF Reading
  <2>2. \A q \in Requests : Changing(q)' => Changing(q)
    BY <1>5, <1>8 DEF Changing
  <2> QED BY <1>2, <1>5, <1>8, <1>12, <2>1, <2>2 DEF InPeace
<1>14. Keyed'
  BY <1>2, <1>6, <1>7 DEF Keyed
<1>15. CachedListsAreCurrent'
  <2>1. CASE Behind(p)
    BY <1>6, <2>1 DEF CachedListsAreCurrent, Marked
  <2>2. CASE ~Behind(p)
    <3>1. \A q \in Requests : request[q].steps \in Seq(Statements) /\ request'[q].steps \in Seq(Statements)
      BY <1>2, <1>5 DEF ListTypes, Doing
    <3>2. \A q \in Requests : Behind(q) => Behind(q)'
      BY <1>5, <2>2, <3>1, BehindFacts, BehindFactsPrimed
    <3> QED BY <1>2, <1>6, <1>12, <2>2, <3>2 DEF CachedListsAreCurrent
  <2> QED BY <2>1, <2>2
<1> QED BY <1>9, <1>10, <1>11, <1>13, <1>14, <1>15 DEF ListsIInv

LEMMA AskKeeps ==
  ASSUME ListsIInv, NEW p \in Requests, NEW n \in Names, Ask(p, n)
  PROVE  ListsIInv'
<1> DEFINE copy == cache[ListOf[n].key]
           new == [Idle EXCEPT !.list = n, !.met = \E q \in Requests : Changing(q)]
<1>1. /\ request[p] = Idle
      /\ IF ListOf[n].served /\ copy # Nil
         THEN /\ answer' = [answer EXCEPT ![p] = [asked |-> n, got |-> copy.content, met |-> copy.met]]
              /\ UNCHANGED request
         ELSE /\ request' = [request EXCEPT ![p] = new]
              /\ answer' = [answer EXCEPT ![p] = Nil]
      /\ UNCHANGED <<table, row, agents, cache>>
  BY DEF Ask, Begin
<1>2. /\ ListTypes /\ Planned /\ (\A q \in Requests : Dropped(q)) /\ CachedListsAreCurrent
      /\ Keyed /\ \A q \in Requests : InPeace(q)
  BY DEF ListsIInv
<1>3. n \in DOMAIN ListOf
  BY DEF Names
<1>4. /\ new \in Doing /\ new.steps = <<>> /\ new.list = n /\ new.got = {}
      /\ new.met <=> \E q \in Requests : Changing(q)
  <2>1. (\E q \in Requests : Changing(q)) \in BOOLEAN
    OBVIOUS
  <2> QED BY <1>3, <2>1, IdleFacts DEF Doing
<1> HIDE DEF new, copy
<1>5. answer' = [q \in Requests |-> answer'[q]]
  BY <1>1, <1>2 DEF ListTypes
<1>6. \A m : Content(m)' = Content(m)
  BY <1>1 DEF Content
<1>7. \A k \in Keys : Marked(k)' <=> Marked(k)
  BY <1>1 DEF Marked
<1>8. CASE UNCHANGED request
  <2>1. \A q \in Requests : /\ Changing(q)' <=> Changing(q)
                            /\ Reading(q)' <=> Reading(q)
                            /\ Behind(q)' <=> Behind(q)
    BY <1>8 DEF Changing, Reading, Behind
  <2>2. ListTypes' /\ Planned'
    BY <1>1, <1>2, <1>5, <1>8, <2>1 DEF ListTypes, Planned
  <2>3. \A q \in Requests : Dropped(q)' /\ InPeace(q)'
    BY <1>2, <1>6, <1>7, <1>8, <2>1 DEF Dropped, InPeace
  <2>4. Keyed' /\ CachedListsAreCurrent'
    BY <1>1, <1>2, <1>6, <1>7, <2>1 DEF Keyed, CachedListsAreCurrent
  <2> QED BY <2>2, <2>3, <2>4 DEF ListsIInv
<1>9. CASE request' = [request EXCEPT ![p] = new]
  <2>1. /\ request' \in [Requests -> Doing] /\ request'[p] = new
        /\ \A q \in Requests \ {p} : request'[q] = request[q]
    BY <1>2, <1>4, <1>9 DEF ListTypes
  <2>2. ~Changing(p) /\ ~Changing(p)'
    BY <1>1, <1>4, <2>1, IdleFacts DEF Changing
  <2>3. \A q \in Requests : Changing(q)' <=> Changing(q)
    BY <2>1, <2>2 DEF Changing
  <2>4. ListTypes'
    <3>1. \A q \in Requests : Reading(q)' => request'[q].got \subseteq Contents
      BY <1>2, <1>4, <2>1 DEF ListTypes, Reading
    <3> QED BY <1>1, <1>2, <1>5, <2>1, <3>1 DEF ListTypes
  <2>5. Planned'
    BY <1>2, <1>4, <2>1, <2>2, <2>3, StatementFacts DEF Planned, Reading
  <2>6. \A q \in Requests : Dropped(q)'
    <3>1. Dropped(p)'
      BY <1>4, <2>1, <2>2, StatementFacts DEF Dropped
    <3>2. \A q \in Requests \ {p} : Dropped(q)'
      BY <1>2, <1>7, <2>1, <2>3 DEF Dropped
    <3> QED BY <3>1, <3>2
  <2>7. \A q \in Requests : InPeace(q)'
    <3>1. InPeace(p)'
      BY <1>4, <2>1, <2>3 DEF InPeace
    <3>2. \A q \in Requests \ {p} : InPeace(q)'
      BY <1>2, <1>6, <2>1, <2>3 DEF InPeace, Reading
    <3> QED BY <3>1, <3>2
  <2>8. Keyed'
    BY <1>1, <1>2, <1>7 DEF Keyed
  <2>9. CachedListsAreCurrent'
    <3>1. \A q \in Requests : request[q].steps \in Seq(Statements) /\ request'[q].steps \in Seq(Statements)
      BY <1>2, <2>1 DEF ListTypes, Doing
    <3>2. ~Behind(p)
      BY <1>1, <3>1, BehindFacts, IdleFacts, StatementFacts
    <3>3. \A q \in Requests : Behind(q) => Behind(q)'
      BY <2>1, <3>1, <3>2, BehindFacts, BehindFactsPrimed
    <3> QED BY <1>1, <1>2, <1>6, <3>3 DEF CachedListsAreCurrent
  <2> QED BY <2>4, <2>5, <2>6, <2>7, <2>8, <2>9 DEF ListsIInv
<1> QED BY <1>1, <1>8, <1>9

LEMMA QueryKeeps ==
  ASSUME ListsIInv, NEW p \in Requests, Query(p)
  PROVE  ListsIInv'
<1> DEFINE c == Content(request[p].list)
<1>1. /\ Reading(p) /\ request' = [request EXCEPT ![p].got = {c}]
      /\ UNCHANGED <<table, row, agents, cache, answer>>
  BY DEF Query
<1>2. /\ ListTypes /\ Planned /\ (\A q \in Requests : Dropped(q)) /\ CachedListsAreCurrent
      /\ Keyed /\ \A q \in Requests : InPeace(q)
  BY DEF ListsIInv
<1>3. c \in Contents
  BY <1>1, <1>2, ContentFacts DEF ListTypes, Reading, Doing
<1>4. \A n : Content(n)' = Content(n)
  BY <1>1 DEF Content
<1> HIDE DEF c
<1>5. /\ request' \in [Requests -> Doing]
      /\ \A q \in Requests \ {p} : request'[q] = request[q]
      /\ request'[p].steps = request[p].steps /\ request'[p].list = request[p].list
      /\ request'[p].met = request[p].met /\ request'[p].got = {c}
  BY <1>1, <1>2, <1>3 DEF ListTypes, Doing
<1>6. \A q \in Requests : /\ request'[q].steps = request[q].steps
                          /\ Changing(q)' <=> Changing(q)
                          /\ Reading(q)' <=> Reading(q)
                          /\ Behind(q)' <=> Behind(q)
  BY <1>5 DEF Changing, Reading, Behind
<1>7. ListTypes'
  BY <1>1, <1>2, <1>3, <1>5, <1>6 DEF ListTypes
<1>8. Planned'
  BY <1>2, <1>6 DEF Planned
<1>9. \A k \in Keys : Marked(k)' <=> Marked(k)
  BY <1>1 DEF Marked
<1>10. ~Changing(p)
  BY <1>1, <1>2 DEF Planned
<1>11. \A q \in Requests : Dropped(q)'
  <2>1. request[p].steps = <<>>
    BY <1>10 DEF Changing
  <2>2. Dropped(p)'
    BY <1>6, <1>10, <2>1, StatementFacts DEF Dropped
  <2>3. \A q \in Requests \ {p} : Dropped(q)'
    BY <1>2, <1>5, <1>6, <1>9 DEF Dropped
  <2> QED BY <2>2, <2>3
<1>12. \A q \in Requests : InPeace(q)'
  <2>1. InPeace(p)'
    BY <1>1, <1>2, <1>4, <1>5, <1>6 DEF InPeace, c
  <2>2. \A q \in Requests \ {p} : InPeace(q)'
    BY <1>2, <1>4, <1>5, <1>6 DEF InPeace
  <2> QED BY <2>1, <2>2
<1>13. Keyed' /\ CachedListsAreCurrent'
  BY <1>1, <1>2, <1>4, <1>6, <1>9 DEF Keyed, CachedListsAreCurrent
<1> QED BY <1>7, <1>8, <1>11, <1>12, <1>13 DEF ListsIInv

\* What a reader leaves in Redis and answers.
LEMMA SavedFacts ==
  ASSUME ListsIInv, NEW p \in Requests, Save(p)
  PROVE  LET n == request[p].list
             content == CHOOSE c \in request[p].got : TRUE
         IN  /\ n \in DOMAIN ListOf /\ content \in Contents
             /\ ~request[p].met => content = Content(n) /\ content.of = n
<1> DEFINE n == request[p].list
           content == CHOOSE c \in request[p].got : TRUE
<1>1. Reading(p) /\ request[p].got # {}
  BY DEF Save
<1>2. ListTypes /\ InPeace(p)
  BY DEF ListsIInv
<1>3. n \in DOMAIN ListOf
  BY <1>1, <1>2 DEF ListTypes, Doing, Reading
<1>4. content \in request[p].got
  BY <1>1
<1>5. content \in Contents
  BY <1>1, <1>2, <1>4 DEF ListTypes
<1>6. Content(n).of = n
  BY DEF Content
<1>7. ~request[p].met => request[p].got = {Content(n)}
  BY <1>1, <1>2 DEF InPeace
<1> HIDE DEF content, n
<1>8. ~request[p].met => content = Content(n) /\ content.of = n
  BY <1>4, <1>6, <1>7
<1> QED BY <1>3, <1>5, <1>8 DEF content, n

LEMMA SaveKeeps ==
  ASSUME ListsIInv, NEW p \in Requests, Save(p)
  PROVE  ListsIInv'
<1> DEFINE n == request[p].list
           content == CHOOSE c \in request[p].got : TRUE
           new == [content |-> content, met |-> request[p].met]
<1>1. /\ cache' = IF ListOf[n].kept THEN [cache EXCEPT ![ListOf[n].key] = new] ELSE cache
      /\ answer' = [answer EXCEPT ![p] = [asked |-> n, got |-> content, met |-> request[p].met]]
      /\ request' = [request EXCEPT ![p] = Idle]
      /\ UNCHANGED <<table, row, agents>>
  BY DEF Save
<1>2. /\ n \in DOMAIN ListOf /\ content \in Contents
      /\ ~request[p].met => content = Content(n) /\ content.of = n
  BY SavedFacts
<1>3. /\ ListTypes /\ Planned /\ (\A q \in Requests : Dropped(q)) /\ CachedListsAreCurrent
      /\ Keyed /\ \A q \in Requests : InPeace(q)
  BY DEF ListsIInv
<1>4. Reading(p)
  BY DEF Save
<1>5. request[p].met \in BOOLEAN
  BY <1>3 DEF ListTypes, Doing
<1> HIDE DEF content, n
<1>6. new \in Copies /\ new.content = content /\ new.met = request[p].met
  BY <1>2, <1>5 DEF Copies
<1> HIDE DEF new
<1>7. /\ cache' \in [Keys -> {Nil} \cup Copies]
      /\ \A k \in Keys : cache'[k] = cache[k] \/ (k = ListOf[n].key /\ cache'[k] = new)
  BY <1>1, <1>2, <1>3, <1>6, ListFacts DEF ListTypes
<1>8. /\ request' \in [Requests -> Doing] /\ request'[p] = Idle
      /\ \A q \in Requests \ {p} : request'[q] = request[q]
  BY <1>1, <1>3, IdleFacts DEF ListTypes
<1>9. ~Changing(p) /\ ~Changing(p)' /\ ~Reading(p)'
  BY <1>3, <1>4, <1>8, IdleFacts DEF Planned, Changing, Reading
<1>10. \A q \in Requests : Changing(q)' <=> Changing(q)
  BY <1>8, <1>9 DEF Changing
<1>11. \A q \in Requests : Reading(q)' => Reading(q) /\ request'[q] = request[q]
  BY <1>8, <1>9 DEF Reading
<1>12. ListTypes'
  <2>1. answer' = [q \in Requests |-> answer'[q]]
    BY <1>1, <1>3 DEF ListTypes
  <2> QED BY <1>1, <1>3, <1>7, <1>8, <1>11, <2>1 DEF ListTypes
<1>13. Planned'
  BY <1>3, <1>8, <1>9, <1>10, <1>11, IdleFacts, StatementFacts DEF Planned
<1>14. \A m : Content(m)' = Content(m)
  BY <1>1 DEF Content
<1>15. \A q \in Requests : InPeace(q)'
  BY <1>3, <1>10, <1>11, <1>14 DEF InPeace
<1>16. (\E q \in Requests : Changing(q)) => \A k \in Keys : Marked(k) => Marked(k)'
  <2>1. (\E q \in Requests : Changing(q)) => request[p].met
    BY <1>3, <1>4, NoPeace
  <2> QED BY <1>6, <1>7, <2>1 DEF Marked
<1>17. \A q \in Requests : Dropped(q)'
  <2>1. Dropped(p)'
    BY <1>8, <1>9, IdleFacts, StatementFacts DEF Dropped
  <2>2. ASSUME NEW q \in Requests \ {p} PROVE Dropped(q)'
    <3>1. Drops(request[q].steps) => Changing(q)
      BY StatementFacts DEF Changing
    <3> QED BY <1>3, <1>8, <1>10, <1>16, <3>1 DEF Dropped
  <2> QED BY <2>1, <2>2
<1>18. Keyed'
  BY <1>2, <1>3, <1>6, <1>7 DEF Keyed, Marked
<1>19. CachedListsAreCurrent'
  <2>1. \A q \in Requests : request[q].steps \in Seq(Statements) /\ request'[q].steps \in Seq(Statements)
    BY <1>3, <1>8 DEF ListTypes, Doing
  <2>2. ~Behind(p)
    BY <1>9, <2>1, BehindFacts, StatementFacts DEF Changing
  <2>3. \A q \in Requests : Behind(q) => Behind(q)'
    BY <1>8, <2>1, <2>2, BehindFacts, BehindFactsPrimed
  <2> QED BY <1>2, <1>3, <1>6, <1>7, <1>14, <2>3 DEF CachedListsAreCurrent
<1> QED BY <1>12, <1>13, <1>15, <1>17, <1>18, <1>19 DEF ListsIInv

LEMMA ExpireKeeps ==
  ASSUME ListsIInv, NEW k \in Keys, Expire(k)
  PROVE  ListsIInv'
<1>1. cache' = [cache EXCEPT ![k] = Nil] /\ UNCHANGED <<table, row, agents, request, answer>>
  BY DEF Expire
<1>2. /\ ListTypes /\ Planned /\ (\A q \in Requests : Dropped(q)) /\ CachedListsAreCurrent
      /\ Keyed /\ \A q \in Requests : InPeace(q)
  BY DEF ListsIInv
<1>3. /\ cache' \in [Keys -> {Nil} \cup Copies]
      /\ \A j \in Keys : cache'[j] = cache[j] \/ cache'[j] = Nil
  BY <1>1, <1>2 DEF ListTypes
<1>4. \A j \in Keys : Marked(j) => Marked(j)'
  BY <1>3 DEF Marked
<1>5. /\ \A q \in Requests : /\ Changing(q)' <=> Changing(q)
                             /\ Reading(q)' <=> Reading(q)
                             /\ Behind(q)' <=> Behind(q)
      /\ \A n : Content(n)' = Content(n)
  BY <1>1 DEF Changing, Reading, Behind, Content
<1>6. ListTypes' /\ Planned'
  BY <1>1, <1>2, <1>3, <1>5 DEF ListTypes, Planned
<1>7. \A q \in Requests : Dropped(q)' /\ InPeace(q)'
  BY <1>1, <1>2, <1>4, <1>5 DEF Dropped, InPeace
<1>8. Keyed' /\ CachedListsAreCurrent'
  BY <1>2, <1>3, <1>5 DEF Keyed, CachedListsAreCurrent, Marked
<1> QED BY <1>6, <1>7, <1>8 DEF ListsIInv

LEMMA ListNextIInv == ListsIInv /\ [Next]_vars => ListsIInv'
<1> SUFFICES ASSUME ListsIInv, [Next]_vars PROVE ListsIInv'
  OBVIOUS
<1>1. CASE UNCHANGED vars
  <2>1. UNCHANGED <<table, row, agents, cache, request, answer>>
    BY <1>1 DEF vars
  <2> QED BY <2>1 DEF ListsIInv, ListTypes, Planned, Keyed, Marked, Dropped, InPeace,
                      CachedListsAreCurrent, Changing, Reading, Behind, Content
<1>2. ASSUME NEW p \in Requests, NEW steps \in Changes, NEW given \in SUBSET Agents,
             Change(p, steps, given)
      PROVE  ListsIInv'
  BY <1>2, ChangeKeeps
<1>3. ASSUME NEW p \in Requests, FindKeys(p) \/ Del(p) \/ Write(p) \/ Stop(p) PROVE ListsIInv'
  BY <1>3, FindKeysKeeps, DelKeeps, WriteKeeps, StopKeeps
<1>4. ASSUME NEW p \in Requests, NEW n \in Names, Ask(p, n) PROVE ListsIInv'
  BY <1>4, AskKeeps
<1>5. ASSUME NEW p \in Requests, Query(p) \/ Save(p) PROVE ListsIInv'
  BY <1>5, QueryKeeps, SaveKeeps
<1>6. ASSUME NEW k \in Keys, Expire(k) PROVE ListsIInv'
  BY <1>6, ExpireKeeps
<1>7. Rest => UNCHANGED vars
  BY DEF Rest
<1> QED BY <1>1, <1>2, <1>3, <1>4, <1>5, <1>6, <1>7 DEF Next

\* However changes, reads, deaths and expiries interleave, the invariant holds.
THEOREM ListsInductive == Spec => []ListsIInv
BY ListInitIInv, ListNextIInv, PTL DEF Spec

\* For any number of requests, a list in Redis that was read in peace is what the database
\* holds, unless a change has written and has yet to drop it.
THEOREM CachedListsStayCurrent == Spec => []CachedListsAreCurrent
<1>1. ListsIInv => CachedListsAreCurrent
  BY DEF ListsIInv
<1> QED BY <1>1, ListsInductive, PTL

\* For any number of requests, whoever reads in peace is answered the list he asked for,
\* from Redis or from the database, though two lists of branches share a key.
THEOREM AnswersAreRight == Spec => AnswersAreTheListAsked
<1> DEFINE Right(p) ==
      answer'[p] # answer[p] /\ answer'[p] # Nil =>
        \/ answer'[p].met
        \/ \E q \in Requests : Behind(q)
        \/ answer'[p].got = Content(answer'[p].asked)
<1>1. ASSUME ListsIInv, [Next]_vars, NEW p \in Requests, answer'[p] # answer[p], answer'[p] # Nil
      PROVE  \/ answer'[p].met
             \/ \E q \in Requests : Behind(q)
             \/ answer'[p].got = Content(answer'[p].asked)
  <2>1. answer = [q \in Requests |-> answer[q]]
    BY <1>1 DEF ListsIInv, ListTypes
  <2>2. \A q \in Requests : \A a : answer' = [answer EXCEPT ![q] = a] => p = q /\ answer'[p] = a
    BY <1>1, <2>1
  <2>3. CASE UNCHANGED answer
    BY <1>1, <2>3
  <2>4. ASSUME NEW q \in Requests, NEW steps \in Changes, NEW given \in SUBSET Agents,
               Change(q, steps, given)
        PROVE  FALSE
    BY <1>1, <2>2, <2>4 DEF Change
  <2>5. ASSUME NEW q \in Requests, NEW n \in Names, Ask(q, n)
        PROVE  \/ answer'[p].met
               \/ \E r \in Requests : Behind(r)
               \/ answer'[p].got = Content(answer'[p].asked)
    <3> DEFINE copy == cache[ListOf[n].key]
               a == [asked |-> n, got |-> copy.content, met |-> copy.met]
    <3>1. ListOf[n].served /\ copy # Nil /\ answer' = [answer EXCEPT ![q] = a]
      BY <1>1, <2>2, <2>5 DEF Ask
    <3>2. n \in DOMAIN ListOf /\ ListOf[n].key \in Keys
      BY ListFacts DEF Names
    <3>3. CachedListsAreCurrent /\ Keyed /\ ListTypes
      BY <1>1 DEF ListsIInv
    <3>4. copy.content.of \in DOMAIN ListOf
      BY <3>1, <3>2, <3>3 DEF ListTypes, Copies, Contents
    <3>5. copy.met \/ copy.content.of = n
      BY <3>1, <3>2, <3>3, <3>4, ListFacts DEF Keyed, Marked
    <3>6. copy.met \/ (\E r \in Requests : Behind(r)) \/ copy.content = Content(copy.content.of)
      BY <3>1, <3>2, <3>3 DEF CachedListsAreCurrent
    <3>7. answer'[p].asked = n /\ answer'[p].got = copy.content /\ answer'[p].met = copy.met
      <4> HIDE DEF copy, a
      <4>1. answer'[p] = a
        BY <2>2, <3>1
      <4> QED BY <4>1 DEF a
    <3> HIDE DEF copy, a
    <3> QED BY <3>5, <3>6, <3>7
  <2>6. ASSUME NEW q \in Requests, Save(q)
        PROVE  answer'[p].met \/ answer'[p].got = Content(answer'[p].asked)
    <3> DEFINE n == request[q].list
               content == CHOOSE c \in request[q].got : TRUE
               a == [asked |-> n, got |-> content, met |-> request[q].met]
    <3>1. answer' = [answer EXCEPT ![q] = a]
      BY <2>6 DEF Save
    <3>2. ~request[q].met => content = Content(n)
      BY <1>1, <2>6, SavedFacts
    <3> HIDE DEF n, content, a
    <3>3. answer'[p] = a
      BY <2>2, <3>1
    <3>4. /\ answer'[p].asked = n /\ answer'[p].got = content
          /\ answer'[p].met = request[q].met
      BY <3>3 DEF a
    <3> QED BY <3>2, <3>4
  <2> QED BY <1>1, <2>3, <2>4, <2>5, <2>6
          DEF Next, FindKeys, Del, Write, Stop, Query, Expire, Rest, vars
<1>2. ListsIInv /\ [Next]_vars => [\A p \in Requests : Right(p)]_vars
  BY <1>1
<1>3. [][\A p \in Requests : Right(p)]_vars => AnswersAreTheListAsked
  BY DEF AnswersAreTheListAsked
<1> QED BY <1>2, <1>3, ListsInductive, PTL DEF Spec
=============================================================================
