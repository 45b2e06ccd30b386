---------------------------- MODULE MoneyProofs ----------------------------
(***************************************************************************)
(* Proofs about the company's money, for every set of rows, reports,       *)
(* wallets, employees, orders and branches: what the actions of Ledger     *)
(* preserve, the employees' wallets over it (EmployeeWallets), and what    *)
(* the branches earn and owe (BranchProfits), with what the last needs of  *)
(* sums over finite sets.                                                  *)
(***************************************************************************)
EXTENDS EmployeeWallets, BranchProfits, FiniteSetTheorems, TLAPS

-----------------------------------------------------------------------------
(* Ledger *)

\* Only committed rows are linked, and only to reports that are in the table.
LinksExist ==
  \A t \in Txs : tx[t].report # NoReport => t \in Visible /\ tx[t].report \in Existing

LedgerInv ==
  /\ LedgerTypeOK
  /\ LinksExist
  /\ OneRowPerReport
  /\ CountedMoneyHasItsReport
  /\ LiveReportHasItsMoney
  /\ WalletMoneyNeverMain

\* The rows of a table in which row t was linked to report r.
LEMMA LinkedTable ==
  ASSUME NEW table \in [Txs -> Row], NEW t \in Txs, NEW r \in Reports \cup {NoReport}
  PROVE  /\ Link(table, t, r) \in [Txs -> Row]
         /\ \A u \in Txs :
              /\ Link(table, t, r)[u].state = table[u].state
              /\ Link(table, t, r)[u].wallet = table[u].wallet
              /\ Link(table, t, r)[u].employee = table[u].employee
              /\ Link(table, t, r)[u].approvedforMain = table[u].approvedforMain
              /\ Link(table, t, r)[u].report =
                   IF u = t THEN r
                   ELSE IF r # NoReport /\ table[u].report = r THEN NoReport ELSE table[u].report
              /\ table[u] = FreeRow /\ u # t => Link(table, t, r)[u] = FreeRow
<1>1. ASSUME NEW u \in Txs
      PROVE  [table[u] EXCEPT !.report = r] \in Row /\ [table[u] EXCEPT !.report = NoReport] \in Row
      BY DEF Row
<1>2. Link(table, t, r) \in [Txs -> Row]  BY <1>1 DEF Link
<1>3. ASSUME NEW u \in Txs
      PROVE  /\ Link(table, t, r)[u].state = table[u].state
             /\ Link(table, t, r)[u].wallet = table[u].wallet
             /\ Link(table, t, r)[u].employee = table[u].employee
             /\ Link(table, t, r)[u].approvedforMain = table[u].approvedforMain
             /\ Link(table, t, r)[u].report =
                  IF u = t THEN r
                  ELSE IF r # NoReport /\ table[u].report = r THEN NoReport ELSE table[u].report
      BY DEF Link, Row
<1>4. ASSUME NEW u \in Txs, table[u] = FreeRow, u # t
      PROVE  Link(table, t, r)[u] = FreeRow
  <2> FreeRow.report = NoReport  BY DEF FreeRow
  <2> QED  BY <1>4 DEF Link
<1> QED  BY <1>2, <1>3, <1>4

\* A new row, or one that is edited, is linked to a report of the table or to none.
LEMMA LinkingKeepsLedgerInv ==
  ASSUME NullsAssumption, LedgerInv,
         NEW table \in [Txs -> Row], NEW t \in Txs, NEW r \in Existing \cup {NoReport},
         \A u \in Txs \ {t} : table[u] = tx[u],
         table[t].state = IF tx[t].state = "free" THEN "live" ELSE tx[t].state,
         table[t].state \in {"live", "deleted"},
         table[t].wallet = tx[t].wallet,
         table[t].wallet # NoWallet => table[t].approvedforMain = tx[t].approvedforMain,
         tx' = Link(table, t, r), Remember(t, r), report' = report,
         posting' \subseteq posting, job' = job
  PROVE  LedgerInv'
<1> USE DEF LedgerInv
<1> r \in Reports \cup {NoReport}  BY DEF Existing
<1>1. tx' \in [Txs -> Row]  BY LinkedTable
<1>2. \A u \in Txs :
        /\ tx'[u].state = table[u].state
        /\ tx'[u].wallet = table[u].wallet
        /\ tx'[u].approvedforMain = table[u].approvedforMain
        /\ tx'[u].report = IF u = t THEN r
                           ELSE IF r # NoReport /\ table[u].report = r THEN NoReport
                                ELSE table[u].report
        /\ table[u] = FreeRow /\ u # t => tx'[u] = FreeRow
      BY LinkedTable
<1>3. LedgerTypeOK'  BY <1>1, <1>2 DEF LedgerTypeOK, Remember
<1>4. LinksExist'
      BY <1>2 DEF LinksExist, LedgerTypeOK, Visible, Existing
<1>5. OneRowPerReport'  BY <1>2 DEF OneRowPerReport
<1>6. CountedMoneyHasItsReport'
      BY <1>2 DEF CountedMoneyHasItsReport, Remember, NullsAssumption, Existing
<1>7. LiveReportHasItsMoney'
      BY <1>2 DEF LiveReportHasItsMoney, Remember, NullsAssumption, Existing
<1>8. WalletMoneyNeverMain'
      BY <1>2 DEF WalletMoneyNeverMain, forWallets
<1> QED  BY <1>3, <1>4, <1>5, <1>6, <1>7, <1>8

\* A row that is new: posted by a report or entered by hand.
LEMMA InsertKeepsLedgerInv ==
  ASSUME NullsAssumption, LedgerInv, NEW t \in Txs, NEW r \in Existing \cup {NoReport},
         NEW a \in BOOLEAN, Insert(t, r, a), report' = report,
         posting' \subseteq posting, job' = job
  PROVE  LedgerInv'
<1> DEFINE table == [tx EXCEPT ![t] = NewRow(r, a)]
<1>1. tx \in [Txs -> Row] /\ tx[t] = FreeRow  BY DEF LedgerInv, LedgerTypeOK, Insert
<1>2. r \in Reports \cup {NoReport}  BY DEF Existing
<1>3. NewRow(r, a) \in Row  BY <1>2 DEF NewRow, FreeRow, Row
<1>4. table \in [Txs -> Row] /\ table[t] = NewRow(r, a)  BY <1>1, <1>3
<1>5. /\ NewRow(r, a).state = "live"
      /\ NewRow(r, a).wallet = NoWallet
      BY DEF NewRow, FreeRow
<1>6. FreeRow.wallet = NoWallet /\ FreeRow.state = "free"  BY DEF FreeRow
<1>7. tx' = Link(table, t, r) /\ Remember(t, r)  BY DEF Insert
<1>8. \A u \in Txs \ {t} : table[u] = tx[u]  BY <1>1
<1> HIDE DEF table
<1> QED  BY <1>1, <1>2, <1>4, <1>5, <1>6, <1>7, <1>8, LinkingKeepsLedgerInv

\* A statement that leaves the links alone, and the rows in the state they have.
LEMMA EditKeepsLedgerInv ==
  ASSUME NullsAssumption, LedgerInv,
         tx' \in [Txs -> Row],
         \A u \in Txs : /\ tx'[u].state = tx[u].state
                        /\ tx'[u].report = tx[u].report
                        /\ tx'[u].wallet = tx[u].wallet
                        /\ tx[u] = FreeRow => tx'[u] = FreeRow
                        /\ forWallets(u) => tx'[u].approvedforMain = tx[u].approvedforMain,
         report' = report, posting' = posting, job' \in {"idle", "main"},
         late' = late, byHand' = byHand
  PROVE  LedgerInv'
<1> USE DEF LedgerInv
<1>1. LedgerTypeOK'  BY DEF LedgerTypeOK
<1>2. LinksExist'  BY DEF LinksExist, Visible, Existing
<1>3. OneRowPerReport'  BY DEF OneRowPerReport
<1>4. CountedMoneyHasItsReport'  BY DEF CountedMoneyHasItsReport
<1>5. LiveReportHasItsMoney'  BY DEF LiveReportHasItsMoney
<1>6. WalletMoneyNeverMain'  BY DEF WalletMoneyNeverMain, forWallets
<1> QED  BY <1>1, <1>2, <1>3, <1>4, <1>5, <1>6

\* Deactivation and restoration, of the report and of its rows.
LEMMA SetReportKeepsLedgerInv ==
  ASSUME NullsAssumption, LedgerInv, NEW r \in Reports, NEW state \in {"live", "deleted"},
         SetReport(r, state)
  PROVE  LedgerInv'
<1> USE DEF LedgerInv
<1>1. tx \in [Txs -> Row] /\ r \in Existing  BY DEF LedgerTypeOK, SetReport
<1>2. ASSUME NEW u \in Txs  PROVE [tx[u] EXCEPT !.state = state] \in Row  BY <1>1 DEF Row
<1>3. tx' \in [Txs -> Row]  BY <1>1, <1>2 DEF SetReport
<1>4. \A u \in Txs :
        /\ tx'[u].report = tx[u].report
        /\ tx'[u].wallet = tx[u].wallet
        /\ tx'[u].approvedforMain = tx[u].approvedforMain
        /\ tx'[u].state = IF tx[u].report = r THEN state ELSE tx[u].state
        /\ tx[u].report # r => tx'[u] = tx[u]
      BY <1>1 DEF SetReport, LinkedTo, Row
<1>5. \A u \in Txs : tx'[u].state = "free" => tx'[u] = FreeRow
      BY <1>4 DEF LedgerTypeOK
<1>6. LedgerTypeOK'  BY <1>3, <1>5 DEF LedgerTypeOK, SetReport
<1>7. report' = [report EXCEPT ![r] = state] /\ report \in [Reports -> {"free", "live", "deleted", "gone"}]
      BY DEF SetReport, LedgerTypeOK
<1>8. LinksExist'  BY <1>4, <1>7 DEF LinksExist, Visible, Existing
<1>9. OneRowPerReport'  BY <1>4 DEF OneRowPerReport
<1>10. CountedMoneyHasItsReport'
       BY <1>4, <1>7 DEF CountedMoneyHasItsReport, SetReport, LinkedTo, LinksExist, Existing
<1>11. LiveReportHasItsMoney'
       BY <1>4, <1>7 DEF LiveReportHasItsMoney, SetReport, LinkedTo, LinksExist, Existing
<1>12. WalletMoneyNeverMain'  BY <1>4 DEF WalletMoneyNeverMain, forWallets
<1> QED  BY <1>6, <1>8, <1>9, <1>10, <1>11, <1>12

\* The hard delete, which unlinks.
LEMMA DeleteReportKeepsLedgerInv ==
  ASSUME NullsAssumption, LedgerInv, NEW r \in Reports, DeleteReport(r)
  PROVE  LedgerInv'
<1> USE DEF LedgerInv
<1>1. tx \in [Txs -> Row]  BY DEF LedgerTypeOK
<1>2. ASSUME NEW u \in Txs  PROVE [tx[u] EXCEPT !.report = NoReport] \in Row  BY <1>1 DEF Row
<1>3. tx' \in [Txs -> Row]  BY <1>1, <1>2 DEF DeleteReport
<1>4. \A u \in Txs :
        /\ tx'[u].state = tx[u].state
        /\ tx'[u].wallet = tx[u].wallet
        /\ tx'[u].approvedforMain = tx[u].approvedforMain
        /\ tx'[u].report = IF tx[u].report = r THEN NoReport ELSE tx[u].report
        /\ tx[u].report # r => tx'[u] = tx[u]
      BY <1>1 DEF DeleteReport, LinkedTo, Row
<1>5. FreeRow.report = NoReport  BY DEF FreeRow
<1>6. \A u \in Txs : tx'[u].state = "free" => tx'[u] = FreeRow
      BY <1>4, <1>5 DEF LedgerTypeOK, NullsAssumption
<1>7. LedgerTypeOK'  BY <1>3, <1>6 DEF LedgerTypeOK, DeleteReport
<1>8. report' = [report EXCEPT ![r] = "gone"] /\ report \in [Reports -> {"free", "live", "deleted", "gone"}]
      BY DEF DeleteReport, LedgerTypeOK
<1>9. LinksExist'  BY <1>4, <1>8 DEF LinksExist, Visible, Existing
<1>10. OneRowPerReport'  BY <1>4 DEF OneRowPerReport
<1>11. \A u \in Txs : tx'[u].report # NoReport =>
         /\ tx'[u].report = tx[u].report
         /\ tx[u].report \in Reports
         /\ report'[tx'[u].report] = report[tx[u].report]
       BY <1>4, <1>8 DEF LinksExist, Existing
<1>12. late' = late /\ byHand' = byHand  BY DEF DeleteReport
<1>13. CountedMoneyHasItsReport'  BY <1>4, <1>11, <1>12 DEF CountedMoneyHasItsReport
<1>14. LiveReportHasItsMoney'  BY <1>4, <1>11, <1>12 DEF LiveReportHasItsMoney
<1>15. WalletMoneyNeverMain'  BY <1>4 DEF WalletMoneyNeverMain, forWallets
<1> QED  BY <1>7, <1>9, <1>10, <1>13, <1>14, <1>15
\* Every step of the ledger.
THEOREM LedgerStep ==
  ASSUME NullsAssumption, LedgerInv, NEW hired \in SUBSET Employees, LedgerNext(hired)
  PROVE  LedgerInv'
<1> USE DEF LedgerInv
<1> tx \in [Txs -> Row]  BY DEF LedgerTypeOK
<1>1. ASSUME NEW r \in Reports, CreateReport(r)  PROVE LedgerInv'
  <2>1. /\ report[r] = "free" /\ report' = [report EXCEPT ![r] = "live"]
        /\ tx' = tx /\ job' = job /\ late' = late /\ byHand' = byHand
        BY <1>1 DEF CreateReport
  <2>2. LedgerTypeOK'  BY <1>1, <2>1 DEF LedgerTypeOK, CreateReport
  <2>3. \A t \in Txs : tx[t].report # NoReport =>
          tx[t].report \in Reports /\ report'[tx[t].report] = report[tx[t].report]
        BY <2>1 DEF LinksExist, Existing, LedgerTypeOK
  <2>4. LinksExist'  BY <2>1, <2>3 DEF LinksExist, Existing, Visible
  <2>5. OneRowPerReport' /\ WalletMoneyNeverMain'
        BY <2>1 DEF OneRowPerReport, WalletMoneyNeverMain, forWallets
  <2>6. CountedMoneyHasItsReport'  BY <2>1, <2>3 DEF CountedMoneyHasItsReport
  <2>7. LiveReportHasItsMoney'  BY <2>1, <2>3 DEF LiveReportHasItsMoney
  <2> QED  BY <2>2, <2>4, <2>5, <2>6, <2>7
<1>2. ASSUME NEW r \in Reports, PostingFails(r)  PROVE LedgerInv'
  <2>1. /\ tx' = tx /\ report' = report /\ job' = job /\ late' = late /\ byHand' = byHand
        /\ posting' = posting \ {r}
        BY <1>2 DEF PostingFails
  <2>2. LedgerTypeOK'  BY <2>1 DEF LedgerTypeOK
  <2>3. LinksExist' /\ OneRowPerReport' /\ WalletMoneyNeverMain'
        BY <2>1 DEF LinksExist, Existing, Visible, OneRowPerReport, WalletMoneyNeverMain, forWallets
  <2>4. CountedMoneyHasItsReport' /\ LiveReportHasItsMoney'
        BY <2>1 DEF CountedMoneyHasItsReport, LiveReportHasItsMoney
  <2> QED  BY <2>2, <2>3, <2>4
<1>3. ASSUME NEW r \in Reports, DeactivateReport(r) \/ ReactivateReport(r)  PROVE LedgerInv'
      BY <1>3, SetReportKeepsLedgerInv DEF DeactivateReport, ReactivateReport
<1>4. ASSUME NEW r \in Reports, DeleteReport(r)  PROVE LedgerInv'
      BY <1>4, DeleteReportKeepsLedgerInv
<1>5. ASSUME NEW r \in Reports, NEW t \in Txs, PostTransaction(r, t)  PROVE LedgerInv'
  <2>1. /\ r \in Existing \cup {NoReport} /\ Insert(t, r, FALSE)
        /\ report' = report /\ job' = job /\ posting' \subseteq posting
        BY <1>5 DEF PostTransaction
  <2> QED  BY <2>1, InsertKeepsLedgerInv
<1>6. ASSUME NEW t \in Txs, NEW r \in Reports \cup {NoReport}, NEW a \in BOOLEAN,
             CreateTransaction(t, r, a)
      PROVE  LedgerInv'
  <2>1. /\ r \in Existing \cup {NoReport} /\ Insert(t, r, a)
        /\ report' = report /\ job' = job /\ posting' \subseteq posting
        BY <1>6 DEF CreateTransaction
  <2> QED  BY <2>1, InsertKeepsLedgerInv
<1>7. ASSUME NEW t \in Txs, NEW r \in Reports \cup {NoReport}, NEW a \in BOOLEAN,
             NEW e \in hired \cup {NoOne}, UpdateTransaction(t, r, e, a)
      PROVE  LedgerInv'
  <2> DEFINE edited == [tx EXCEPT ![t].approved = a,
                                  ![t].employee = IF e = NoOne THEN @ ELSE e]
  <2>1. /\ t \in Visible /\ r \in Existing \cup {NoReport}
        /\ tx' = IF r = NoReport THEN edited ELSE Link(edited, t, r)
        /\ Remember(t, r) /\ report' = report /\ job' = job /\ posting' = posting
        BY <1>7 DEF UpdateTransaction
  <2>2. edited \in [Txs -> Row]
    <3>1. tx[t].employee \in Employees \cup {NoOne} /\ e \in Employees \cup {NoOne}  BY DEF Row
    <3> DEFINE f == IF e = NoOne THEN tx[t].employee ELSE e
    <3>2. f \in Employees \cup {NoOne}  BY <3>1
    <3> HIDE DEF f
    <3>3. [[tx[t] EXCEPT !.approved = a] EXCEPT !.employee = f] \in Row  BY <3>2 DEF Row
    <3>4. edited = [tx EXCEPT ![t] = [[tx[t] EXCEPT !.approved = a] EXCEPT !.employee = f]]
          BY DEF f, Row
    <3> QED  BY <3>3, <3>4
  <2>3. /\ \A u \in Txs \ {t} : edited[u] = tx[u]
        /\ edited[t].state = tx[t].state /\ edited[t].report = tx[t].report
        /\ edited[t].wallet = tx[t].wallet
        /\ edited[t].approvedforMain = tx[t].approvedforMain
        BY DEF Row
  <2>4. tx[t].state \in {"live", "deleted"}  BY <2>1 DEF Visible
  <2> HIDE DEF edited
  <2>5. CASE r = NoReport
    <3>1. tx' = edited /\ late' = late /\ byHand' = byHand  BY <2>1, <2>5 DEF Remember
    <3>2. \A u \in Txs : /\ tx'[u].state = tx[u].state /\ tx'[u].report = tx[u].report
                         /\ tx'[u].wallet = tx[u].wallet
                         /\ tx'[u].approvedforMain = tx[u].approvedforMain
          BY <2>3, <3>1
    <3>3. FreeRow.state = "free"  BY DEF FreeRow
    <3>4. \A u \in Txs : tx[u] = FreeRow => tx'[u] = FreeRow  BY <2>3, <2>4, <3>1, <3>3
    <3>5. job' \in {"idle", "main"}  BY <2>1 DEF LedgerTypeOK
    <3> QED  BY <2>1, <2>2, <3>1, <3>2, <3>4, <3>5, EditKeepsLedgerInv
  <2>6. CASE r # NoReport
    <3>1. tx' = Link(edited, t, r)  BY <2>1, <2>6
    <3> QED  BY <2>1, <2>2, <2>3, <2>4, <3>1, LinkingKeepsLedgerInv
  <2> QED  BY <2>5, <2>6
<1>8. ASSUME NEW t \in Txs, DeleteTransaction(t)  PROVE LedgerInv'
  <2>1. /\ t \in Visible /\ tx' = [tx EXCEPT ![t].state = "deleted"]
        /\ byHand' = byHand \cup {t}
        /\ report' = report /\ job' = job /\ posting' = posting /\ late' = late
        BY <1>8 DEF DeleteTransaction
  <2>2. tx' \in [Txs -> Row]
    <3>1. [tx[t] EXCEPT !.state = "deleted"] \in Row  BY DEF Row
    <3> QED  BY <2>1, <3>1
  <2>3. \A u \in Txs : /\ tx'[u].report = tx[u].report /\ tx'[u].wallet = tx[u].wallet
                       /\ tx'[u].approvedforMain = tx[u].approvedforMain
                       /\ tx'[u].state = IF u = t THEN "deleted" ELSE tx[u].state
                       /\ u # t => tx'[u] = tx[u]
        BY <2>1 DEF Row
  <2>4. LedgerTypeOK'  BY <2>1, <2>2, <2>3 DEF LedgerTypeOK
  <2>5. LinksExist'  BY <2>1, <2>3 DEF LinksExist, Visible, Existing
  <2>6. OneRowPerReport'  BY <2>3 DEF OneRowPerReport
  <2>7. WalletMoneyNeverMain'  BY <2>3 DEF WalletMoneyNeverMain, forWallets
  <2>8. CountedMoneyHasItsReport'  BY <2>1, <2>3 DEF CountedMoneyHasItsReport
  <2>9. LiveReportHasItsMoney'  BY <2>1, <2>3 DEF LiveReportHasItsMoney
  <2> QED  BY <2>4, <2>5, <2>6, <2>7, <2>8, <2>9
<1>9. ASSUME NEW S, \A t \in S : tx[t].state # "free", Approve(S),
             report' = report, posting' = posting, job' \in {"idle", "main"},
             late' = late, byHand' = byHand
      PROVE  LedgerInv'
  <2>1. ASSUME NEW u \in Txs
        PROVE  [tx[u] EXCEPT !.approved = TRUE] \in Row
        BY DEF Row
  <2>2. tx' \in [Txs -> Row]  BY <1>9, <2>1 DEF Approve
  <2>3. \A u \in Txs : /\ tx'[u].state = tx[u].state /\ tx'[u].report = tx[u].report
                       /\ tx'[u].wallet = tx[u].wallet
                       /\ tx'[u].approvedforMain = tx[u].approvedforMain
                       /\ u \notin S => tx'[u] = tx[u]
        BY <1>9 DEF Approve, Row
  <2>4. FreeRow.state = "free"  BY DEF FreeRow
  <2>5. \A u \in Txs : tx[u] = FreeRow => tx'[u] = FreeRow  BY <1>9, <2>3, <2>4
  <2> QED  BY <1>9, <2>2, <2>3, <2>5, EditKeepsLedgerInv
<1>10. ASSUME ApproveForMain(UnapprovedForMain),
              report' = report, posting' = posting, job' \in {"idle", "main"},
              late' = late, byHand' = byHand
       PROVE  LedgerInv'
  <2>1. ASSUME NEW u \in Txs
        PROVE  [tx[u] EXCEPT !.approvedforMain = TRUE] \in Row
        BY DEF Row
  <2>2. tx' \in [Txs -> Row]  BY <1>10, <2>1 DEF ApproveForMain
  <2>3. \A u \in Txs : /\ tx'[u].state = tx[u].state /\ tx'[u].report = tx[u].report
                       /\ tx'[u].wallet = tx[u].wallet
                       /\ u \notin UnapprovedForMain => tx'[u] = tx[u]
        BY <1>10 DEF ApproveForMain, Row
  <2>4. FreeRow.state = "free"  BY DEF FreeRow
  <2>5. \A u \in Txs : /\ tx[u] = FreeRow => tx'[u] = FreeRow
                       /\ forWallets(u) => tx'[u].approvedforMain = tx[u].approvedforMain
        BY <2>3, <2>4 DEF UnapprovedForMain
  <2> QED  BY <1>10, <2>2, <2>3, <2>5, EditKeepsLedgerInv
<1>11. ASSUME NEW t \in Txs, ApproveTransaction(t)  PROVE LedgerInv'
  <2>1. \A u \in {t} : tx[u].state # "free"  BY <1>11 DEF ApproveTransaction, Visible
  <2> QED  BY <1>9, <1>11, <2>1 DEF ApproveTransaction, LedgerTypeOK
<1>12. \A t \in Unapproved : tx[t].state # "free"  BY DEF Unapproved
<1>13. ASSUME ApproveAllBranchTransactions  PROVE LedgerInv'
  <2>1. /\ report' = report /\ posting' = posting /\ job' \in {"idle", "main"}
        /\ late' = late /\ byHand' = byHand
        BY <1>13 DEF ApproveAllBranchTransactions, LedgerTypeOK
  <2>2. CASE ApproveForMain(UnapprovedForMain)  BY <1>10, <2>1, <2>2
  <2>3. ASSUME NEW S \in SUBSET Unapproved, Approve(S)  PROVE LedgerInv'
        BY <1>9, <1>12, <2>1, <2>3
  <2> QED  BY <1>13, <2>2, <2>3 DEF ApproveAllBranchTransactions
<1>14. ASSUME JobApproves  PROVE LedgerInv'  BY <1>9, <1>12, <1>14 DEF JobApproves
<1>15. ASSUME JobApprovesForMain  PROVE LedgerInv'  BY <1>10, <1>15 DEF JobApprovesForMain
<1>16. ASSUME JobFails  PROVE LedgerInv'
       BY <1>16, EditKeepsLedgerInv DEF JobFails
<1> QED
  BY <1>1, <1>2, <1>3, <1>4, <1>5, <1>6, <1>7, <1>8, <1>11, <1>13, <1>14, <1>15, <1>16
  DEF LedgerNext

\* The ledger never touches a row that has not committed, nor moves one between
\* wallets.
LEMMA LedgerKeepsWallets ==
  ASSUME NullsAssumption, LedgerInv, NEW hired, LedgerNext(hired)
  PROVE  \A t \in Txs : /\ tx'[t].wallet = tx[t].wallet
                        /\ tx[t].state = "pending" => tx'[t] = tx[t]
<1> tx \in [Txs -> Row]  BY DEF LedgerInv, LedgerTypeOK
<1> DEFINE RowsKept == \A t \in Txs : /\ tx'[t].wallet = tx[t].wallet
                                      /\ tx[t].state = "pending" => tx'[t] = tx[t]
<1>1. ASSUME NEW t \in Txs, tx[t].state = "pending"  PROVE tx[t].report = NoReport
      BY <1>1 DEF LedgerInv, LinksExist, Visible
<1>2. ASSUME NEW table \in [Txs -> Row], NEW t \in Txs, NEW r \in Existing \cup {NoReport},
             \A u \in Txs \ {t} : table[u] = tx[u], table[t].wallet = tx[t].wallet,
             tx[t].state # "pending", tx' = Link(table, t, r)
      PROVE  RowsKept
  <2>1. r \in Reports \cup {NoReport}  BY DEF Existing
  <2>2. \A u \in Txs : tx'[u].wallet = table[u].wallet  BY <1>2, <2>1, LinkedTable
  <2>3. \A u \in Txs : u # t /\ table[u].report = NoReport => tx'[u] = table[u]
        BY <1>2 DEF Link
  <2> QED  BY <1>1, <1>2, <2>2, <2>3
<1>3. ASSUME NEW r \in Existing \cup {NoReport}, NEW t \in Txs, NEW a \in BOOLEAN, Insert(t, r, a)
      PROVE  RowsKept
  <2> DEFINE table == [tx EXCEPT ![t] = NewRow(r, a)]
  <2>1. tx[t] = FreeRow /\ tx[t].state = "free"  BY <1>3 DEF Insert, LedgerInv, LedgerTypeOK
  <2>2. NewRow(r, a) \in Row  BY DEF NewRow, FreeRow, Row, Existing
  <2>3. NewRow(r, a).wallet = FreeRow.wallet  BY DEF NewRow, FreeRow
  <2>4. /\ table \in [Txs -> Row] /\ table[t].wallet = tx[t].wallet
        /\ \A u \in Txs \ {t} : table[u] = tx[u]
        BY <2>1, <2>2, <2>3
  <2>5. tx' = Link(table, t, r)  BY <1>3 DEF Insert
  <2> HIDE DEF table
  <2> QED  BY <1>2, <2>1, <2>4, <2>5
<1>4. ASSUME NEW r \in Reports, SetReport(r, "live") \/ SetReport(r, "deleted") \/ DeleteReport(r)
      PROVE  RowsKept
  <2>1. \A t \in Txs : tx[t].report # r => tx'[t] = tx[t]
        BY <1>4 DEF SetReport, DeleteReport, LinkedTo
  <2>2. \A t \in Txs : tx'[t].wallet = tx[t].wallet
        BY <1>4 DEF SetReport, DeleteReport, LinkedTo, Row
  <2> QED  BY <1>1, <2>1, <2>2 DEF NullsAssumption
<1>5. ASSUME NEW t \in Txs, NEW r \in Reports \cup {NoReport}, NEW a \in BOOLEAN,
             NEW e, UpdateTransaction(t, r, e, a)
      PROVE  RowsKept
  <2> DEFINE edited == [tx EXCEPT ![t].approved = a,
                                  ![t].employee = IF e = NoOne THEN @ ELSE e]
  <2>1. \A u \in Txs \ {t} : edited[u] = tx[u]  OBVIOUS
  <2>2. edited[t].wallet = tx[t].wallet  BY DEF Row
  <2>3. tx[t].state # "pending"  BY <1>5 DEF UpdateTransaction, Visible
  <2>4. tx' = IF r = NoReport THEN edited ELSE Link(edited, t, r)
        BY <1>5 DEF UpdateTransaction
  <2>5. \A u \in Txs \ {t} : r # NoReport /\ edited[u].report # r => Link(edited, t, r)[u] = edited[u]
        BY DEF Link
  <2>6. \A u \in Txs : Link(edited, t, r)[u].wallet = edited[u].wallet
    <3>1. \A u \in Txs \ {t} : [edited[u] EXCEPT !.report = NoReport].wallet = edited[u].wallet
          BY <2>1 DEF Row
    <3>2. [edited[t] EXCEPT !.report = r].wallet = edited[t].wallet  BY DEF Row
    <3> HIDE DEF edited
    <3> QED  BY <3>1, <3>2 DEF Link
  <2> HIDE DEF edited
  <2> QED  BY <1>1, <2>1, <2>2, <2>3, <2>4, <2>5, <2>6
<1>6. ASSUME NEW S, \A t \in S : tx[t].state # "pending", Approve(S) \/ ApproveForMain(S)
      PROVE  RowsKept
      BY <1>6 DEF Approve, ApproveForMain, Row
<1>7. /\ \A t \in Unapproved : tx[t].state # "pending"
      /\ \A t \in UnapprovedForMain : tx[t].state # "pending"
      BY DEF Unapproved, UnapprovedForMain
<1>8. ASSUME NEW t \in Txs, DeleteTransaction(t)  PROVE RowsKept
      BY <1>8 DEF DeleteTransaction, Visible, Row
<1>9. ASSUME NEW t \in Txs, ApproveTransaction(t)  PROVE RowsKept
  <2>1. \A u \in {t} : tx[u].state # "pending"  BY <1>9 DEF ApproveTransaction, Visible
  <2> QED  BY <1>6, <1>9, <2>1 DEF ApproveTransaction
<1>10. ASSUME ApproveAllBranchTransactions \/ JobApproves \/ JobApprovesForMain  PROVE RowsKept
       BY <1>6, <1>7, <1>10 DEF ApproveAllBranchTransactions, JobApproves, JobApprovesForMain
<1>11. ASSUME NEW r \in Reports, CreateReport(r) \/ PostingFails(r) \/ JobFails  PROVE RowsKept
       BY <1>11 DEF CreateReport, PostingFails, JobFails
<1>12. ASSUME JobFails  PROVE RowsKept  BY <1>12 DEF JobFails
<1>13. ASSUME NEW r \in Reports, NEW t \in Txs, PostTransaction(r, t)  PROVE RowsKept
       BY <1>3, <1>13 DEF PostTransaction
<1>14. ASSUME NEW t \in Txs, NEW r \in Reports \cup {NoReport}, NEW a \in BOOLEAN,
              CreateTransaction(t, r, a)
       PROVE  RowsKept
       BY <1>3, <1>14 DEF CreateTransaction
<1> HIDE DEF RowsKept
<1>15. RowsKept
  BY <1>4, <1>5, <1>8, <1>9, <1>10, <1>11, <1>12, <1>13, <1>14
  DEF LedgerNext, DeactivateReport, ReactivateReport
<1> QED  BY <1>15 DEF RowsKept

\* The empty table.
THEOREM LedgerStart == NullsAssumption /\ LedgerInit => LedgerInv
<1> SUFFICES ASSUME NullsAssumption, LedgerInit PROVE LedgerInv  OBVIOUS
<1>1. FreeRow \in Row  BY DEF FreeRow, Row
<1>2. /\ FreeRow.state = "free" /\ FreeRow.report = NoReport
      /\ FreeRow.wallet = NoWallet
      BY DEF FreeRow
<1>3. LedgerTypeOK  BY <1>1 DEF LedgerTypeOK, LedgerInit
<1>4. \A t \in Txs : tx[t] = FreeRow  BY DEF LedgerInit
<1>5. LinksExist /\ OneRowPerReport  BY <1>2, <1>4 DEF LinksExist, OneRowPerReport
<1>6. CountedMoneyHasItsReport /\ LiveReportHasItsMoney /\ WalletMoneyNeverMain
      BY <1>2, <1>4 DEF CountedMoneyHasItsReport, LiveReportHasItsMoney, WalletMoneyNeverMain, forWallets
<1> QED  BY <1>3, <1>5, <1>6 DEF LedgerInv

-----------------------------------------------------------------------------
(* EmployeeWallets *)

\* A row that has not committed is in the hands of one posting, on its wallet.
RowsHeld ==
  \A p \in Requests : \A t \in req[p].row :
    /\ req[p].step = "commit"
    /\ tx[t].state = "pending"
    /\ tx[t].wallet = req[p].wallet

RowsApart ==
  \A p, q \in Requests : p # q => req[p].row \cap req[q].row = {}

\* A request is about a wallet that was in the table.
RequestsKnow ==
  \A p \in Requests : req[p].step # "idle" =>
    req[p].wallet \in Wallets /\ wallet[req[p].wallet].state # "free"

\* An assignment that is not out of date read the employee the wallet has, or one
\* that was deleted since.
FreshReads ==
  \A p \in Requests \ stale : req[p].step = "update" =>
    \/ wallet[req[p].wallet].employee = req[p].read
    \/ /\ wallet[req[p].wallet].employee = NoOne
       /\ req[p].read \in Employees \ Hired

WalletInv ==
  /\ TypeOK
  /\ LedgerInv
  /\ RowsHeld
  /\ RowsApart
  /\ RequestsKnow
  /\ FreshReads
  /\ WalletHistoryKept

LEMMA FreeRowFacts ==
  ASSUME NullsAssumption
  PROVE  /\ FreeRow \in Row /\ FreeRow.state = "free" /\ FreeRow.report = NoReport
         /\ FreeRow.wallet = NoWallet /\ FreeRow.employee = NoOne
         /\ FreeRow.approvedforMain = FALSE
BY DEF FreeRow, Row

LEMMA IdleFacts ==
  /\ Idle \in Request
  /\ Idle.step = "idle" /\ Idle.row = {} /\ Idle.wallet = NoWallet
BY DEF Idle, Request, Owners

\* The rows are as they were: only wallets, staff and requests move.
LEMMA LedgerUntouched ==
  ASSUME LedgerInv, UNCHANGED ledgerVars
  PROVE  LedgerInv'
BY DEF ledgerVars, LedgerInv, LedgerTypeOK, LinksExist, Visible, Existing, OneRowPerReport,
       CountedMoneyHasItsReport, LiveReportHasItsMoney, WalletMoneyNeverMain, forWallets

\* A step of the ledger leaves the wallets and their requests alone.
LEMMA LedgerKeepsWalletInv ==
  ASSUME NullsAssumption, WalletInv, LedgerNext(Hired), UNCHANGED walletVars
  PROVE  WalletInv'
<1> USE DEF WalletInv
<1>0. wallet' = wallet /\ staff' = staff /\ req' = req /\ stale' = stale  BY DEF walletVars
<1>1. LedgerInv'
  <2>1. Hired \in SUBSET Employees  BY DEF Hired
  <2> QED  BY <2>1, LedgerStep
<1>2. TypeOK'  BY <1>0, <1>1 DEF TypeOK, LedgerInv
<1>3. \A t \in Txs : /\ tx'[t].wallet = tx[t].wallet
                     /\ tx[t].state = "pending" => tx'[t] = tx[t]
      BY LedgerKeepsWallets
<1>4. RowsHeld'
  <2>1. \A p \in Requests : req[p].row \subseteq Txs  BY DEF TypeOK, Request
  <2> QED  BY <1>0, <1>3, <2>1 DEF RowsHeld
<1>5. RowsApart' /\ RequestsKnow' /\ FreshReads'
      BY <1>0 DEF RowsApart, RequestsKnow, FreshReads, Hired
<1>6. WalletHistoryKept'
  <2>1. \A t \in Txs : tx[t].wallet # NoWallet => tx[t].state # "free"
        BY FreeRowFacts DEF TypeOK, LedgerTypeOK
  <2> QED  BY <1>0, <1>3, <2>1 DEF WalletHistoryKept, forWallets
<1> QED  BY <1>1, <1>2, <1>4, <1>5, <1>6

\* A request that begins has read a wallet of the table.
LEMMA BeginKeepsWalletInv ==
  ASSUME NullsAssumption, WalletInv, NEW p \in Requests, req[p].step = "idle",
         NEW w \in Wallets, wallet[w].state = "live", NEW q \in Request,
         q.step \in {"insert", "update", "delete"}, q.wallet = w, q.row = {},
         q.step = "update" => q.read = wallet[w].employee,
         req' = [req EXCEPT ![p] = q],
         UNCHANGED <<tx, report, posting, job, late, byHand, wallet, staff, stale>>
  PROVE  WalletInv'
<1> USE DEF WalletInv
<1>1. req \in [Requests -> Request]  BY DEF TypeOK
<1>2. /\ req' \in [Requests -> Request] /\ req'[p] = q
      /\ \A o \in Requests \ {p} : req'[o] = req[o]
      BY <1>1
<1>3. LedgerInv'  BY LedgerUntouched DEF ledgerVars
<1>4. TypeOK'  BY <1>2, <1>3 DEF TypeOK, LedgerInv
<1>5. RowsHeld' /\ RowsApart'  BY <1>2 DEF RowsHeld, RowsApart
<1>6. RequestsKnow'  BY <1>2 DEF RequestsKnow
<1>7. FreshReads'  BY <1>2 DEF FreshReads, Hired
<1>8. WalletHistoryKept'  BY DEF WalletHistoryKept, forWallets
<1> QED  BY <1>3, <1>4, <1>5, <1>6, <1>7, <1>8

\* The row of a posting that begins to exist.
LEMMA InsertOwnKeepsWalletInv ==
  ASSUME NullsAssumption, WalletInv, NEW p \in Requests, NEW t \in Txs, InsertOwnTransaction(p, t)
  PROVE  WalletInv'
<1> USE DEF WalletInv
<1> DEFINE w == req[p].wallet
           new == [FreeRow EXCEPT !.state = "pending", !.wallet = w, !.employee = req[p].who]
<1>1. /\ req[p].step = "insert" /\ wallet[w].state = "live"
      /\ tx[t].state = "free" /\ tx' = [tx EXCEPT ![t] = new]
      /\ req' = [req EXCEPT ![p].step = "commit", ![p].row = {t}]
      /\ UNCHANGED <<report, posting, job, late, byHand, wallet, staff, stale>>
      BY DEF InsertOwnTransaction
<1>2. w \in Wallets /\ req[p].who \in Employees \cup {NoOne}
      BY <1>1 DEF RequestsKnow, TypeOK, Request, Owners
<1>3. new \in Row  BY <1>2 DEF FreeRow, Row
<1>4. /\ new.state = "pending" /\ new.report = NoReport /\ new.wallet = w
      /\ new.approvedforMain = FALSE
      BY DEF FreeRow
<1>5. tx \in [Txs -> Row] /\ req \in [Requests -> Request]  BY DEF TypeOK, LedgerTypeOK
<1> HIDE DEF new
<1>6. /\ tx' \in [Txs -> Row] /\ tx'[t] = new
      /\ \A u \in Txs \ {t} : tx'[u] = tx[u]
      BY <1>1, <1>3, <1>5
<1>7. tx[t] = FreeRow  BY <1>1 DEF TypeOK, LedgerTypeOK
<1>8. LedgerInv'
  <2>1. LedgerTypeOK'  BY <1>1, <1>4, <1>6 DEF LedgerInv, LedgerTypeOK
  <2>2. LinksExist'  BY <1>1, <1>4, <1>6 DEF LedgerInv, LinksExist, Visible, Existing
  <2>3. OneRowPerReport'  BY <1>4, <1>6 DEF LedgerInv, OneRowPerReport
  <2>4. CountedMoneyHasItsReport' /\ LiveReportHasItsMoney'
        BY <1>1, <1>4, <1>6 DEF LedgerInv, CountedMoneyHasItsReport, LiveReportHasItsMoney
  <2>5. WalletMoneyNeverMain'  BY <1>4, <1>6 DEF LedgerInv, WalletMoneyNeverMain, forWallets
  <2> QED  BY <2>1, <2>2, <2>3, <2>4, <2>5 DEF LedgerInv
<1>9. /\ req'[p].step = "commit" /\ req'[p].row = {t} /\ req'[p].wallet = w
      /\ \A q \in Requests \ {p} : req'[q] = req[q]
      /\ req' \in [Requests -> Request]
  <2>1. req' = [req EXCEPT ![p] = [[req[p] EXCEPT !.step = "commit"] EXCEPT !.row = {t}]]
        BY <1>1, <1>5 DEF Request
  <2>2. [[req[p] EXCEPT !.step = "commit"] EXCEPT !.row = {t}] \in Request
        BY <1>5 DEF Request
  <2>3. /\ [[req[p] EXCEPT !.step = "commit"] EXCEPT !.row = {t}].step = "commit"
        /\ [[req[p] EXCEPT !.step = "commit"] EXCEPT !.row = {t}].row = {t}
        /\ [[req[p] EXCEPT !.step = "commit"] EXCEPT !.row = {t}].wallet = w
        BY <1>5 DEF Request
  <2> QED  BY <1>5, <2>1, <2>2, <2>3
<1>10. TypeOK'  BY <1>1, <1>8, <1>9 DEF TypeOK, LedgerInv
<1>11. \A q \in Requests : t \notin req[q].row  BY <1>1 DEF RowsHeld
<1>12. RowsHeld'
  <2>1. \A q \in Requests : req[q].row \subseteq Txs  BY <1>5 DEF Request
  <2> QED  BY <1>4, <1>6, <1>9, <1>11, <2>1 DEF RowsHeld
<1>13. RowsApart'  BY <1>9, <1>11 DEF RowsApart
<1>14. RequestsKnow'  BY <1>1, <1>2, <1>9 DEF RequestsKnow
<1>15. FreshReads'  BY <1>1, <1>9 DEF FreshReads, Hired
<1>16. WalletHistoryKept'  BY <1>1, <1>4, <1>6 DEF WalletHistoryKept, forWallets
<1> QED  BY <1>8, <1>10, <1>12, <1>13, <1>14, <1>15, <1>16

\* A request that ends: its rows become live, or free again.
LEMMA EndKeepsWalletInv ==
  ASSUME NullsAssumption, WalletInv, NEW p \in Requests,
         \/ tx' = [t \in Txs |-> IF t \in req[p].row THEN [tx[t] EXCEPT !.state = "live"] ELSE tx[t]]
         \/ tx' = [t \in Txs |-> IF t \in req[p].row THEN FreeRow ELSE tx[t]],
         Done(p),
         UNCHANGED <<report, posting, job, late, byHand, wallet, staff>>
  PROVE  WalletInv'
<1> USE DEF WalletInv
<1>0. tx \in [Txs -> Row]  BY DEF TypeOK, LedgerTypeOK
<1>1. /\ req \in [Requests -> Request]
      /\ \A q \in Requests : req[q].row \subseteq Txs
      BY DEF TypeOK, LedgerTypeOK, Request
<1>2. \A t \in req[p].row : /\ tx[t].state = "pending" /\ tx[t].report = NoReport
      BY <1>1 DEF RowsHeld, LedgerInv, LinksExist, Visible
<1>3. ASSUME NEW t \in Txs  PROVE [tx[t] EXCEPT !.state = "live"] \in Row  BY <1>0 DEF Row
<1>4. tx' \in [Txs -> Row]  BY <1>0, <1>3, FreeRowFacts
<1>5. \A t \in Txs :
        /\ t \notin req[p].row => tx'[t] = tx[t]
        /\ t \in req[p].row => /\ tx'[t].report = NoReport
                               /\ tx'[t].state \in {"live", "free"}
                               /\ tx'[t].state = "free" => tx'[t] = FreeRow
                               /\ tx'[t].wallet \in {tx[t].wallet, NoWallet}
                               /\ tx'[t].approvedforMain \in {tx[t].approvedforMain, FALSE}
  <2>1. CASE tx' = [t \in Txs |-> IF t \in req[p].row THEN FreeRow ELSE tx[t]]
        BY <2>1, FreeRowFacts
  <2>2. CASE tx' = [t \in Txs |-> IF t \in req[p].row THEN [tx[t] EXCEPT !.state = "live"] ELSE tx[t]]
        BY <1>0, <1>1, <1>2, <2>2 DEF Row
  <2> QED  BY <2>1, <2>2
<1>6. LedgerInv'
  <2>1. LedgerTypeOK'  BY <1>4, <1>5 DEF LedgerInv, LedgerTypeOK
  <2>2. LinksExist'  BY <1>5 DEF LedgerInv, LinksExist, Visible, Existing
  <2>3. OneRowPerReport'  BY <1>5 DEF LedgerInv, OneRowPerReport
  <2>4. \A t \in Txs : tx'[t].report # NoReport => tx'[t] = tx[t]  BY <1>5
  <2>5. CountedMoneyHasItsReport' /\ LiveReportHasItsMoney'
        BY <2>4 DEF LedgerInv, CountedMoneyHasItsReport, LiveReportHasItsMoney
  <2>6. \A t \in Txs : tx[t].approvedforMain = FALSE => tx'[t].approvedforMain = FALSE
        BY <1>5
  <2>7. \A t \in Txs : tx[t].wallet = NoWallet => tx'[t].wallet = NoWallet  BY <1>5
  <2>8. \A t \in Txs : tx[t].approvedforMain \in BOOLEAN  BY <1>0 DEF Row
  <2>9. WalletMoneyNeverMain'
        BY <2>6, <2>7, <2>8, <1>4 DEF LedgerInv, WalletMoneyNeverMain, forWallets
  <2> QED  BY <2>1, <2>2, <2>3, <2>5, <2>9 DEF LedgerInv
<1>7. /\ req'[p] = Idle /\ req' \in [Requests -> Request] /\ stale' = stale \ {p}
      /\ \A q \in Requests \ {p} : req'[q] = req[q]
      BY <1>1, IdleFacts DEF Done
<1>8. TypeOK'  BY <1>6, <1>7 DEF TypeOK, LedgerInv
<1>9. RowsHeld' /\ RowsApart'
  <2>1. \A q \in Requests \ {p} : req[q].row \cap req[p].row = {}  BY DEF RowsApart
  <2> QED  BY <1>1, <1>5, <1>7, <2>1, IdleFacts DEF RowsHeld, RowsApart
<1>10. RequestsKnow'  BY <1>7, IdleFacts DEF RequestsKnow
<1>11. FreshReads'  BY <1>7, IdleFacts DEF FreshReads, Hired
<1>12. WalletHistoryKept'
  <2>1. \A t \in Txs : tx'[t].state # "free" => tx[t].state # "free"
        BY <1>2, <1>5
  <2>2. \A t \in Txs : tx'[t].wallet # NoWallet => tx'[t].wallet = tx[t].wallet  BY <1>5
  <2> QED  BY <2>1, <2>2 DEF WalletHistoryKept, forWallets
<1> QED  BY <1>6, <1>8, <1>9, <1>10, <1>11, <1>12

\* The one statement of a manager: an assignment, or the end of a wallet without
\* rows.
LEMMA WriteKeepsWalletInv ==
  ASSUME NullsAssumption, WalletInv, NEW p \in Requests, NEW row \in Wallet,
         req[p].step # "idle", req[p].row = {},
         \/ row.state = "live"
         \/ row.state = "gone" /\ \A t \in Txs : tx[t].state # "free" => tx[t].wallet # req[p].wallet,
         Write(p, req[p].wallet, row), req' = [req EXCEPT ![p] = Idle],
         UNCHANGED <<tx, report, posting, job, late, byHand, staff>>
  PROVE  WalletInv'
<1> USE DEF WalletInv
<1> DEFINE w == req[p].wallet
<1>1. /\ req \in [Requests -> Request] /\ wallet \in [Wallets -> Wallet] /\ w \in Wallets
      BY DEF TypeOK, RequestsKnow
<1>2. /\ req'[p] = Idle /\ req' \in [Requests -> Request]
      /\ \A q \in Requests \ {p} : req'[q] = req[q]
      BY <1>1, IdleFacts
<1>3. /\ wallet' \in [Wallets -> Wallet] /\ wallet'[w] = row
      /\ \A v \in Wallets \ {w} : wallet'[v] = wallet[v]
      /\ stale' = (stale \cup {q \in Requests : req[q].wallet = w}) \ {p}
      BY <1>1 DEF Write
<1>4. LedgerInv'  BY LedgerUntouched DEF ledgerVars
<1>5. TypeOK'  BY <1>2, <1>3, <1>4 DEF TypeOK, LedgerInv
<1>6. RowsHeld' /\ RowsApart'  BY <1>2, IdleFacts DEF RowsHeld, RowsApart
<1>7. RequestsKnow'  BY <1>2, <1>3, IdleFacts DEF RequestsKnow
<1>8. FreshReads'
  <2>1. \A q \in Requests \ stale' : q # p => q \notin stale /\ req[q].wallet # w  BY <1>3
  <2>2. \A q \in Requests \ {p} : req[q].step = "update" => req[q].wallet \in Wallets
        BY DEF RequestsKnow
  <2> QED  BY <1>2, <1>3, <2>1, <2>2, IdleFacts DEF FreshReads, Hired
<1>9. WalletHistoryKept'
  <2>1. \A t \in Txs : tx[t].state # "free" /\ forWallets(t) => tx[t].wallet \in Wallets
        BY DEF TypeOK, LedgerTypeOK, Row, forWallets
  <2> QED  BY <1>3, <2>1 DEF WalletHistoryKept, forWallets
<1> QED  BY <1>4, <1>5, <1>6, <1>7, <1>8, <1>9

\* Employees come and go; the database clears what named them.
LEMMA StaffKeepsWalletInv ==
  ASSUME NullsAssumption, WalletInv, NEW e \in Employees,
         \/ SetStaff(e, "active", "deleted")
         \/ SetStaff(e, "deleted", "active")
         \/ DeleteEmployee(e)
  PROVE  WalletInv'
<1> USE DEF WalletInv
<1>1. /\ wallet \in [Wallets -> Wallet]
      /\ staff \in [Employees -> {"active", "deleted", "gone"}]
      /\ req' = req /\ stale' = stale
      BY DEF TypeOK, SetStaff, DeleteEmployee
<1>2. ASSUME NEW to \in {"active", "deleted"}, NEW from \in {"active", "deleted"},
             SetStaff(e, from, to)
      PROVE  WalletInv'
  <2>1. LedgerInv'  BY <1>2, LedgerUntouched DEF SetStaff, ledgerVars
  <2>2. Hired' = Hired  BY <1>1, <1>2 DEF SetStaff, Hired
  <2>3. TypeOK'  BY <1>2, <2>1 DEF TypeOK, LedgerInv, SetStaff
  <2>4. RowsHeld' /\ RowsApart' /\ RequestsKnow' /\ WalletHistoryKept'
        BY <1>2 DEF RowsHeld, RowsApart, RequestsKnow, WalletHistoryKept, forWallets, SetStaff
  <2>5. FreshReads'  BY <1>2, <2>2 DEF FreshReads, SetStaff
  <2> QED  BY <2>1, <2>3, <2>4, <2>5
<1>3. ASSUME DeleteEmployee(e)  PROVE WalletInv'
  <2>1. tx \in [Txs -> Row]  BY DEF TypeOK, LedgerTypeOK
  <2>2. ASSUME NEW t \in Txs  PROVE [tx[t] EXCEPT !.employee = NoOne] \in Row
        BY <2>1 DEF Row
  <2>3. tx' \in [Txs -> Row]  BY <1>3, <2>1, <2>2 DEF DeleteEmployee
  <2>4. \A t \in Txs : /\ tx'[t].state = tx[t].state /\ tx'[t].report = tx[t].report
                       /\ tx'[t].wallet = tx[t].wallet
                       /\ tx'[t].approvedforMain = tx[t].approvedforMain
        BY <1>3, <2>1 DEF DeleteEmployee, Row
  <2>5. \A t \in Txs : tx[t].state = "pending" \/ tx[t] = FreeRow => tx'[t] = tx[t]
        BY <1>3, FreeRowFacts DEF DeleteEmployee, PendingBy, NullsAssumption
  <2>6. report' = report /\ posting' = posting /\ job' \in {"idle", "main"}
        /\ late' = late /\ byHand' = byHand
        BY <1>3 DEF DeleteEmployee, TypeOK, LedgerTypeOK
  <2>7. LedgerInv'  BY <2>3, <2>4, <2>5, <2>6, EditKeepsLedgerInv
  <2>8. /\ wallet' = [w \in Wallets |-> IF wallet[w].employee = e
                                          THEN [wallet[w] EXCEPT !.employee = NoOne] ELSE wallet[w]]
        /\ staff' = [staff EXCEPT ![e] = "gone"]
        BY <1>3 DEF DeleteEmployee
  <2>9. ASSUME NEW w \in Wallets
        PROVE  [wallet[w] EXCEPT !.employee = NoOne] \in Wallet
        BY <1>1 DEF Wallet, Owners
  <2>10. wallet' \in [Wallets -> Wallet]  BY <1>1, <2>8, <2>9
  <2>11. \A w \in Wallets :
           /\ wallet'[w].state = wallet[w].state
           /\ wallet'[w].employee = IF wallet[w].employee = e THEN NoOne ELSE wallet[w].employee
         BY <1>1, <2>8 DEF Wallet
  <2>12. e \notin Hired' /\ Hired' \subseteq Hired  BY <1>1, <2>8 DEF Hired
  <2>13. TypeOK'  BY <1>1, <2>7, <2>8, <2>10 DEF TypeOK, LedgerInv
  <2>14. RowsHeld'
    <3>1. \A p \in Requests : req[p].row \subseteq Txs  BY DEF TypeOK, Request
    <3> QED  BY <1>1, <2>4, <3>1 DEF RowsHeld
  <2>15. RowsApart' /\ RequestsKnow'  BY <1>1, <2>11 DEF RowsApart, RequestsKnow
  <2>16. FreshReads'
    <3>1. \A p \in Requests : req[p].step = "update" => req[p].wallet \in Wallets
          BY DEF RequestsKnow
    <3> QED  BY <1>1, <2>11, <2>12, <3>1 DEF FreshReads
  <2>17. WalletHistoryKept'
    <3>1. \A t \in Txs : forWallets(t) => tx[t].wallet \in Wallets
          BY <2>1 DEF Row, forWallets
    <3> QED  BY <2>4, <2>11, <3>1 DEF WalletHistoryKept, forWallets
  <2> QED  BY <2>7, <2>13, <2>14, <2>15, <2>16, <2>17
<1> QED  BY <1>2, <1>3

LEMMA WalletStart == NullsAssumption /\ Init => WalletInv
<1> SUFFICES ASSUME NullsAssumption, Init PROVE WalletInv  OBVIOUS
<1>1. LedgerInv  BY LedgerStart DEF Init
<1>2. TypeOK  BY <1>1, IdleFacts DEF TypeOK, LedgerInv, Init, Wallet, Owners
<1>3. RowsHeld /\ RowsApart /\ RequestsKnow /\ FreshReads
      BY IdleFacts DEF RowsHeld, RowsApart, RequestsKnow, FreshReads, Init
<1>4. WalletHistoryKept
      BY FreeRowFacts DEF WalletHistoryKept, forWallets, Init, LedgerInit
<1> QED  BY <1>1, <1>2, <1>3, <1>4 DEF WalletInv

LEMMA WalletStep == NullsAssumption /\ WalletInv /\ [Next]_vars => WalletInv'
<1> SUFFICES ASSUME NullsAssumption, WalletInv, [Next]_vars PROVE WalletInv'  OBVIOUS
<1> USE DEF WalletInv
<1>1. ASSUME LedgerNext(Hired), UNCHANGED walletVars  PROVE WalletInv'
      BY <1>1, LedgerKeepsWalletInv
<1>2. ASSUME NEW p \in Requests, NEW w \in Wallets, NEW e \in Employees, CreateOwnTransaction(p, w, e)
      PROVE  WalletInv'
  <2> DEFINE q == [Idle EXCEPT !.step = "insert", !.wallet = w, !.who = e]
  <2>1. q \in Request /\ q.step = "insert" /\ q.wallet = w /\ q.row = {}
        BY DEF Idle, Request, Owners
  <2>2. /\ req[p].step = "idle" /\ wallet[w].state = "live" /\ req' = [req EXCEPT ![p] = q]
        /\ UNCHANGED <<tx, report, posting, job, late, byHand, wallet, staff, stale>>
        BY <1>2 DEF CreateOwnTransaction
  <2> HIDE DEF q
  <2> QED  BY <2>1, <2>2, BeginKeepsWalletInv
<1>3. ASSUME NEW p \in Requests, NEW w \in Wallets, NEW e \in Owners, UpdateWallet(p, w, e)
      PROVE  WalletInv'
  <2> DEFINE q == [Idle EXCEPT !.step = "update", !.wallet = w, !.who = e,
                               !.read = wallet[w].employee]
  <2>1. wallet[w].employee \in Owners  BY DEF TypeOK, Wallet
  <2>2. /\ q \in Request /\ q.step = "update" /\ q.wallet = w /\ q.row = {}
        /\ q.read = wallet[w].employee
        BY <2>1 DEF Idle, Request
  <2>3. /\ req[p].step = "idle" /\ wallet[w].state = "live" /\ req' = [req EXCEPT ![p] = q]
        /\ UNCHANGED <<tx, report, posting, job, late, byHand, wallet, staff, stale>>
        BY <1>3 DEF UpdateWallet
  <2> HIDE DEF q
  <2> QED  BY <2>2, <2>3, BeginKeepsWalletInv
<1>4. ASSUME NEW p \in Requests, NEW w \in Wallets, DeleteWallet(p, w)  PROVE WalletInv'
  <2> DEFINE q == [Idle EXCEPT !.step = "delete", !.wallet = w]
  <2>1. q \in Request /\ q.step = "delete" /\ q.wallet = w /\ q.row = {}
        BY DEF Idle, Request, Owners
  <2>2. /\ req[p].step = "idle" /\ wallet[w].state = "live" /\ req' = [req EXCEPT ![p] = q]
        /\ UNCHANGED <<tx, report, posting, job, late, byHand, wallet, staff, stale>>
        BY <1>4 DEF DeleteWallet
  <2> HIDE DEF q
  <2> QED  BY <2>1, <2>2, BeginKeepsWalletInv
<1>5. ASSUME NEW p \in Requests, NEW t \in Txs, InsertOwnTransaction(p, t)  PROVE WalletInv'
      BY <1>5, InsertOwnKeepsWalletInv
<1>6. ASSUME NEW p \in Requests, CommitOwnTransaction(p) \/ Refuse(p)  PROVE WalletInv'
      BY <1>6, EndKeepsWalletInv DEF CommitOwnTransaction, Refuse
<1>7. ASSUME NEW p \in Requests, req[p].step # "commit"  PROVE req[p].row = {}
      BY <1>7 DEF RowsHeld
<1>8. ASSUME NEW p \in Requests, WriteUpdate(p)  PROVE WalletInv'
  <2> DEFINE row == [state |-> "live", employee |-> req[p].who]
  <2>1. row \in Wallet /\ row.state = "live"  BY DEF Wallet, TypeOK, Request
  <2>2. /\ req[p].step = "update" /\ Write(p, req[p].wallet, row) /\ req' = [req EXCEPT ![p] = Idle]
        /\ UNCHANGED <<tx, report, posting, job, late, byHand, staff>>
        BY <1>8 DEF WriteUpdate
  <2> HIDE DEF row
  <2> QED  BY <1>7, <2>1, <2>2, WriteKeepsWalletInv
<1>9. ASSUME NEW p \in Requests, WriteDelete(p)  PROVE WalletInv'
  <2> DEFINE row == [state |-> "gone", employee |-> NoOne]
  <2>1. row \in Wallet /\ row.state = "gone"  BY DEF Wallet, Owners
  <2>2. /\ req[p].step = "delete" /\ Write(p, req[p].wallet, row) /\ req' = [req EXCEPT ![p] = Idle]
        /\ UNCHANGED <<tx, report, posting, job, late, byHand, staff>>
        BY <1>9 DEF WriteDelete
  <2>3. \A t \in Txs : tx[t].state # "free" => tx[t].wallet # req[p].wallet
    <3>1. \A t \in Txs : tx[t].state \in {"free", "pending", "live", "deleted"}
          BY DEF TypeOK, LedgerTypeOK, Row
    <3> QED  BY <1>9, <3>1 DEF WriteDelete, Deletable, History, Visible, PendingOn
  <2> HIDE DEF row
  <2> QED  BY <1>7, <2>1, <2>2, <2>3, WriteKeepsWalletInv
<1>10. ASSUME NEW w \in Wallets, NEW e \in Owners, CreateWallet(w, e)  PROVE WalletInv'
  <2>1. /\ wallet[w].state = "free" /\ wallet' = [wallet EXCEPT ![w] = [state |-> "live", employee |-> e]]
        /\ staff' = staff /\ req' = req /\ stale' = stale /\ UNCHANGED ledgerVars
        BY <1>10 DEF CreateWallet, ledgerVars
  <2>2. LedgerInv'  BY <2>1, LedgerUntouched
  <2>3. tx' = tx  BY <2>1 DEF ledgerVars
  <2>4. [state |-> "live", employee |-> e] \in Wallet  BY DEF Wallet
  <2>5. /\ wallet' \in [Wallets -> Wallet] /\ wallet'[w].state = "live"
        /\ \A v \in Wallets \ {w} : wallet'[v] = wallet[v]
        BY <2>1, <2>4 DEF TypeOK
  <2>6. TypeOK'  BY <2>1, <2>2, <2>5 DEF TypeOK, LedgerInv
  <2>7. RowsHeld' /\ RowsApart'  BY <2>1, <2>3 DEF RowsHeld, RowsApart
  <2>8. RequestsKnow'  BY <2>1, <2>5 DEF RequestsKnow
  <2>9. FreshReads'  BY <2>1, <2>5 DEF FreshReads, RequestsKnow, Hired
  <2>10. WalletHistoryKept'
    <3>1. \A t \in Txs : forWallets(t) => tx[t].wallet \in Wallets
          BY DEF TypeOK, LedgerTypeOK, Row, forWallets
    <3> QED  BY <2>3, <2>5, <3>1 DEF WalletHistoryKept, forWallets
  <2> QED  BY <2>2, <2>6, <2>7, <2>8, <2>9, <2>10
<1>11. ASSUME NEW e \in Employees,
              SetStaff(e, "active", "deleted") \/ SetStaff(e, "deleted", "active") \/ DeleteEmployee(e)
       PROVE  WalletInv'
       BY <1>11, StaffKeepsWalletInv
<1>12. CASE UNCHANGED vars
  <2>1. UNCHANGED ledgerVars /\ tx' = tx /\ wallet' = wallet /\ staff' = staff /\ req' = req
        /\ stale' = stale
        BY <1>12 DEF vars, ledgerVars
  <2>2. LedgerInv'  BY <2>1, LedgerUntouched
  <2> QED  BY <2>1, <2>2 DEF TypeOK, LedgerInv, RowsHeld, RowsApart, RequestsKnow, FreshReads, Hired,
              WalletHistoryKept, forWallets
<1> QED
  BY <1>1, <1>2, <1>3, <1>4, <1>5, <1>6, <1>8, <1>9, <1>10, <1>11, <1>12 DEF Next, WalletNext

-----------------------------------------------------------------------------
(* The theorems *)

\* The inductive invariant holds in every reachable state.
THEOREM WalletInvariant == Spec => []WalletInv
<1> USE NullsAssumption
<1>1. Init => WalletInv  BY WalletStart
<1>2. WalletInv /\ [Next]_vars => WalletInv'  BY WalletStep
<1> QED  BY <1>1, <1>2, PTL DEF Spec

\* Types, and no row outlives its wallet.
THEOREM WalletSafety == Spec => [](TypeOK /\ WalletHistoryKept)
<1>1. WalletInv => TypeOK /\ WalletHistoryKept  BY DEF WalletInv
<1> QED  BY <1>1, WalletInvariant, PTL

\* The money of reports, whatever employees and managers do with their wallets:
\* no live row on a report that is not live, no deleted row on one that is, one
\* row for each report, apart from what the histories tell.
THEOREM MoneyFollowsReports ==
  Spec => [](CountedMoneyHasItsReport /\ LiveReportHasItsMoney /\ OneRowPerReport)
<1>1. WalletInv => CountedMoneyHasItsReport /\ LiveReportHasItsMoney /\ OneRowPerReport
      BY DEF WalletInv, LedgerInv
<1> QED  BY <1>1, WalletInvariant, PTL

\* A row of a live report is live, however deletions, restorations, approvals and
\* wallets' postings interleave, unless somebody deleted that very row.
THEOREM ReportsKeepTheirMoney == Spec => []LiveReportHasItsMoney
<1>1. WalletInv => LiveReportHasItsMoney  BY DEF WalletInv, LedgerInv
<1> QED  BY <1>1, WalletInvariant, PTL

\* No approval moves the money of a wallet into the main treasury.
THEOREM WalletMoneyStaysOut == Spec => []WalletMoneyNeverMain
<1>1. WalletInv => WalletMoneyNeverMain  BY DEF WalletInv, LedgerInv
<1> QED  BY <1>1, WalletInvariant, PTL

\* What a step does to a wallet.
LEMMA WalletWrites ==
  ASSUME NullsAssumption, WalletInv, [Next]_vars, wallet' # wallet
  PROVE  \/ \E p \in Requests : WriteUpdate(p) \/ WriteDelete(p)
         \/ \E w \in Wallets, e \in Owners : CreateWallet(w, e)
         \/ \E e \in Employees : DeleteEmployee(e)
<1>1. ~(LedgerNext(Hired) /\ UNCHANGED walletVars)  BY DEF walletVars
<1>2. ~UNCHANGED vars  BY DEF vars
<1>3. ASSUME NEW p \in Requests, NEW w \in Wallets
      PROVE  /\ \A e \in Employees : ~CreateOwnTransaction(p, w, e)
             /\ \A e \in Owners : ~UpdateWallet(p, w, e)
             /\ ~DeleteWallet(p, w)
      BY DEF CreateOwnTransaction, UpdateWallet, DeleteWallet
<1>4. ASSUME NEW p \in Requests
      PROVE  /\ \A t \in Txs : ~InsertOwnTransaction(p, t)
             /\ ~CommitOwnTransaction(p) /\ ~Refuse(p)
      BY DEF InsertOwnTransaction, CommitOwnTransaction, Refuse
<1>5. ASSUME NEW e \in Employees
      PROVE  ~SetStaff(e, "active", "deleted") /\ ~SetStaff(e, "deleted", "active")
      BY DEF SetStaff
<1> QED  BY <1>1, <1>2, <1>3, <1>4, <1>5 DEF Next, WalletNext

\* A wallet with committed rows keeps its employee until that employee's row is
\* deleted, however reads, postings and other managers interleave.
THEOREM AssignmentsFollowHistory == Spec => AssignmentFollowsHistory
<1> USE NullsAssumption
<1>1. ASSUME WalletInv, [Next]_vars, NEW w \in Wallets, History(w) # {}
      PROVE  \/ wallet'[w] = wallet[w]
             \/ wallet'[w].employee = NoOne /\ staff'[wallet[w].employee] = "gone"
  <2> USE DEF WalletInv
  <2>1. wallet \in [Wallets -> Wallet] /\ staff \in [Employees -> {"active", "deleted", "gone"}]
        BY <1>1 DEF TypeOK
  <2>2. wallet[w].state = "live"
    <3>1. PICK t \in History(w) : TRUE  BY <1>1
    <3>2. t \in Txs /\ tx[t].state # "free" /\ tx[t].wallet = w
          BY DEF History, Visible
    <3>3. w # NoWallet  BY DEF NullsAssumption
    <3> QED  BY <1>1, <3>2, <3>3 DEF WalletHistoryKept, forWallets
  <2>3. ASSUME NEW p \in Requests, WriteUpdate(p)  PROVE wallet'[w] = wallet[w]
    <3>1. /\ req[p].step = "update" /\ p \notin stale /\ req[p].who \in Hired \cup {NoOne}
          /\ Reassigning(p) => History(req[p].wallet) = {}
          /\ wallet[req[p].wallet].state = "live"
          /\ wallet' = [wallet EXCEPT ![req[p].wallet] = [state |-> "live", employee |-> req[p].who]]
          BY <2>3 DEF WriteUpdate, Matches, Write
    <3>2. CASE req[p].wallet # w  BY <2>1, <3>1, <3>2
    <3>3. CASE req[p].wallet = w
      <4>1. req[p].who = req[p].read  BY <1>1, <3>1, <3>3 DEF Reassigning
      <4>2. wallet[w].employee = req[p].who
            BY <1>1, <3>1, <3>3, <4>1 DEF FreshReads, NullsAssumption
      <4>3. wallet[w] = [state |-> "live", employee |-> req[p].who]
            BY <2>1, <2>2, <4>2 DEF Wallet
      <4> QED  BY <2>1, <3>1, <3>3, <4>3
    <3> QED  BY <3>2, <3>3
  <2>4. ASSUME NEW p \in Requests, WriteDelete(p)  PROVE wallet'[w] = wallet[w]
    <3>1. /\ History(req[p].wallet) = {}
          /\ wallet' = [wallet EXCEPT ![req[p].wallet] = [state |-> "gone", employee |-> NoOne]]
          BY <2>4 DEF WriteDelete, Deletable, Write
    <3> QED  BY <1>1, <2>1, <3>1
  <2>5. ASSUME NEW v \in Wallets, NEW e \in Owners, CreateWallet(v, e)  PROVE wallet'[w] = wallet[w]
        BY <2>1, <2>2, <2>5 DEF CreateWallet
  <2>6. ASSUME NEW e \in Employees, DeleteEmployee(e)
        PROVE  \/ wallet'[w] = wallet[w]
               \/ wallet'[w].employee = NoOne /\ staff'[wallet[w].employee] = "gone"
        BY <2>1, <2>6 DEF DeleteEmployee, Wallet
  <2> QED  BY <1>1, <2>3, <2>4, <2>5, <2>6, WalletWrites
<1>2. WalletInv /\ [Next]_vars =>
        [\A w \in Wallets :
           History(w) # {} =>
             \/ wallet'[w] = wallet[w]
             \/ wallet'[w].employee = NoOne /\ staff'[wallet[w].employee] = "gone"]_vars
      BY <1>1
<1> QED  BY <1>2, WalletInvariant, PTL DEF Spec, AssignmentFollowsHistory

\* No assignment is lost: a manager replaces the one that manager had read, or
\* one the database had cleared.
THEOREM AssignmentsAreNotLost == Spec => NoLostAssignment
<1> USE NullsAssumption
<1>1. ASSUME WalletInv, [Next]_vars, NEW p \in Requests,
             req[p].step = "update", req'[p].step = "idle", wallet' # wallet
      PROVE  wallet[req[p].wallet].employee \in {req[p].read, NoOne}
  <2>1. req \in [Requests -> Request]  BY <1>1 DEF WalletInv, TypeOK
  <2>2. ASSUME NEW q \in Requests, WriteUpdate(q) \/ WriteDelete(q)
        PROVE  wallet[req[p].wallet].employee \in {req[p].read, NoOne}
    <3>1. req' = [req EXCEPT ![q] = Idle] /\ q \notin stale
          BY <2>2 DEF WriteUpdate, WriteDelete, Matches, Deletable
    <3>2. q = p  BY <1>1, <2>1, <3>1
    <3> QED  BY <1>1, <3>1, <3>2 DEF WalletInv, FreshReads
  <2>3. ASSUME NEW w \in Wallets, NEW e \in Owners, CreateWallet(w, e)  PROVE FALSE
        BY <1>1, <2>3 DEF CreateWallet
  <2>4. ASSUME NEW e \in Employees, DeleteEmployee(e)  PROVE FALSE
        BY <1>1, <2>4 DEF DeleteEmployee
  <2> QED  BY <1>1, <2>2, <2>3, <2>4, WalletWrites
<1>2. WalletInv /\ [Next]_vars =>
        [\A p \in Requests :
           LET w == req[p].wallet
           IN req[p].step = "update" /\ req'[p].step = "idle" /\ wallet' # wallet =>
                wallet[w].employee \in {req[p].read, NoOne}]_vars
      BY <1>1
<1> QED  BY <1>2, WalletInvariant, PTL DEF Spec, NoLostAssignment

-----------------------------------------------------------------------------
(* Sums over finite sets *)

\* Sums over finite sets are computed element by element, in an order that CHOOSE
\* picks.  The prover has no induction over them: what follows is shown of a smallest
\* counterexample, a set by the well-founded order of the subsets of a finite set.
SumOver(g, S) == MapThenSumSet(LAMBDA x : g[x], S)

Pick(S) == CHOOSE x \in S : TRUE

SumsOver(h, g, S) ==
  h = [T \in SUBSET S |-> IF T = {} THEN 0 ELSE g[Pick(T)] + h[T \ {Pick(T)}]]

LEMMA PickFacts == \A S : S # {} => Pick(S) \in S
BY DEF Pick

LEMMA SmallestSubset ==
  ASSUME NEW S, IsFiniteSet(S), NEW B, B \subseteq SUBSET S, B # {}
  PROVE  \E T \in B : \A U \in B : U \subseteq T => U = T
<1>1. IsWellFoundedOn(StrictSubsetOrdering(S), SUBSET S)
  BY FS_StrictSubsetOrderingWellFounded, FS_FiniteSubsetsOfFinite
<1>2. \E T \in B : \A U \in B : <<U, T>> \notin StrictSubsetOrdering(S)
  BY <1>1, WFMin
<1> QED BY <1>2 DEF StrictSubsetOrdering

\* What holds of the empty set, and of a set with one more element, holds of S.
LEMMA SetInduction ==
  ASSUME NEW S, IsFiniteSet(S), NEW G, {} \in G,
         \A T \in SUBSET S : \A x \in S \ T : T \in G => T \cup {x} \in G
  PROVE  S \in G
<1> DEFINE B == {T \in SUBSET S : T \notin G}
<1> SUFFICES ASSUME B # {} PROVE FALSE
  OBVIOUS
<1>1. PICK T \in B : \A U \in B : U \subseteq T => U = T
  <2>1. B \subseteq SUBSET S
    OBVIOUS
  <2> HIDE DEF B
  <2> QED BY <2>1, SmallestSubset
<1>2. PICK x \in T : TRUE
  BY <1>1
<1>3. T \ {x} \in G
  BY <1>1
<1>4. T = (T \ {x}) \cup {x}
  BY <1>2
<1> QED BY <1>1, <1>3, <1>4

LEMMA SumsAgree ==
  ASSUME NEW g, NEW h, NEW k, NEW S, NEW U, SumsOver(h, g, S), SumsOver(k, g, U),
         NEW T, T \subseteq S, T \subseteq U, IsFiniteSet(T)
  PROVE  h[T] = k[T]
<1> DEFINE B == {V \in SUBSET T : h[V] # k[V]}
<1> SUFFICES ASSUME B # {} PROVE FALSE
  OBVIOUS
<1>1. PICK V \in B : \A W \in B : W \subseteq V => W = V
  <2>1. B \subseteq SUBSET T
    OBVIOUS
  <2> HIDE DEF B
  <2> QED BY <2>1, SmallestSubset
<1>2. /\ h[V] = IF V = {} THEN 0 ELSE g[Pick(V)] + h[V \ {Pick(V)}]
      /\ k[V] = IF V = {} THEN 0 ELSE g[Pick(V)] + k[V \ {Pick(V)}]
  BY <1>1 DEF SumsOver
<1>3. V # {} => h[V \ {Pick(V)}] = k[V \ {Pick(V)}]
  BY <1>1, PickFacts
<1> QED BY <1>1, <1>2, <1>3

LEMMA SumsExist ==
  ASSUME NEW g, NEW S, IsFiniteSet(S)
  PROVE  \E h : SumsOver(h, g, S)
<1> DEFINE sums(T) == CHOOSE h : SumsOver(h, g, T)
           B == {T \in SUBSET S : ~\E h : SumsOver(h, g, T)}
<1> SUFFICES ASSUME B # {} PROVE FALSE
  OBVIOUS
<1>1. PICK T \in B : \A U \in B : U \subseteq T => U = T
  <2>1. B \subseteq SUBSET S
    OBVIOUS
  <2> HIDE DEF B
  <2> QED BY <2>1, SmallestSubset
<1> DEFINE H == [U \in SUBSET T |->
                   IF U = {} THEN 0 ELSE g[Pick(U)] + sums(U \ {Pick(U)})[U \ {Pick(U)}]]
<1>2. ASSUME NEW U \in SUBSET T, U # T
      PROVE  SumsOver(sums(U), g, U)
  BY <1>1, <1>2
<1>3. ASSUME NEW U \in SUBSET T, U # T
      PROVE  H[U] = sums(U)[U]
  <2>1. sums(U)[U] = IF U = {} THEN 0 ELSE g[Pick(U)] + sums(U)[U \ {Pick(U)}]
    <3> HIDE DEF sums
    <3> QED BY <1>2, <1>3 DEF SumsOver
  <2>2. CASE U = {}
    BY <2>1, <2>2
  <2>3. CASE U # {}
    <3> DEFINE V == U \ {Pick(U)}
    <3>1. V \in SUBSET T /\ V # T /\ V \subseteq U
      BY <1>3, <2>3, PickFacts
    <3>2. IsFiniteSet(V)
      BY <3>1, FS_Subset
    <3>3. sums(V)[V] = sums(U)[V]
      <4> HIDE DEF sums, V
      <4> QED BY <1>2, <1>3, <3>1, <3>2, SumsAgree
    <3> QED BY <2>1, <2>3, <3>3
  <2> QED BY <2>2, <2>3
<1>4. SumsOver(H, g, T)
  <2>1. ASSUME NEW U \in SUBSET T, U # {}
        PROVE  H[U \ {Pick(U)}] = sums(U \ {Pick(U)})[U \ {Pick(U)}]
    <3>1. U \ {Pick(U)} \in SUBSET T /\ U \ {Pick(U)} # T
      BY <2>1, PickFacts
    <3> HIDE DEF H, sums
    <3> QED BY <1>3, <3>1
  <2>2. H = [U \in SUBSET T |-> IF U = {} THEN 0 ELSE g[Pick(U)] + H[U \ {Pick(U)}]]
    <3> HIDE DEF sums
    <3> QED BY <2>1
  <2> QED BY <2>2 DEF SumsOver
<1> QED BY <1>1, <1>4

LEMMA SumIsSum ==
  ASSUME NEW g, NEW S, IsFiniteSet(S)
  PROVE  \E h : SumsOver(h, g, S) /\ SumOver(g, S) = h[S]
<1>1. SumOver(g, S) = (CHOOSE h : SumsOver(h, g, S))[S]
  BY DEF SumOver, MapThenSumSet, MapThenFoldSet, Pick, SumsOver
<1> QED BY <1>1, SumsExist

LEMMA SumEmpty ==
  ASSUME NEW g
  PROVE  SumOver(g, {}) = 0
<1>1. PICK h : SumsOver(h, g, {}) /\ SumOver(g, {}) = h[{}]
  BY SumIsSum, FS_EmptySet
<1> QED BY <1>1 DEF SumsOver

LEMMA SumPick ==
  ASSUME NEW g, NEW S, IsFiniteSet(S), S # {}
  PROVE  SumOver(g, S) = g[Pick(S)] + SumOver(g, S \ {Pick(S)})
<1> DEFINE T == S \ {Pick(S)}
<1>0. IsFiniteSet(T) /\ T \subseteq S
  BY FS_Subset
<1>1. PICK h : SumsOver(h, g, S) /\ SumOver(g, S) = h[S]
  BY SumIsSum
<1>2. PICK k : SumsOver(k, g, T) /\ SumOver(g, T) = k[T]
  BY <1>0, SumIsSum
<1>3. h[S] = g[Pick(S)] + h[T]
  BY <1>1 DEF SumsOver
<1>4. h[T] = k[T]
  BY <1>0, <1>1, <1>2, SumsAgree
<1> QED BY <1>1, <1>2, <1>3, <1>4

LEMMA SumInt ==
  ASSUME NEW S, IsFiniteSet(S), NEW g, \A x \in S : g[x] \in Int
  PROVE  SumOver(g, S) \in Int
<1> DEFINE B == {T \in SUBSET S : SumOver(g, T) \notin Int}
<1> SUFFICES ASSUME B # {} PROVE FALSE
  OBVIOUS
<1>1. PICK T \in B : \A U \in B : U \subseteq T => U = T
  <2>1. B \subseteq SUBSET S
    OBVIOUS
  <2> HIDE DEF B
  <2> QED BY <2>1, SmallestSubset
<1>2. T # {}
  <2>1. SumOver(g, {}) \in Int
    BY SumEmpty
  <2>2. SumOver(g, T) \notin Int
    BY <1>1
  <2> QED BY <2>1, <2>2, Zenon
<1>3. Pick(T) \in T /\ SumOver(g, T \ {Pick(T)}) \in Int
  BY <1>1, <1>2, PickFacts
<1>4. IsFiniteSet(T)
  BY FS_Subset
<1> QED BY <1>1, <1>2, <1>3, <1>4, SumPick

\* Any element may be added last.
LEMMA SumRemove ==
  ASSUME NEW S, IsFiniteSet(S), NEW g, \A x \in S : g[x] \in Int, NEW a \in S
  PROVE  SumOver(g, S) = g[a] + SumOver(g, S \ {a})
<1> DEFINE B == {T \in SUBSET S : \E x \in T : SumOver(g, T) # g[x] + SumOver(g, T \ {x})}
<1> SUFFICES ASSUME B # {} PROVE FALSE
  OBVIOUS
<1>1. PICK T \in B : \A U \in B : U \subseteq T => U = T
  <2>1. B \subseteq SUBSET S
    OBVIOUS
  <2> HIDE DEF B
  <2> QED BY <2>1, SmallestSubset
<1>2. PICK x \in T : SumOver(g, T) # g[x] + SumOver(g, T \ {x})
  BY <1>1
<1> DEFINE c == Pick(T)
<1>3. c \in T /\ IsFiniteSet(T) /\ IsFiniteSet(T \ {x}) /\ IsFiniteSet(T \ {c})
      /\ IsFiniteSet((T \ {x}) \ {c})
  BY <1>2, PickFacts, FS_Subset
<1>4. SumOver(g, T) = g[c] + SumOver(g, T \ {c})
  BY <1>2, <1>3, SumPick
<1> HIDE DEF c
<1>5. c # x
  BY <1>2, <1>4
<1>6. T \ {c} \notin B /\ T \ {x} \notin B
  BY <1>1, <1>2, <1>3
<1>7. SumOver(g, T \ {c}) = g[x] + SumOver(g, (T \ {c}) \ {x})
  BY <1>2, <1>5, <1>6
<1>8. SumOver(g, T \ {x}) = g[c] + SumOver(g, (T \ {x}) \ {c})
  BY <1>3, <1>5, <1>6
<1>9. (T \ {c}) \ {x} = (T \ {x}) \ {c}
  OBVIOUS
<1> DEFINE rest == SumOver(g, (T \ {x}) \ {c})
<1>10. rest \in Int /\ g[x] \in Int /\ g[c] \in Int
  BY <1>1, <1>2, <1>3, SumInt
<1>11. SumOver(g, T) = g[c] + (g[x] + rest) /\ SumOver(g, T \ {x}) = g[c] + rest
  BY <1>4, <1>7, <1>8, <1>9
<1> HIDE DEF rest, B
<1> QED BY <1>2, <1>10, <1>11

LEMMA SumAdd ==
  ASSUME NEW S, IsFiniteSet(S), NEW g, NEW a, \A x \in S \cup {a} : g[x] \in Int, a \notin S
  PROVE  SumOver(g, S \cup {a}) = g[a] + SumOver(g, S)
<1>1. IsFiniteSet(S \cup {a}) /\ (S \cup {a}) \ {a} = S
  BY FS_AddElement
<1> QED BY <1>1, SumRemove

LEMMA SumSame ==
  ASSUME NEW S, IsFiniteSet(S), NEW g, NEW k, \A x \in S : g[x] \in Int /\ k[x] = g[x]
  PROVE  SumOver(k, S) = SumOver(g, S)
<1> DEFINE G == {T \in SUBSET S : SumOver(k, T) = SumOver(g, T)}
<1>1. {} \in G
  BY SumEmpty
<1>2. ASSUME NEW T \in SUBSET S, NEW x \in S \ T, T \in G
      PROVE  T \cup {x} \in G
  <2>1. IsFiniteSet(T) /\ SumOver(k, T) = SumOver(g, T) /\ \A y \in T \cup {x} : y \in S
    BY <1>2, FS_Subset
  <2>2. /\ SumOver(g, T \cup {x}) = g[x] + SumOver(g, T)
        /\ SumOver(k, T \cup {x}) = k[x] + SumOver(k, T)
    BY <1>2, <2>1, SumAdd
  <2>3. k[x] = g[x]
    BY <1>2
  <2> QED BY <1>2, <2>1, <2>2, <2>3
<1> HIDE DEF G
<1>3. S \in G
  BY <1>1, <1>2, SetInduction
<1> QED BY <1>3 DEF G

LEMMA SumPlus ==
  ASSUME NEW S, IsFiniteSet(S), NEW g, NEW k, NEW h,
         \A x \in S : g[x] \in Int /\ k[x] \in Int /\ h[x] = g[x] + k[x]
  PROVE  SumOver(h, S) = SumOver(g, S) + SumOver(k, S)
<1> DEFINE G == {T \in SUBSET S : SumOver(h, T) = SumOver(g, T) + SumOver(k, T)}
<1>1. {} \in G
  <2>1. SumOver(h, {}) = 0 /\ SumOver(g, {}) = 0 /\ SumOver(k, {}) = 0
    BY SumEmpty
  <2> QED BY <2>1
<1>2. ASSUME NEW T \in SUBSET S, NEW x \in S \ T, T \in G
      PROVE  T \cup {x} \in G
  <2>1. IsFiniteSet(T) /\ SumOver(h, T) = SumOver(g, T) + SumOver(k, T)
    BY <1>2, FS_Subset
  <2>2. \A y \in T \cup {x} : g[y] \in Int /\ k[y] \in Int /\ h[y] = g[y] + k[y] /\ h[y] \in Int
    BY <1>2
  <2>3. SumOver(g, T) \in Int /\ SumOver(k, T) \in Int
    BY <2>1, <2>2, SumInt
  <2>4. /\ SumOver(g, T \cup {x}) = g[x] + SumOver(g, T)
        /\ SumOver(k, T \cup {x}) = k[x] + SumOver(k, T)
        /\ SumOver(h, T \cup {x}) = h[x] + SumOver(h, T)
    BY <1>2, <2>1, <2>2, SumAdd
  <2>5. SumOver(h, T \cup {x}) = SumOver(g, T \cup {x}) + SumOver(k, T \cup {x})
    BY <2>1, <2>2, <2>3, <2>4
  <2> QED BY <1>2, <2>5
<1> HIDE DEF G
<1>3. S \in G
  BY <1>1, <1>2, SetInduction
<1> QED BY <1>3 DEF G

LEMMA SumZero ==
  ASSUME NEW S, IsFiniteSet(S), NEW g, \A x \in S : g[x] = 0
  PROVE  SumOver(g, S) = 0
<1> DEFINE sum == SumOver(g, S)
<1>1. sum \in Int
  BY SumInt
<1>2. sum = sum + sum
  BY SumPlus
<1> HIDE DEF sum
<1>3. sum = 0
  BY <1>1, <1>2
<1> QED BY <1>3 DEF sum

\* One element counts.
LEMMA SumPoint ==
  ASSUME NEW S, IsFiniteSet(S), NEW g, NEW a, NEW v \in Int,
         \A x \in S : g[x] = IF x = a THEN v ELSE 0
  PROVE  SumOver(g, S) = IF a \in S THEN v ELSE 0
<1>1. CASE a \notin S
  BY <1>1, SumZero
<1>2. CASE a \in S
  <2>1. IsFiniteSet(S \ {a}) /\ \A x \in S : g[x] \in Int
    BY FS_Subset
  <2>2. SumOver(g, S) = g[a] + SumOver(g, S \ {a})
    BY <1>2, <2>1, SumRemove
  <2>3. SumOver(g, S \ {a}) = 0
    BY <2>1, SumZero
  <2> QED BY <1>2, <2>2, <2>3
<1> QED BY <1>1, <1>2

\* A sum over part of a set.
LEMMA SumPart ==
  ASSUME NEW S, IsFiniteSet(S), NEW g, NEW k, NEW P \in SUBSET S,
         \A x \in S : g[x] \in Int /\ k[x] = IF x \in P THEN g[x] ELSE 0
  PROVE  SumOver(g, P) = SumOver(k, S)
<1> DEFINE G == {T \in SUBSET S : SumOver(g, T \cap P) = SumOver(k, T)}
<1>1. {} \in G
  <2>1. SumOver(g, {}) = 0 /\ SumOver(k, {}) = 0 /\ {} \cap P = {}
    BY SumEmpty
  <2> QED BY <2>1
<1>2. ASSUME NEW T \in SUBSET S, NEW x \in S \ T, T \in G
      PROVE  T \cup {x} \in G
  <2>1. /\ IsFiniteSet(T) /\ IsFiniteSet(T \cap P) /\ SumOver(g, T \cap P) = SumOver(k, T)
        /\ \A y \in T \cup {x} : g[y] \in Int /\ k[y] \in Int
    BY <1>2, FS_Subset
  <2>2. SumOver(k, T \cup {x}) = k[x] + SumOver(k, T) /\ SumOver(k, T) \in Int
    BY <1>2, <2>1, SumAdd, SumInt
  <2>3. CASE x \in P
    <3>1. (T \cup {x}) \cap P = (T \cap P) \cup {x} /\ k[x] = g[x]
      BY <2>3
    <3>2. SumOver(g, (T \cap P) \cup {x}) = g[x] + SumOver(g, T \cap P)
      BY <1>2, <2>1, SumAdd
    <3> QED BY <1>2, <2>1, <2>2, <3>1, <3>2
  <2>4. CASE x \notin P
    <3>1. (T \cup {x}) \cap P = T \cap P /\ k[x] = 0
      BY <1>2, <2>4
    <3>2. SumOver(k, T \cup {x}) = SumOver(k, T)
      BY <2>2, <3>1
    <3> QED BY <1>2, <2>1, <3>1, <3>2
  <2> QED BY <2>3, <2>4
<1> HIDE DEF G
<1>3. S \in G
  BY <1>1, <1>2, SetInduction
<1>4. S \cap P = P
  OBVIOUS
<1> QED BY <1>3, <1>4 DEF G

\* Sums over the rows of a table and over its columns.
LEMMA SumSwap ==
  ASSUME NEW A, IsFiniteSet(A), NEW S, IsFiniteSet(S), NEW c,
         \A x \in A, y \in S : c[x][y] \in Int
  PROVE  SumOver([x \in A |-> SumOver(c[x], S)], A)
           = SumOver([y \in S |-> SumOver([x \in A |-> c[x][y]], A)], S)
<1> DEFINE row(T) == [x \in A |-> SumOver(c[x], T)]
           column == [y \in S |-> SumOver([x \in A |-> c[x][y]], A)]
           G == {T \in SUBSET S : SumOver(row(T), A) = SumOver(column, T)}
<1>0. ASSUME NEW T \in SUBSET S
      PROVE  IsFiniteSet(T) /\ \A x \in A : row(T)[x] = SumOver(c[x], T) /\ row(T)[x] \in Int
  BY FS_Subset, SumInt
<1>1. \A y \in S : column[y] \in Int /\ column[y] = SumOver([x \in A |-> c[x][y]], A)
  <2> SUFFICES ASSUME NEW y \in S PROVE SumOver([x \in A |-> c[x][y]], A) \in Int
    OBVIOUS
  <2> QED BY SumInt
<1> HIDE DEF column
<1>2. {} \in G
  <2>1. \A x \in A : row({})[x] = 0
    BY SumEmpty
  <2>2. SumOver(row({}), A) = 0
    <3> HIDE DEF row
    <3> QED BY <2>1, SumZero
  <2>3. SumOver(column, {}) = 0
    BY SumEmpty
  <2> HIDE DEF row
  <2> QED BY <2>2, <2>3
<1>3. ASSUME NEW T \in SUBSET S, NEW y \in S \ T, T \in G
      PROVE  T \cup {y} \in G
  <2> DEFINE new == [x \in A |-> c[x][y]]
  <2>1. SumOver(row(T), A) = SumOver(column, T) /\ T \cup {y} \in SUBSET S
    BY <1>3
  <2>2. \A x \in A : SumOver(c[x], T \cup {y}) = c[x][y] + SumOver(c[x], T)
    BY <1>0, <1>3, <2>1, SumAdd
  <2>3. \A x \in A : /\ row(T)[x] \in Int /\ new[x] \in Int
                     /\ row(T \cup {y})[x] = new[x] + row(T)[x]
    BY <1>0, <1>3, <2>1, <2>2
  <2>4. SumOver(row(T \cup {y}), A) = SumOver(new, A) + SumOver(row(T), A)
    <3> HIDE DEF row, new
    <3> QED BY <2>3, SumPlus
  <2>5. column[y] = SumOver(new, A)
    BY <1>1, <1>3
  <2>6. SumOver(column, T \cup {y}) = column[y] + SumOver(column, T)
    BY <1>0, <1>1, <1>3, <2>1, SumAdd
  <2> HIDE DEF row, new
  <2> QED BY <2>1, <2>4, <2>5, <2>6
<1>4. S \in G
  <2> HIDE DEF G
  <2> QED BY <1>2, <1>3, SetInduction
<1> QED BY <1>4 DEF column

-----------------------------------------------------------------------------
(* BranchProfits *)

\* The rows of the orders and the state of the job.
Rows ==
  /\ order \in [Orders -> Order]
  /\ \A o \in Delivered : order[o].branch # NoBranch /\ order[o].day \in 1..now
  /\ now \in 1..2
  /\ DOMAIN daily \subseteq Branches /\ todo \subseteq Branches
  /\ writes \in 0..MaxWrites
  /\ DOMAIN daily \cup todo # {} => now = 2
  /\ askew \subseteq Orders /\ touched \subseteq Orders

\* The rows of the job are what its sums would be now.
DailyIsCurrent ==
  todo # {} /\ touched = {} =>
    \A b \in DOMAIN daily : daily[b] = ComputeBranchDayProfit(b, 1)

DailyAreNumbers == \A b \in DOMAIN daily : daily[b] \in Profit

ProfitIInv == Rows /\ InsideNetFits /\ DailyIsCurrent /\ DailyAreNumbers

-----------------------------------------------------------------------------
(* Prices and rows *)

LEMMA DealFacts ==
  /\ Deal.agent \in Nat /\ Deal.main \in Nat /\ Deal.forwarded \in Nat /\ Deal.receiving \in Nat
  /\ DealSum \in Nat
BY PricesAssumption DEF DealSum

LEMMA PriceFacts ==
  /\ \A b : Price(ReceivingDeliveryCosts, b) \in Nat /\ Price(ForwardedDeliveryCosts, b) \in Nat
  /\ \A deal, b : DeliverCost(deal, b) \in Nat
BY PricesAssumption, DealFacts DEF Price, DeliverCost

LEMMA OrderFacts ==
  ASSUME NEW row \in Order
  PROVE  /\ row.fee \in Int /\ row.oldFee \in Int /\ row.agent \in Int /\ row.inside \in Int
         /\ row.forwarded \in Int /\ row.receiving \in Int /\ row.deal \in BOOLEAN
         /\ row.confirmed \in BOOLEAN
         /\ row.branch \in Branches \cup {NoBranch}
         /\ row.client \in Branches \cup {NoBranch, Abroad}
         /\ row.day \in 0..2 /\ row.status \in {"none", "open", "delivered", "returned"}
BY DEF Order

\* The nets of an order: what its agent takes, and for a delivery to the client's own
\* branch the rest of the fee.
LEMMA NetsFacts ==
  ASSUME NEW row \in Order, NEW agent \in Nat
  PROVE  /\ Profits(row, agent) \in [agent : Nat, inside : Int, forwarded : Int, receiving : Int]
         /\ Profits(row, agent).agent = agent
         /\ row.branch # NoBranch /\ row.branch = row.client =>
              Profits(row, agent).inside = row.fee - agent
<1> DEFINE own == row.branch # NoBranch /\ row.branch = row.client
<1>1. CASE own
  BY <1>1, OrderFacts DEF Profits, Nets
<1>2. CASE ~own
  <2>1. \E f, c \in Nat : Profits(row, agent) = Nets(agent, 0, f, c)
    BY <1>2, PriceFacts, DealFacts, PricesAssumption DEF Profits
  <2> QED BY <1>2, <2>1 DEF Nets
<1> QED BY <1>1, <1>2

\* What the writes of several fields leave.
LEMMA WithNetsFacts ==
  ASSUME NEW row \in Order, NEW n \in [agent : Nat, inside : Int, forwarded : Int, receiving : Int]
  PROVE  LET new == WithNets(row, n)
         IN  /\ new \in Order /\ new.agent = n.agent /\ new.inside = n.inside
             /\ new.status = row.status /\ new.client = row.client /\ new.day = row.day
<1>1. n.agent \in Int /\ n.inside \in Int /\ n.forwarded \in Int /\ n.receiving \in Int
  OBVIOUS
<1>2. WithNets(row, n) \in Order
  BY <1>1 DEF WithNets, Order
<1> QED BY <1>2 DEF WithNets, Order

Updated(base, old, fee, status, confirmed, day) ==
  [base EXCEPT !.oldFee = old, !.fee = fee, !.status = status, !.confirmed = confirmed,
               !.day = day]

UpdatedArguments(base, old, fee, status, confirmed, day) ==
  /\ base \in Order /\ old \in Int /\ fee \in Int /\ day \in 0..2 /\ confirmed \in BOOLEAN
  /\ status \in {"none", "open", "delivered", "returned"}

LEMMA UpdatedFacts ==
  ASSUME NEW base, NEW old, NEW fee, NEW status, NEW confirmed, NEW day,
         UpdatedArguments(base, old, fee, status, confirmed, day)
  PROVE  LET row == Updated(base, old, fee, status, confirmed, day)
         IN  /\ row \in Order /\ row.branch = base.branch /\ row.client = base.client
             /\ row.agent = base.agent /\ row.inside = base.inside
             /\ row.status = status /\ row.day = day
<1>1. Updated(base, old, fee, status, confirmed, day) \in Order
  BY DEF Order, Updated, UpdatedArguments
<1> QED BY <1>1 DEF Order, Updated, UpdatedArguments

ClientPaid(old, fee, settled, inside) ==
  [old EXCEPT !.fee = fee, !.settled = settled, !.inside = inside]

LEMMA ClientPaidFacts ==
  ASSUME NEW old \in Order, NEW fee \in Int, NEW inside \in Int,
         NEW settled \in SUBSET {"client", "received", "forwarded"}
  PROVE  LET row == ClientPaid(old, fee, settled, inside)
         IN  /\ row \in Order /\ row.status = old.status /\ row.branch = old.branch
             /\ row.day = old.day /\ row.client = old.client /\ row.fee = fee
             /\ row.agent = old.agent /\ row.inside = inside
<1>1. ClientPaid(old, fee, settled, inside) \in Order
  BY DEF Order, ClientPaid
<1> QED BY <1>1 DEF Order, ClientPaid

BranchPaid(old, receiving, forwarded, settled) ==
  [old EXCEPT !.receiving = receiving, !.forwarded = forwarded, !.settled = settled]

LEMMA BranchPaidFacts ==
  ASSUME NEW old \in Order, NEW receiving \in Int, NEW forwarded \in Int,
         NEW settled \in SUBSET {"client", "received", "forwarded"}
  PROVE  LET row == BranchPaid(old, receiving, forwarded, settled)
         IN  /\ row \in Order /\ row.status = old.status /\ row.branch = old.branch
             /\ row.day = old.day /\ row.client = old.client /\ row.fee = old.fee
             /\ row.agent = old.agent /\ row.inside = old.inside
<1>1. BranchPaid(old, receiving, forwarded, settled) \in Order
  BY DEF Order, BranchPaid
<1> QED BY <1>1 DEF Order, BranchPaid

Moved(row, fee, branch) == [row EXCEPT !.fee = fee, !.branch = branch]

LEMMA MovedFacts ==
  ASSUME NEW row \in Order, NEW fee \in Int, NEW branch \in Branches \cup {NoBranch}
  PROVE  LET new == Moved(row, fee, branch)
         IN  /\ new \in Order /\ new.branch = branch
             /\ new.agent = row.agent /\ new.inside = row.inside
             /\ new.status = row.status /\ new.client = row.client /\ new.day = row.day
<1>1. Moved(row, fee, branch) \in Order
  BY DEF Order, Moved
<1> QED BY <1>1 DEF Order, Moved

LEMMA RepricedFacts ==
  ASSUME NEW row \in Order, NEW b \in Branches \cup {NoBranch}, NEW agent \in Nat
  PROVE  LET new == Repriced(row, b, agent)
         IN  /\ new \in Order
             /\ new.status = row.status /\ new.client = row.client /\ new.day = row.day
             /\ new.branch = IF b # NoBranch THEN b ELSE row.branch
             /\ new.agent = agent
             /\ new.branch = row.branch /\ row.branch # NoBranch /\ row.branch = row.client =>
                  new.inside = row.fee - agent
<1> DEFINE n == Profits(row, agent)
           to == IF b # NoBranch THEN b ELSE row.branch
           with == WithNets(row, n)
           cost == DeliverCost(row.deal, to)
<1>1. /\ n \in [agent : Nat, inside : Int, forwarded : Int, receiving : Int] /\ n.agent = agent
      /\ row.branch # NoBranch /\ row.branch = row.client => n.inside = row.fee - agent
  BY NetsFacts
<1>2. cost \in Int /\ to \in Branches \cup {NoBranch}
  BY PriceFacts, OrderFacts
<1> HIDE DEF n, cost, to
<1>3. /\ with \in Order /\ with.agent = n.agent /\ with.inside = n.inside
      /\ with.status = row.status /\ with.client = row.client /\ with.day = row.day
  BY <1>1, WithNetsFacts
<1>4. Repriced(row, b, agent) = Moved(with, cost, to)
  BY DEF Repriced, Moved, n, to, cost
<1> HIDE DEF with
<1>5. /\ Moved(with, cost, to) \in Order /\ Moved(with, cost, to).branch = to
      /\ Moved(with, cost, to).agent = with.agent /\ Moved(with, cost, to).inside = with.inside
      /\ Moved(with, cost, to).status = with.status /\ Moved(with, cost, to).client = with.client
      /\ Moved(with, cost, to).day = with.day
  BY <1>2, <1>3, MovedFacts
<1> QED BY <1>1, <1>3, <1>4, <1>5 DEF to

-----------------------------------------------------------------------------
(* Sums of orders *)

\* The sums of a field of a table, as its fold computes them.
FieldSums(h, table, field, S) ==
  h = [T \in SUBSET S |-> IF T = {} THEN 0 ELSE table[Pick(T)][field] + h[T \ {Pick(T)}]]

LEMMA FieldSum ==
  ASSUME NEW table, NEW field, NEW S, IsFiniteSet(S)
  PROVE  (CHOOSE h : FieldSums(h, table, field, S))[S]
           = SumOver([o \in S |-> table[o][field]], S)
<1> DEFINE g == [o \in S |-> table[o][field]]
<1>1. \A T \in SUBSET S : T # {} => g[Pick(T)] = table[Pick(T)][field]
  BY PickFacts
<1>2. \A h : SumsOver(h, g, S) <=> FieldSums(h, table, field, S)
  <2> HIDE DEF g
  <2> QED BY <1>1 DEF SumsOver, FieldSums
<1>3. PICK h : SumsOver(h, g, S) /\ SumOver(g, S) = h[S]
  BY SumIsSum
<1>4. SumsOver(CHOOSE k : FieldSums(k, table, field, S), g, S)
  BY <1>2, <1>3
<1>5. (CHOOSE k : FieldSums(k, table, field, S))[S] = h[S]
  <2> HIDE DEF g
  <2> QED BY <1>3, <1>4, SumsAgree
<1> QED BY <1>3, <1>5

LEMMA TotalIsSum ==
  ASSUME order \in [Orders -> Order], NEW S \in SUBSET Orders,
         NEW field \in {"agent", "inside", "forwarded", "receiving", "fee"}
  PROVE  /\ Total(field, S) = SumOver([o \in S |-> order[o][field]], S)
         /\ Total(field, S) \in Int
<1>1. IsFiniteSet(S)
  BY FiniteAssumption, FS_Subset
<1>2. Total(field, S) = (CHOOSE h : FieldSums(h, order, field, S))[S]
  BY DEF Total, MapThenSumSet, MapThenFoldSet, Pick, FieldSums
<1> DEFINE g == [o \in S |-> order[o][field]]
<1>3. \A o \in S : g[o] \in Int
  BY OrderFacts
<1> HIDE DEF g
<1>4. SumOver(g, S) \in Int
  BY <1>1, <1>3, SumInt
<1> QED BY <1>1, <1>2, <1>4, FieldSum DEF g

\* Figures over rows that stay as they are stay.
LEMMA TotalStays ==
  ASSUME NEW field, NEW S \in SUBSET Orders, \A o \in S : order'[o] = order[o]
  PROVE  Total(field, S)' = Total(field, S)
<1>1. IsFiniteSet(S)
  BY FiniteAssumption, FS_Subset
<1>2. [o \in S |-> order'[o][field]] = [o \in S |-> order[o][field]]
  OBVIOUS
<1>3. Total(field, S) = (CHOOSE h : FieldSums(h, order, field, S))[S]
  BY DEF Total, MapThenSumSet, MapThenFoldSet, Pick, FieldSums
<1>4. Total(field, S)' = (CHOOSE h : FieldSums(h, order', field, S))[S]
  BY DEF Total, MapThenSumSet, MapThenFoldSet, Pick, FieldSums
<1>5. (CHOOSE h : FieldSums(h, order, field, S))[S] = SumOver([o \in S |-> order[o][field]], S)
  BY <1>1, FieldSum
<1>6. (CHOOSE h : FieldSums(h, order', field, S))[S] = SumOver([o \in S |-> order'[o][field]], S)
  BY <1>1, FieldSum
<1> QED BY <1>2, <1>3, <1>4, <1>5, <1>6

LEMMA FiguresStay ==
  ASSUME NEW b, DeliveredOn(1)' = DeliveredOn(1),
         \A o \in DeliveredOn(1) : o \in Orders /\ order'[o] = order[o]
  PROVE  ComputeBranchDayProfit(b, 1)' = ComputeBranchDayProfit(b, 1)
<1> DEFINE S == DeliveredOn(1)
<1>1. /\ Inside(b, S)' = Inside(b, S) /\ JobReceived(b, S)' = JobReceived(b, S)
      /\ JobForwarded(b, S)' = JobForwarded(b, S)
  BY DEF Inside, JobReceived, JobForwarded
<1>2. Inside(b, S) \subseteq S /\ JobReceived(b, S) \subseteq S /\ JobForwarded(b, S) \subseteq S
  BY DEF Inside, JobReceived, JobForwarded
<1>3. ASSUME NEW T \in SUBSET S, NEW field
      PROVE  Total(field, T)' = Total(field, T)
  BY <1>3, TotalStays
<1> HIDE DEF S
<1> QED BY <1>1, <1>2, <1>3 DEF ComputeBranchDayProfit, Figures, S

LEMMA FiguresAreNumbers ==
  ASSUME Rows, NEW b, NEW day
  PROVE  ComputeBranchDayProfit(b, day) \in Profit
<1> DEFINE S == DeliveredOn(day)
<1>1. S \in SUBSET Orders
  BY DEF DeliveredOn, Confirmed, Delivered
<1>2. /\ Inside(b, S) \in SUBSET Orders /\ JobReceived(b, S) \in SUBSET Orders
      /\ JobForwarded(b, S) \in SUBSET Orders
  BY <1>1 DEF Inside, JobReceived, JobForwarded
<1> HIDE DEF S
<1>3. \A T \in SUBSET Orders : /\ Total("agent", T) \in Int /\ Total("inside", T) \in Int
                               /\ Total("forwarded", T) \in Int /\ Total("fee", T) \in Int
                               /\ Total("receiving", T) \in Int
  BY TotalIsSum DEF Rows
<1> QED BY <1>2, <1>3 DEF ComputeBranchDayProfit, Figures, Profit, S

-----------------------------------------------------------------------------
(* Every step keeps ProfitIInv *)

\* An order whose new row fits, or is askew, and that is delivered somewhere if at all.
LEMMA PutKeeps ==
  ASSUME ProfitIInv, NEW o \in Orders, NEW row \in Order, Put(o, row),
         row.status = "delivered" => row.branch # NoBranch /\ row.day \in 1..now,
         row.day = 1 => order[o].day = 1 \/ now = 1,
         askew' \subseteq Orders, askew \ {o} \subseteq askew',
         row.status = "delivered" /\ row.branch = row.client /\ o \notin askew' =>
           row.inside = row.fee - row.agent
  PROVE  ProfitIInv'
<1>1. /\ order' \in [Orders -> Order]
      /\ \A p \in Orders : order'[p] = IF p = o THEN row ELSE order[p]
  BY DEF Put, ProfitIInv, Rows
<1>2. UNCHANGED <<now, daily, todo>> /\ touched' \subseteq Orders /\ writes' \in 0..MaxWrites
  BY PricesAssumption DEF Put, ProfitIInv, Rows
<1>3. \A p \in Delivered' : p \in Orders /\ order'[p].status = "delivered"
  BY DEF Delivered
<1>4. \A p \in Delivered' : p # o => p \in Delivered
  BY <1>1, <1>3 DEF Delivered
<1>5. \A p \in Delivered' : order'[p].branch # NoBranch /\ order'[p].day \in 1..now'
  BY <1>1, <1>2, <1>3, <1>4 DEF ProfitIInv, Rows
<1>6. InsideNetFits'
  BY <1>1, <1>3, <1>4 DEF ProfitIInv, InsideNetFits
<1>7. Rows'
  BY <1>1, <1>2, <1>5 DEF ProfitIInv, Rows
<1>8. DailyIsCurrent'
  <2> SUFFICES ASSUME todo' # {}, touched' = {}, NEW b \in DOMAIN daily'
               PROVE  daily'[b] = ComputeBranchDayProfit(b, 1)'
    BY DEF DailyIsCurrent
  <2>1. touched = {} /\ order[o].day # 1 /\ now = 2
    BY <1>2 DEF Put, ProfitIInv, Rows
  <2>2. row.day # 1
    BY <2>1
  <2>3. DeliveredOn(1)' = DeliveredOn(1) /\ o \notin DeliveredOn(1)
    BY <1>1, <2>1, <2>2 DEF DeliveredOn, Confirmed, Delivered
  <2>4. \A p \in DeliveredOn(1) : p \in Orders /\ order'[p] = order[p]
    BY <1>1, <2>3 DEF DeliveredOn, Confirmed, Delivered
  <2>5. ComputeBranchDayProfit(b, 1)' = ComputeBranchDayProfit(b, 1)
    BY <1>1, <2>3, <2>4, FiguresStay DEF ProfitIInv, Rows
  <2> QED BY <1>2, <2>1, <2>5 DEF ProfitIInv, DailyIsCurrent
<1>9. DailyAreNumbers'
  BY <1>2 DEF ProfitIInv, DailyAreNumbers
<1> QED BY <1>6, <1>7, <1>8, <1>9 DEF ProfitIInv

LEMMA NoOrderFacts == NoOrder \in Order /\ NoOrder.status = "none" /\ NoOrder.day = 0
BY DEF NoOrder, Order

LEMMA CreateKeeps ==
  ASSUME ProfitIInv, NEW o \in Orders, NEW b \in Branches \cup {NoBranch},
         NEW client \in Branches \cup {NoBranch, Abroad}, NEW deal \in BOOLEAN,
         NEW confirmed \in BOOLEAN, Create(o, b, client, deal, confirmed)
  PROVE  ProfitIInv'
<1> DEFINE fee == DeliverCost(deal, Family(b))
           row == [NoOrder EXCEPT !.status = "open", !.branch = b, !.client = client,
                                  !.deal = deal, !.confirmed = confirmed, !.fee = fee]
<1>1. fee \in Int
  BY PriceFacts
<1> HIDE DEF fee
<1>2. row \in Order /\ row.status = "open" /\ row.day = 0
  BY <1>1, NoOrderFacts DEF Order
<1>3. Put(o, row) /\ askew' = askew
  BY DEF Create, fee
<1> HIDE DEF row
<1> QED BY <1>2, <1>3, PutKeeps DEF ProfitIInv, Rows

LEMMA KeptFacts ==
  ASSUME NEW row \in Order
  PROVE  Kept(row) \in Int
BY OrderFacts DEF Kept

\* A new row with another branch or fee is askew; one with other nets no more.
LEMMA ShiftedFacts ==
  ASSUME ProfitIInv, NEW o \in Orders, NEW row, Shifted(o, row)
  PROVE  /\ askew' \subseteq Orders /\ askew \ {o} \subseteq askew'
         /\ o \notin askew' => /\ row.branch = order[o].branch /\ row.fee = order[o].fee
                               /\ o \in askew => <<row.agent, row.inside>>
                                                   # <<order[o].agent, order[o].inside>>
BY DEF Shifted, ProfitIInv, Rows

LEMMA UpdateOrderKeeps ==
  ASSUME ProfitIInv, NEW o \in Orders, NEW b \in Branches \cup {NoBranch}, NEW agent \in AgentCosts,
         NEW status \in {"same", "open", "delivered", "returned"}, NEW confirmed \in BOOLEAN,
         UpdateOrder(o, status, b, agent, confirmed)
  PROVE  ProfitIInv'
<1> DEFINE old   == order[o]
           costs == b # NoBranch \/ status = "delivered"
           base  == IF costs THEN Repriced(old, b, agent) ELSE [old EXCEPT !.fee = Kept(old)]
           fee   == IF status = "returned" THEN 0 ELSE base.fee
           to    == IF status = "same" THEN base.status ELSE status
           day   == IF status = "delivered" THEN now ELSE base.day
           row   == Updated(base, Kept(old), fee, to, confirmed, day)
<1>1. old \in Order /\ agent \in Nat /\ Kept(old) \in Int /\ now \in 1..2
  BY KeptFacts, PricesAssumption DEF ProfitIInv, Rows
<1>2. Put(o, row) /\ Shifted(o, row) /\ (costs => Priced(old, b))
  BY DEF UpdateOrder, Updated
<1>3. /\ base \in Order /\ base.status = old.status /\ base.client = old.client
      /\ base.day = old.day
      /\ costs => /\ base.branch = IF b # NoBranch THEN b ELSE old.branch
                  /\ base.agent = agent
                  /\ base.branch = old.branch /\ old.branch # NoBranch /\ old.branch = old.client =>
                       base.inside = old.fee - agent
      /\ ~costs => /\ base.branch = old.branch /\ base.agent = old.agent
                   /\ base.inside = old.inside
  <2>1. CASE costs
    BY <1>1, <2>1, RepricedFacts
  <2>2. CASE ~costs
    <3>1. base = [old EXCEPT !.fee = Kept(old)]
      BY <2>2
    <3> QED BY <1>1, <2>2, <3>1 DEF Order
  <2> QED BY <2>1, <2>2
<1> HIDE DEF base
<1>9. fee \in Int /\ to \in {"none", "open", "delivered", "returned"} /\ day \in 0..2
  BY <1>1, <1>3, OrderFacts
<1>4. /\ row \in Order /\ row.branch = base.branch /\ row.client = base.client
      /\ row.agent = base.agent /\ row.inside = base.inside
      /\ row.status = IF status = "same" THEN base.status ELSE status
      /\ row.day = IF status = "delivered" THEN now ELSE base.day
  <2> HIDE DEF fee, to, day, old
  <2>0. LET new == Updated(base, Kept(old), fee, to, confirmed, day)
        IN  /\ new \in Order /\ new.branch = base.branch /\ new.client = base.client
            /\ new.agent = base.agent /\ new.inside = base.inside
            /\ new.status = to /\ new.day = day
    <3>1. UpdatedArguments(base, Kept(old), fee, to, confirmed, day)
      BY <1>1, <1>3, <1>9 DEF UpdatedArguments
    <3> HIDE DEF row
    <3> QED BY <3>1, UpdatedFacts
  <2>1. /\ row \in Order /\ row.branch = base.branch /\ row.client = base.client
        /\ row.agent = base.agent /\ row.inside = base.inside
        /\ row.status = to /\ row.day = day
    BY <2>0
  <2> QED BY <2>1 DEF to, day
<1> HIDE DEF row, old
<1>5. /\ askew' \subseteq Orders /\ askew \ {o} \subseteq askew'
      /\ o \notin askew' => /\ row.branch = old.branch /\ row.fee = old.fee
                            /\ o \in askew => <<row.agent, row.inside>> # <<old.agent, old.inside>>
  BY <1>2, ShiftedFacts DEF old
<1>6. ASSUME row.status = "delivered"
      PROVE  costs \/ (old.status = "delivered" /\ o \in Delivered)
  BY <1>3, <1>4, <1>6 DEF Delivered, old
<1>7. ASSUME row.status = "delivered"
      PROVE  row.branch # NoBranch /\ row.day \in 1..now
  <2>1. CASE costs
    <3>1. row.branch # NoBranch
      BY <1>2, <1>3, <1>4, <2>1 DEF Priced
    <3>2. row.day \in 1..now
      <4>1. CASE status = "delivered"
        BY <1>1, <1>4, <4>1
      <4>2. CASE status # "delivered"
        <5>1. o \in Delivered
          BY <1>3, <1>4, <1>7, <4>2 DEF Delivered, old
        <5> QED BY <1>3, <1>4, <4>2, <5>1 DEF ProfitIInv, Rows, old
      <4> QED BY <4>1, <4>2
    <3> QED BY <3>1, <3>2
  <2>2. CASE ~costs
    BY <1>3, <1>4, <1>6, <1>7, <2>2 DEF ProfitIInv, Rows, old
  <2> QED BY <2>1, <2>2
<1>8. ASSUME row.status = "delivered", row.branch = row.client, o \notin askew'
      PROVE  row.inside = row.fee - row.agent
  <2>1. row.branch = old.branch /\ row.fee = old.fee /\ old.branch = old.client
    BY <1>3, <1>4, <1>5, <1>8
  <2>2. CASE costs
    BY <1>3, <1>4, <1>7, <1>8, <2>1, <2>2
  <2>3. CASE ~costs
    <3>1. o \notin askew
      BY <1>3, <1>4, <1>5, <1>8, <2>3
    <3>2. old.inside = old.fee - old.agent
      BY <1>6, <1>8, <2>1, <2>3, <3>1 DEF ProfitIInv, InsideNetFits, old
    <3> QED BY <1>3, <1>4, <2>1, <2>3, <3>2
  <2> QED BY <2>2, <2>3
<1>10. row.day = 1 => order[o].day = 1 \/ now = 1
  BY <1>3, <1>4 DEF old
<1> QED BY <1>2, <1>4, <1>5, <1>7, <1>8, <1>10, PutKeeps

LEMMA UpdateOrderForClientKeeps ==
  ASSUME ProfitIInv, NEW o \in Orders, NEW b \in Branches \cup {NoBranch}, NEW agent \in AgentCosts,
         UpdateOrderForClient(o, b, agent)
  PROVE  ProfitIInv'
<1> DEFINE old  == order[o]
           base == IF b # NoBranch THEN Repriced(old, b, agent) ELSE [old EXCEPT !.fee = Kept(old)]
           row  == [base EXCEPT !.oldFee = Kept(old)]
<1>1. old \in Order /\ agent \in Nat /\ Kept(old) \in Int /\ old.status = "open"
  BY KeptFacts, PricesAssumption DEF ProfitIInv, Rows, UpdateOrderForClient
<1>2. Put(o, row) /\ Shifted(o, row)
  BY DEF UpdateOrderForClient
<1>3. base \in Order /\ base.status = "open" /\ base.day = old.day
  <2>1. CASE b # NoBranch
    BY <1>1, <2>1, RepricedFacts
  <2>2. CASE b = NoBranch
    <3>1. base = [old EXCEPT !.fee = Kept(old)]
      BY <2>2
    <3> QED BY <1>1, <3>1 DEF Order
  <2> QED BY <2>1, <2>2
<1> HIDE DEF base
<1>4. row \in Order /\ row.status = "open" /\ row.day = old.day
  BY <1>1, <1>3 DEF Order
<1> HIDE DEF row
<1>5. askew' \subseteq Orders /\ askew \ {o} \subseteq askew'
  BY <1>2, ShiftedFacts
<1> QED BY <1>2, <1>4, <1>5, PutKeeps

LEMMA DeliveredFacts ==
  ASSUME ProfitIInv, NEW o \in Orders, order[o].status = "delivered"
  PROVE  /\ order[o] \in Order /\ order[o].branch # NoBranch /\ order[o].day \in 1..now
         /\ o \notin askew /\ order[o].branch = order[o].client =>
              order[o].inside = order[o].fee - order[o].agent
BY DEF ProfitIInv, Rows, InsideNetFits, Delivered

LEMMA ClientReportKeeps ==
  ASSUME ProfitIInv, NEW o \in Orders, NEW given \in FormCosts, ClientReport(o, given)
  PROVE  ProfitIInv'
<1> DEFINE old == order[o]
           fee == ClientFee(old, given)
           inside == IF old.branch = old.client THEN fee - old.agent ELSE 0
           settled == old.settled \cup {"client"}
           row == ClientPaid(old, fee, settled, inside)
<1>1. old \in Order /\ old.status = "delivered" /\ old.branch # NoBranch /\ old.day \in 1..now
  BY DeliveredFacts DEF ClientReport
<1>2. fee \in Nat
  BY DealFacts, PricesAssumption DEF ClientFee
<1>3. Put(o, row) /\ askew' = askew \ {o}
  BY DEF ClientReport, ClientPaid
<1> HIDE DEF fee
<1>4. inside \in Int /\ settled \in SUBSET {"client", "received", "forwarded"}
  BY <1>1, <1>2, OrderFacts DEF Order
<1>5. /\ row \in Order /\ row.status = "delivered" /\ row.branch = old.branch
      /\ row.day = old.day /\ row.client = old.client /\ row.fee = fee /\ row.agent = old.agent
      /\ row.inside = inside
  <2> HIDE DEF inside, settled, old
  <2> QED BY <1>1, <1>2, <1>4, ClientPaidFacts
<1> HIDE DEF row
<1> QED BY <1>1, <1>3, <1>5, PutKeeps DEF ProfitIInv, Rows

LEMMA AgentReportKeeps ==
  ASSUME ProfitIInv, NEW o \in Orders, NEW given \in FormCosts, NEW agent \in AgentCosts,
         AgentReport(o, given, agent)
  PROVE  ProfitIInv'
<1> DEFINE old == order[o]
           net == AgentNet(old, given, agent)
           row == [old EXCEPT !.agent = net]
<1>1. old \in Order /\ old.status = "delivered" /\ old.branch # NoBranch /\ old.day \in 1..now
  BY DeliveredFacts DEF AgentReport
<1>2. net \in Int
  BY DealFacts, PricesAssumption DEF AgentNet
<1>3. Put(o, row) /\ askew' = askew \cup {o}
  BY DEF AgentReport
<1> HIDE DEF net
<1>4. row \in Order /\ row.branch = old.branch /\ row.day = old.day
  BY <1>1, <1>2 DEF Order
<1> HIDE DEF row
<1> QED BY <1>1, <1>3, <1>4, PutKeeps DEF ProfitIInv, Rows

LEMMA BranchReportKeeps ==
  ASSUME ProfitIInv, NEW o \in Orders, NEW type \in {"received", "forwarded"},
         NEW given \in FormCosts, NEW forChild \in BOOLEAN, BranchReport(o, type, given, forChild)
  PROVE  ProfitIInv'
<1> DEFINE old  == order[o]
           cost == BranchNet(old, type, given)
           receiving == IF type = "received" THEN cost ELSE old.receiving
           forwarded == IF type = "forwarded" THEN cost ELSE old.forwarded
           settled == IF forChild THEN old.settled ELSE old.settled \cup {type}
           row  == BranchPaid(old, receiving, forwarded, settled)
<1>1. old \in Order /\ old.status = "delivered" /\ old.branch # NoBranch /\ old.day \in 1..now
  BY DeliveredFacts DEF BranchReport
<1>2. cost \in Nat
  BY DealFacts, PriceFacts, PricesAssumption DEF BranchNet
<1>3. Put(o, row) /\ askew' = askew
  BY DEF BranchReport, BranchPaid
<1> HIDE DEF cost
<1>4. /\ row \in Order /\ row.branch = old.branch /\ row.day = old.day /\ row.client = old.client
      /\ row.fee = old.fee /\ row.agent = old.agent /\ row.inside = old.inside
  <2>1. /\ receiving \in Int /\ forwarded \in Int
        /\ settled \in SUBSET {"client", "received", "forwarded"}
    BY <1>1, <1>2, OrderFacts DEF Order
  <2> HIDE DEF receiving, forwarded, settled, old
  <2> QED BY <1>1, <2>1, BranchPaidFacts
<1> HIDE DEF row
<1>5. o \notin askew /\ old.branch = old.client => old.inside = old.fee - old.agent
  BY <1>1, DeliveredFacts
<1> QED BY <1>1, <1>3, <1>4, <1>5, PutKeeps DEF ProfitIInv, Rows

LEMMA HideReportKeeps ==
  ASSUME ProfitIInv, NEW o \in Orders, NEW kind \in {"client", "received", "forwarded"},
         HideReport(o, kind)
  PROVE  ProfitIInv'
<1> DEFINE old == order[o]
           row == [old EXCEPT !.settled = @ \ {kind}]
<1>1. old \in Order
  BY DEF ProfitIInv, Rows
<1>2. Put(o, row) /\ askew' = askew
  BY DEF HideReport
<1>3. /\ row \in Order /\ row.branch = old.branch /\ row.day = old.day /\ row.client = old.client
      /\ row.fee = old.fee /\ row.agent = old.agent /\ row.inside = old.inside
      /\ row.status = old.status
  BY <1>1 DEF Order
<1> HIDE DEF row
<1>4. old.status = "delivered" =>
        /\ old.branch # NoBranch /\ old.day \in 1..now
        /\ o \notin askew /\ old.branch = old.client => old.inside = old.fee - old.agent
  BY DeliveredFacts
<1> QED BY <1>2, <1>3, <1>4, PutKeeps DEF ProfitIInv, Rows

\* The job's sums over an unchanged table.
LEMMA SumsStay ==
  ASSUME UNCHANGED order, NEW b
  PROVE  Delivered' = Delivered /\ ComputeBranchDayProfit(b, 1)' = ComputeBranchDayProfit(b, 1)
<1>1. Delivered' = Delivered /\ DeliveredOn(1)' = DeliveredOn(1)
  BY DEF Delivered, Confirmed, DeliveredOn
<1>2. \A o \in DeliveredOn(1) : o \in Orders /\ order'[o] = order[o]
  BY DEF Delivered, Confirmed, DeliveredOn
<1> QED BY <1>1, <1>2, FiguresStay

LEMMA MidnightKeeps == ProfitIInv /\ Midnight => ProfitIInv'
<1> SUFFICES ASSUME ProfitIInv, Midnight PROVE ProfitIInv'
  OBVIOUS
<1>1. now' = 2 /\ now = 1 /\ UNCHANGED <<order, daily, writes, askew, touched>> /\ todo' = Branches
  BY DEF Midnight
<1>2. Delivered' = Delivered
  BY <1>1, SumsStay
<1>3. DOMAIN daily = {}
  <2>1. DOMAIN daily \cup todo # {} => now = 2
    BY DEF ProfitIInv, Rows
  <2>2. DOMAIN daily \cup todo = {}
    BY <1>1, <2>1
  <2> QED BY <2>2
<1>4. Rows' /\ InsideNetFits'
  BY <1>1, <1>2 DEF ProfitIInv, Rows, InsideNetFits
<1>5. DailyIsCurrent' /\ DailyAreNumbers'
  BY <1>1, <1>3 DEF DailyIsCurrent, DailyAreNumbers
<1> QED BY <1>4, <1>5 DEF ProfitIInv

LEMMA SnapshotBranchKeeps ==
  ASSUME ProfitIInv, NEW b \in Branches, SnapshotBranch(b)
  PROVE  ProfitIInv'
<1>1. /\ DOMAIN daily' = DOMAIN daily \cup {b} /\ todo' = todo \ {b} /\ b \in todo
      /\ UNCHANGED <<order, now, writes, askew, touched>>
      /\ daily'[b] = ComputeBranchDayProfit(b, 1)
      /\ \A c \in DOMAIN daily : c # b => daily'[c] = daily[c]
  BY DEF SnapshotBranch
<1>2. Delivered' = Delivered
  BY <1>1, SumsStay
<1>3. Rows' /\ InsideNetFits'
  BY <1>1, <1>2 DEF ProfitIInv, Rows, InsideNetFits
<1>4. DailyIsCurrent'
  <2> SUFFICES ASSUME todo' # {}, touched' = {}, NEW c \in DOMAIN daily'
               PROVE  daily'[c] = ComputeBranchDayProfit(c, 1)'
    BY DEF DailyIsCurrent
  <2>1. ComputeBranchDayProfit(c, 1)' = ComputeBranchDayProfit(c, 1)
    BY <1>1, SumsStay
  <2>2. c # b => c \in DOMAIN daily /\ daily[c] = ComputeBranchDayProfit(c, 1)
    BY <1>1 DEF ProfitIInv, DailyIsCurrent
  <2> QED BY <1>1, <2>1, <2>2
<1>5. DailyAreNumbers'
  <2>1. ComputeBranchDayProfit(b, 1) \in Profit
    BY FiguresAreNumbers DEF ProfitIInv
  <2> QED BY <1>1, <2>1 DEF ProfitIInv, DailyAreNumbers
<1> QED BY <1>3, <1>4, <1>5 DEF ProfitIInv

\* The job gives up, or nothing happens.
LEMMA NothingWrittenKeeps ==
  ASSUME ProfitIInv, UNCHANGED <<order, now, daily, writes, askew, touched>>,
         todo' = {} \/ todo' = todo
  PROVE  ProfitIInv'
<1>1. Delivered' = Delivered
  BY SumsStay
<1>2. Rows' /\ InsideNetFits'
  BY <1>1 DEF ProfitIInv, Rows, InsideNetFits
<1>3. DailyIsCurrent'
  <2> SUFFICES ASSUME todo' # {}, touched' = {}, NEW c \in DOMAIN daily'
               PROVE  daily'[c] = ComputeBranchDayProfit(c, 1)'
    BY DEF DailyIsCurrent
  <2>1. ComputeBranchDayProfit(c, 1)' = ComputeBranchDayProfit(c, 1)
    BY SumsStay
  <2> QED BY <2>1 DEF ProfitIInv, DailyIsCurrent
<1>4. DailyAreNumbers'
  BY DEF ProfitIInv, DailyAreNumbers
<1> QED BY <1>2, <1>3, <1>4 DEF ProfitIInv

LEMMA ProfitInitIInv == ProfitInit => ProfitIInv
<1> SUFFICES ASSUME ProfitInit PROVE ProfitIInv
  OBVIOUS
<1>1. order \in [Orders -> Order] /\ Delivered = {}
  BY NoOrderFacts DEF ProfitInit, Delivered
<1>2. Rows /\ InsideNetFits
  BY <1>1, PricesAssumption DEF ProfitInit, Rows, InsideNetFits
<1>3. DailyIsCurrent /\ DailyAreNumbers
  BY DEF ProfitInit, DailyIsCurrent, DailyAreNumbers
<1> QED BY <1>2, <1>3 DEF ProfitIInv

LEMMA ProfitNextIInv == ProfitIInv /\ [ProfitNext]_profitVars => ProfitIInv'
<1> SUFFICES ASSUME ProfitIInv, [ProfitNext]_profitVars PROVE ProfitIInv'
  OBVIOUS
<1>1. CASE DailyJobFails
  BY <1>1, NothingWrittenKeeps DEF DailyJobFails
<1>2. CASE UNCHANGED profitVars
  BY <1>2, NothingWrittenKeeps DEF profitVars
<1>3. \A o \in Orders : order[o].confirmed \in BOOLEAN
  BY OrderFacts DEF ProfitIInv, Rows
<1> QED BY <1>1, <1>2, <1>3, MidnightKeeps, SnapshotBranchKeeps, CreateKeeps, UpdateOrderKeeps,
           UpdateOrderForClientKeeps, ClientReportKeeps, AgentReportKeeps, BranchReportKeeps,
           HideReportKeeps
        DEF ProfitNext, Rest

\* ProfitIInv holds in every reachable state.
THEOREM ProfitInductive == ProfitSpec => []ProfitIInv
BY ProfitInitIInv, ProfitNextIInv, PTL DEF ProfitSpec

\* An order delivered at the client's own branch leaves that branch its fee less the
\* agent's share, as long as no agent's report, new branch or new fee came after its nets.
THEOREM InsideNetFitsHolds == ProfitSpec => []InsideNetFits
<1>1. ProfitIInv => InsideNetFits
  BY DEF ProfitIInv
<1> QED BY <1>1, ProfitInductive, PTL

-----------------------------------------------------------------------------
(* The sums over the same orders *)

LEMMA FamilyFacts ==
  /\ Family(NoBranch) = NoBranch /\ Family(Abroad) = Abroad /\ Family(Main) = Main
  /\ \A b \in Branches : Family(b) \in Branches
  /\ \A f \in Branches, b \in Branches \cup {NoBranch, Abroad} :
       ParentOf[f] = NoBranch => (b \in BranchScope(f) <=> Family(b) = f)
BY MainAssumption, NullAssumption, FamilyAssumption DEF Family, BranchScope

LEMMA DeliveredRows ==
  ASSUME Rows, NEW o \in Delivered
  PROVE  /\ o \in Orders
         /\ order[o].branch \in Branches /\ order[o].branch # NoBranch
         /\ order[o].client \in Branches \cup {NoBranch, Abroad}
BY OrderFacts DEF Rows, Delivered

LEMMA JobFitsHolds ==
  ASSUME Rows, NEW day \in 1..2
  PROVE  JobFits(day)
<1> DEFINE S == DeliveredOn(day)
<1> SUFFICES ASSUME \A o \in S : order[o].client # NoBranch, NEW b \in Branches
             PROVE  /\ ComputeBranchDayProfit(b, day) = ComputeProfit(b, S)
                    /\ ProfitOrders(b, "received", S) = JobReceived(b, S)
                    /\ ProfitOrders(b, "forwarded", S) = JobForwarded(b, S)
                    /\ ProfitOrders(b, "inside", S) = Inside(b, S)
  BY DEF JobFits
<1>1. \A o \in S : order[o].branch # NoBranch /\ order[o].client # NoBranch
  BY DeliveredRows DEF DeliveredOn, Confirmed
<1>2. JobReceived(b, S) = Received(b, S) /\ JobForwarded(b, S) = Forwarded(b, S)
  BY <1>1 DEF JobReceived, Received, JobForwarded, Forwarded
<1>3. ProfitOrders(b, "received", S) = Received(b, S)
  BY DEF ProfitOrders, Received
<1>4. ProfitOrders(b, "forwarded", S) = Forwarded(b, S)
  BY DEF ProfitOrders, Forwarded
<1>5. ProfitOrders(b, "inside", S) = Inside(b, S)
  BY DEF ProfitOrders, InsideOrders, Inside
<1>6. ComputeBranchDayProfit(b, day) = ComputeProfit(b, S)
  BY <1>2 DEF ComputeBranchDayProfit, ComputeProfit
<1> HIDE DEF S
<1> QED BY <1>2, <1>3, <1>4, <1>5, <1>6

\* The list of a branch has the orders of its total.
LEMMA ListIsTotal ==
  ASSUME Rows, NEW type \in Types, NEW f \in Branches \cup {NoBranch}, NEW o \in Delivered,
         type = "allForMyBranch" => ~OfChild(o)
  PROVE  o \in OrdersByBranch(type, f) <=> o \in BranchTotals(type, f)
<1>1. CASE type = "forMainBranch"
  BY <1>1 DEF OrdersByBranch, BranchTotals, TotalForMain, CrossBranch, StillOwed, ReportBranch,
              Confirmed
<1>2. CASE type = "forMyBranch"
  BY <1>2 DEF OrdersByBranch, BranchTotals, CrossBranch, StillOwed, ReportBranch, Confirmed
<1>3. CASE type = "allForMyBranch"
  BY <1>3 DEF OrdersByBranch, BranchTotals, CrossBranch, StillOwed, ReportBranch, OtherFamily,
              OfChild, Confirmed
<1> QED BY <1>1, <1>2, <1>3 DEF Types

\* Everything the company's figure counts, one branch's total counts.
LEMMA CompanyIsBranches ==
  ASSUME Rows, NEW type \in Types
  PROVE  Statistics(Main, TRUE, type)
           = UNION {BranchTotals(type, f) : f \in Branches \cup {NoBranch}}
<1>1. ASSUME NEW o \in Delivered
      PROVE  o \in Statistics(Main, TRUE, type)
               <=> \E f \in Branches \cup {NoBranch} : o \in BranchTotals(type, f)
  <2>1. /\ Family(order[o].branch) \in Branches /\ order[o].branch # NoBranch
        /\ order[o].client # Abroad => Family(order[o].client) \in Branches \cup {NoBranch}
    BY <1>1, DeliveredRows, FamilyFacts
  <2>2. CASE type = "forMainBranch"
    BY <1>1, <2>1, <2>2 DEF Statistics, ForMainBranch, BranchTotals, TotalForMain, Confirmed
  <2>3. CASE type = "forMyBranch"
    BY <1>1, <2>1, <2>3 DEF Statistics, ForMyBranch, BranchTotals, Confirmed
  <2>4. CASE type = "allForMyBranch"
    BY <1>1, <2>1, <2>4 DEF Statistics, AllForMyBranch, BranchTotals, Confirmed
  <2> QED BY <2>2, <2>3, <2>4 DEF Types
<1>2. \A o \in Statistics(Main, TRUE, type) : o \in Delivered
  BY DEF Statistics, ForMainBranch, ForMyBranch, AllForMyBranch, Types, Confirmed
<1>3. \A f : \A o \in BranchTotals(type, f) : o \in Delivered
  BY DEF BranchTotals, TotalForMain, Confirmed
<1> QED BY <1>1, <1>2, <1>3

\* What a family is shown itself, Baghdad's own deliveries and orders nobody has
\* confirmed aside, is its total.
LEMMA FamilyIsShown ==
  ASSUME Rows, NEW type \in Types, NEW f \in Branches \ {Main}, ParentOf[f] = NoBranch
  PROVE  {o \in Statistics(f, FALSE, type) \cap (IF type = "forMainBranch" THEN Confirmed
                                                  ELSE Orders) : ~OwnInBaghdad(f, o)}
           = {o \in BranchTotals(type, f) : order[o].client # NoBranch}
<1>1. ASSUME NEW o \in Delivered
      PROVE  (/\ o \in Statistics(f, FALSE, type) /\ ~OwnInBaghdad(f, o)
              /\ type = "forMainBranch" => o \in Confirmed)
               <=> o \in BranchTotals(type, f) /\ order[o].client # NoBranch
  <2>1. /\ order[o].branch # NoBranch
        /\ order[o].branch \in BranchScope(f) <=> Family(order[o].branch) = f
        /\ order[o].client \in BranchScope(f) <=> Family(order[o].client) = f
        /\ Family(Abroad) = Abroad /\ Family(NoBranch) = NoBranch
        /\ f \notin {NoBranch, Abroad, Main}
    BY <1>1, DeliveredRows, FamilyFacts, NullAssumption
  <2>2. OwnInBaghdad(f, o) => Family(order[o].branch) = Family(order[o].client)
    BY DEF OwnInBaghdad
  <2>3. CASE type = "forMainBranch"
    BY <1>1, <2>1, <2>2, <2>3
    DEF Statistics, ForMainBranch, BranchTotals, TotalForMain, OtherFamily, Confirmed
  <2>4. CASE type = "forMyBranch"
    BY <1>1, <2>1, <2>2, <2>4 DEF Statistics, ForMyBranch, BranchTotals, OtherFamily,
        Confirmed
  <2>5. CASE type = "allForMyBranch"
    BY <1>1, <2>1, <2>2, <2>5 DEF Statistics, AllForMyBranch, BranchTotals,
        OtherFamily, Confirmed
  <2> QED BY <2>3, <2>4, <2>5 DEF Types
<1>2. \A o \in Statistics(f, FALSE, type) : o \in Delivered
  BY DEF Statistics, ForMainBranch, ForMyBranch, AllForMyBranch, Types, Confirmed
<1>3. \A o \in BranchTotals(type, f) : o \in Delivered
  BY DEF BranchTotals, TotalForMain, Confirmed
<1>4. \A o \in Delivered : o \in Orders
  BY DEF Delivered
<1> QED BY <1>1, <1>2, <1>3, <1>4

\* Each figure has the list of its orders: the job's and the screen's, a branch's total,
\* the company's and the branch's own.
THEOREM ListsMatchTotalsHolds == ProfitSpec => []ListsMatchTotals
<1>1. ProfitIInv => ListsMatchTotals
  <2> SUFFICES ASSUME Rows PROVE ListsMatchTotals
    BY DEF ProfitIInv
  <2>1. \A day \in {order[o].day : o \in Confirmed} : JobFits(day)
    <3>1. \A o \in Confirmed : order[o].day \in 1..2
      BY DEF Rows, Confirmed
    <3> QED BY <3>1, JobFitsHolds
  <2>2. ASSUME NEW type \in Types, NEW f \in Branches \cup {NoBranch}
        PROVE  LET Shown == IF type = "allForMyBranch" THEN {o \in Orders : ~OfChild(o)}
                            ELSE Orders
               IN  OrdersByBranch(type, f) \cap Shown = BranchTotals(type, f) \cap Shown
    <3>1. /\ \A o \in OrdersByBranch(type, f) : o \in Delivered
          /\ \A o \in BranchTotals(type, f) : o \in Delivered
      BY DEF OrdersByBranch, BranchTotals, TotalForMain, Confirmed
    <3> QED BY <3>1, ListIsTotal
  <2> QED BY <2>1, <2>2, CompanyIsBranches, FamilyIsShown DEF ListsMatchTotals
<1> QED BY <1>1, ProfitInductive, PTL

\* Where no branch report settled it, an order that one branch owes the main branch and it
\* owes another branch for is one it counts a profit on, or has a client without a branch.
THEOREM ProfitIsOwedHolds == ProfitSpec => []ProfitIsOwed
<1>1. ProfitIInv => ProfitIsOwed
  <2> SUFFICES ASSUME Rows PROVE ProfitIsOwed
    BY DEF ProfitIInv
  <2> DEFINE open == {o \in Confirmed : order[o].settled \cap {"received", "forwarded"} = {}}
             owed == Statistics(Main, TRUE, "forMainBranch")
                       \cap Statistics(Main, TRUE, "allForMyBranch")
             earned == Inside(Main, open) \cup {p \in open : order[p].client = NoBranch}
  <2>1. ASSUME NEW o \in open
        PROVE  o \in owed <=> /\ o \in earned /\ Family(order[o].client) # Main
                              /\ order[o].client # Abroad /\ OtherFamily(o)
    <3>1. /\ o \in Delivered /\ o \in Confirmed /\ "received" \notin order[o].settled
          /\ "forwarded" \notin order[o].settled /\ order[o].branch # NoBranch
      BY DeliveredRows DEF Confirmed
    <3>2. o \in owed <=> /\ Family(order[o].client) # Main /\ order[o].client # Abroad
                         /\ OtherFamily(o)
      BY <3>1 DEF Statistics, ForMainBranch, AllForMyBranch, Confirmed
    <3>3. Family(order[o].client) # Main /\ OtherFamily(o) => o \in earned
      BY <3>1, FamilyFacts DEF Inside, OtherFamily
    <3> QED BY <3>2, <3>3
  <2>2. earned \subseteq open
    BY DEF Inside
  <2> QED BY <2>1, <2>2 DEF ProfitIsOwed
<1> QED BY <1>1, ProfitInductive, PTL

-----------------------------------------------------------------------------
(* The rows of a day add up *)

\* What branch b has of order o, by the three figures it may be in.
InsideShare(b, S) ==
  [o \in S |-> IF o \notin Inside(b, S) THEN 0
               ELSE IF b = Main THEN order[o].forwarded - order[o].receiving
               ELSE order[o].inside]

ReceivedShare(b, S) ==
  [o \in S |-> IF o \in JobReceived(b, S) THEN order[o].receiving - order[o].agent ELSE 0]

ForwardedShare(b, S) ==
  [o \in S |-> IF o \notin JobForwarded(b, S) THEN 0
               ELSE IF b = Main THEN order[o].fee - order[o].receiving
               ELSE order[o].fee - order[o].forwarded]

Share(b, S) ==
  [o \in S |-> InsideShare(b, S)[o] + (ReceivedShare(b, S)[o] + ForwardedShare(b, S)[o])]

\* The fields that are summed.
Fields == {"agent", "inside", "forwarded", "receiving", "fee"}

LEMMA FieldsFacts ==
  /\ "agent" \in Fields /\ "inside" \in Fields /\ "forwarded" \in Fields
  /\ "receiving" \in Fields /\ "fee" \in Fields
BY DEF Fields

LEMMA NumbersInFields ==
  ASSUME Rows, NEW o \in Orders, NEW field \in Fields
  PROVE  order[o][field] \in Int
BY OrderFacts DEF Rows, Fields

\* A figure that is a difference, or a sum, of totals over some of the orders.
LEMMA TotalOfPart ==
  ASSUME Rows, NEW S \in SUBSET Orders, NEW P \in SUBSET S,
         NEW field \in Fields,
         NEW k, \A o \in S : k[o] = IF o \in P THEN order[o][field] ELSE 0
  PROVE  Total(field, P) = SumOver(k, S)
<1>1. IsFiniteSet(S) /\ IsFiniteSet(P) /\ P \in SUBSET Orders
  BY FiniteAssumption, FS_Subset
<1> DEFINE g == [o \in S |-> order[o][field]]
           gp == [o \in P |-> order[o][field]]
<1>2. \A o \in S : g[o] \in Int /\ g[o] = order[o][field]
  BY NumbersInFields
<1>3. \A o \in P : g[o] \in Int /\ gp[o] = g[o]
  BY <1>2
<1>4. Total(field, P) = SumOver(gp, P)
  BY <1>1, TotalIsSum DEF Rows, Fields
<1> HIDE DEF g, gp
<1>5. SumOver(gp, P) = SumOver(g, P)
  BY <1>1, <1>3, SumSame
<1>6. \A o \in S : g[o] \in Int /\ k[o] = IF o \in P THEN g[o] ELSE 0
  BY <1>2
<1>7. SumOver(g, P) = SumOver(k, S)
  BY <1>1, <1>6, SumPart
<1> QED BY <1>4, <1>5, <1>7

LEMMA DifferenceOfPart ==
  ASSUME Rows, NEW S \in SUBSET Orders, NEW P \in SUBSET S,
         NEW field \in Fields,
         NEW less \in Fields,
         NEW h, \A o \in S : h[o] = IF o \in P THEN order[o][field] - order[o][less] ELSE 0
  PROVE  Total(field, P) - Total(less, P) = SumOver(h, S)
<1> DEFINE whole == [o \in S |-> IF o \in P THEN order[o][field] ELSE 0]
           gone == [o \in S |-> IF o \in P THEN order[o][less] ELSE 0]
<1>1. \A o \in S : /\ whole[o] \in Int /\ gone[o] \in Int /\ h[o] \in Int
                   /\ whole[o] = h[o] + gone[o]
                   /\ whole[o] = IF o \in P THEN order[o][field] ELSE 0
                   /\ gone[o] = IF o \in P THEN order[o][less] ELSE 0
  <2> SUFFICES ASSUME NEW o \in S
               PROVE  /\ whole[o] \in Int /\ gone[o] \in Int /\ h[o] \in Int
                      /\ whole[o] = h[o] + gone[o]
                      /\ whole[o] = IF o \in P THEN order[o][field] ELSE 0
                      /\ gone[o] = IF o \in P THEN order[o][less] ELSE 0
    OBVIOUS
  <2>1. order[o][field] \in Int /\ order[o][less] \in Int
    BY NumbersInFields
  <2> QED BY <2>1
<1> HIDE DEF whole, gone
<1>2. IsFiniteSet(S)
  BY FiniteAssumption, FS_Subset
<1>3. SumOver(whole, S) = SumOver(h, S) + SumOver(gone, S)
  BY <1>1, <1>2, SumPlus
<1>4. Total(field, P) = SumOver(whole, S)
  <2>1. \A o \in S : whole[o] = IF o \in P THEN order[o][field] ELSE 0
    BY <1>1
  <2> QED BY <2>1, TotalOfPart
<1>6. Total(less, P) = SumOver(gone, S)
  <2>1. \A o \in S : gone[o] = IF o \in P THEN order[o][less] ELSE 0
    BY <1>1
  <2> QED BY <2>1, TotalOfPart
<1>5. SumOver(h, S) \in Int /\ SumOver(gone, S) \in Int
  BY <1>1, <1>2, SumInt
<1> QED BY <1>3, <1>4, <1>5, <1>6

\* What the job writes for a branch is its share of the orders.
LEMMA RowIsShare ==
  ASSUME Rows, NEW b \in Branches, NEW S \in SUBSET Orders
  PROVE  LET row == Figures(b, Inside(b, S), JobReceived(b, S), JobForwarded(b, S))
         IN  /\ row.inside + row.received + row.forwarded = SumOver(Share(b, S), S)
             /\ \A o \in S : Share(b, S)[o] \in Int
<1> DEFINE row == Figures(b, Inside(b, S), JobReceived(b, S), JobForwarded(b, S))
           in == InsideShare(b, S)
           got == ReceivedShare(b, S)
           sent == ForwardedShare(b, S)
           rest == [o \in S |-> got[o] + sent[o]]
<1>1. /\ Inside(b, S) \in SUBSET S /\ JobReceived(b, S) \in SUBSET S
      /\ JobForwarded(b, S) \in SUBSET S /\ IsFiniteSet(S)
  BY FiniteAssumption, FS_Subset DEF Inside, JobReceived, JobForwarded
<1>2. row.inside = SumOver(in, S)
  <2>1. CASE b = Main
    <3>1. row.inside = Total("forwarded", Inside(b, S)) - Total("receiving", Inside(b, S))
      BY <2>1 DEF Figures
    <3>2. \A o \in S : in[o] = IF o \in Inside(b, S)
                               THEN order[o]["forwarded"] - order[o]["receiving"] ELSE 0
      BY <2>1 DEF InsideShare
    <3> HIDE DEF in, row
    <3> QED BY <1>1, <3>1, <3>2, DifferenceOfPart, FieldsFacts
  <2>2. CASE b # Main
    <3>1. row.inside = Total("inside", Inside(b, S))
      BY <2>2 DEF Figures
    <3>2. \A o \in S : in[o] = IF o \in Inside(b, S) THEN order[o]["inside"] ELSE 0
      BY <2>2 DEF InsideShare
    <3> HIDE DEF in, row
    <3> QED BY <1>1, <3>1, <3>2, TotalOfPart, FieldsFacts
  <2> QED BY <2>1, <2>2
<1>3. row.received = SumOver(got, S)
  <2>1. row.received = Total("receiving", JobReceived(b, S)) - Total("agent", JobReceived(b, S))
    BY DEF Figures
  <2>2. \A o \in S : got[o] = IF o \in JobReceived(b, S)
                              THEN order[o]["receiving"] - order[o]["agent"] ELSE 0
    BY DEF ReceivedShare
  <2> HIDE DEF got, row
  <2> QED BY <1>1, <2>1, <2>2, DifferenceOfPart, FieldsFacts
<1>4. row.forwarded = SumOver(sent, S)
  <2>1. CASE b = Main
    <3>1. row.forwarded = Total("fee", JobForwarded(b, S)) - Total("receiving", JobForwarded(b, S))
      BY <2>1 DEF Figures
    <3>2. \A o \in S : sent[o] = IF o \in JobForwarded(b, S)
                                 THEN order[o]["fee"] - order[o]["receiving"] ELSE 0
      BY <2>1 DEF ForwardedShare
    <3> HIDE DEF sent, row
    <3> QED BY <1>1, <3>1, <3>2, DifferenceOfPart, FieldsFacts
  <2>2. CASE b # Main
    <3>1. row.forwarded = Total("fee", JobForwarded(b, S)) - Total("forwarded", JobForwarded(b, S))
      BY <2>2 DEF Figures
    <3>2. \A o \in S : sent[o] = IF o \in JobForwarded(b, S)
                                 THEN order[o]["fee"] - order[o]["forwarded"] ELSE 0
      BY <2>2 DEF ForwardedShare
    <3> HIDE DEF sent, row
    <3> QED BY <1>1, <3>1, <3>2, DifferenceOfPart, FieldsFacts
  <2> QED BY <2>1, <2>2
<1>5. \A o \in S : /\ in[o] \in Int /\ got[o] \in Int /\ sent[o] \in Int
                   /\ rest[o] = got[o] + sent[o] /\ Share(b, S)[o] = in[o] + rest[o]
  <2> SUFFICES ASSUME NEW o \in S
               PROVE  /\ in[o] \in Int /\ got[o] \in Int /\ sent[o] \in Int
                      /\ Share(b, S)[o] = in[o] + rest[o]
    OBVIOUS
  <2>1. order[o].inside \in Int /\ order[o].forwarded \in Int /\ order[o].receiving \in Int
        /\ order[o].agent \in Int /\ order[o].fee \in Int
    BY OrderFacts DEF Rows
  <2>2. Share(b, S)[o] = in[o] + rest[o]
    BY DEF Share
  <2> QED BY <2>1, <2>2 DEF InsideShare, ReceivedShare, ForwardedShare
<1> HIDE DEF in, got, sent, rest
<1>6. \A o \in S : rest[o] \in Int /\ Share(b, S)[o] \in Int
  BY <1>5
<1>7. SumOver(rest, S) = SumOver(got, S) + SumOver(sent, S)
  BY <1>1, <1>5, SumPlus
<1>8. SumOver(Share(b, S), S) = SumOver(in, S) + SumOver(rest, S)
  BY <1>1, <1>5, <1>6, SumPlus
<1>9. SumOver(in, S) \in Int /\ SumOver(got, S) \in Int /\ SumOver(sent, S) \in Int
  BY <1>1, <1>5, SumInt
<1>10. row.inside + row.received + row.forwarded = SumOver(Share(b, S), S)
  <2> HIDE DEF row
  <2> QED BY <1>2, <1>3, <1>4, <1>7, <1>8, <1>9
<1> QED BY <1>6, <1>10

\* The shares of an order, of all branches, are what the company has of it.
LEMMA SharesOfOrder ==
  ASSUME ProfitIInv, NEW day, NEW o \in DeliveredOn(day), ~Unshared(o)
  PROVE  SumOver([b \in Branches |-> Share(b, DeliveredOn(day))[o]], Branches) = Take(o)
<1> DEFINE S == DeliveredOn(day)
           from == order[o].client
           to == order[o].branch
           in == [b \in Branches |-> InsideShare(b, S)[o]]
           got == [b \in Branches |-> ReceivedShare(b, S)[o]]
           sent == [b \in Branches |-> ForwardedShare(b, S)[o]]
           rest == [b \in Branches |-> got[b] + sent[b]]
           all == [b \in Branches |-> Share(b, S)[o]]
           inAt == IF to = from THEN to ELSE Main
           inIs == IF to = from THEN order[o].inside
                   ELSE IF from = Main THEN 0 ELSE order[o].forwarded - order[o].receiving
           gotIs == IF to = from THEN 0 ELSE order[o].receiving - order[o].agent
           sentIs == IF to = from THEN 0
                     ELSE IF from = Main THEN order[o].fee - order[o].receiving
                     ELSE order[o].fee - order[o].forwarded
<1>1. /\ o \in Delivered /\ o \in S /\ to \in Branches /\ from \in Branches \cup {Abroad}
      /\ to # NoBranch /\ from # NoBranch
      /\ to = from => from # Main /\ order[o].inside = order[o].fee - order[o].agent
  BY DeliveredRows DEF DeliveredOn, Confirmed, ProfitIInv, InsideNetFits, Unshared
<1>2. /\ order[o].inside \in Int /\ order[o].forwarded \in Int /\ order[o].receiving \in Int
      /\ order[o].agent \in Int /\ order[o].fee \in Int
  BY <1>1, OrderFacts DEF ProfitIInv, Rows, Delivered
<1>3. inIs \in Int /\ gotIs \in Int /\ sentIs \in Int /\ inAt \in Branches
  BY <1>1, <1>2, MainAssumption
<1> HIDE DEF S
<1>4. \A b \in Branches : in[b] = IF b = inAt THEN inIs ELSE 0
  BY <1>1, MainAssumption DEF InsideShare, Inside
<1>5. \A b \in Branches : got[b] = IF b = to THEN gotIs ELSE 0
  BY <1>1 DEF ReceivedShare, JobReceived
<1>6. \A b \in Branches : sent[b] = IF b = from THEN sentIs ELSE 0
  BY <1>1 DEF ForwardedShare, JobForwarded
<1>7. \A b \in Branches : all[b] = in[b] + rest[b] /\ rest[b] = got[b] + sent[b]
  BY <1>1 DEF Share
<1>8. inIs + (gotIs + (IF from \in Branches THEN sentIs ELSE 0)) = Take(o)
  <2>1. CASE to = from
    BY <1>1, <1>2, <2>1, NullAssumption DEF Take
  <2>2. CASE to # from /\ from = Main
    BY <1>1, <1>2, <2>2, MainAssumption, NullAssumption DEF Take
  <2>3. CASE to # from /\ from \in Branches \ {Main}
    BY <1>1, <1>2, <2>3, NullAssumption DEF Take
  <2>4. CASE to # from /\ from = Abroad
    BY <1>1, <1>2, <2>4, MainAssumption, NullAssumption DEF Take
  <2> QED BY <1>1, <2>1, <2>2, <2>3, <2>4
<1> HIDE DEF in, got, sent, rest, all, inAt, inIs, gotIs, sentIs, from, to
<1>9. /\ SumOver(in, Branches) = inIs /\ SumOver(got, Branches) = gotIs
      /\ SumOver(sent, Branches) = IF from \in Branches THEN sentIs ELSE 0
  BY <1>1, <1>3, <1>4, <1>5, <1>6, SumPoint, FiniteAssumption
<1>10. \A b \in Branches : in[b] \in Int /\ got[b] \in Int /\ sent[b] \in Int /\ rest[b] \in Int
  BY <1>3, <1>4, <1>5, <1>6, <1>7
<1>11. SumOver(rest, Branches) = SumOver(got, Branches) + SumOver(sent, Branches)
  BY <1>7, <1>10, SumPlus, FiniteAssumption
<1>12. SumOver(all, Branches) = SumOver(in, Branches) + SumOver(rest, Branches)
  BY <1>7, <1>10, SumPlus, FiniteAssumption
<1>13. SumOver(all, Branches) = Take(o)
  BY <1>8, <1>9, <1>11, <1>12
<1> QED BY <1>13 DEF all, S

\* The sums of the rows, and of what the company has, as their folds compute them.
RowSums(h, table, S) ==
  h = [T \in SUBSET S |->
         IF T = {} THEN 0
         ELSE (table[Pick(T)].inside + table[Pick(T)].received + table[Pick(T)].forwarded)
                + h[T \ {Pick(T)}]]

TakeSums(h, S) ==
  h = [T \in SUBSET S |-> IF T = {} THEN 0 ELSE Take(Pick(T)) + h[T \ {Pick(T)}]]

LEMMA RowSum ==
  ASSUME NEW table, NEW S, IsFiniteSet(S), NEW g,
         \A b \in S : g[b] = table[b].inside + table[b].received + table[b].forwarded
  PROVE  (CHOOSE h : RowSums(h, table, S))[S] = SumOver(g, S)
<1>1. \A T \in SUBSET S : T # {} =>
        g[Pick(T)] = table[Pick(T)].inside + table[Pick(T)].received + table[Pick(T)].forwarded
  BY PickFacts
<1>2. \A h : SumsOver(h, g, S) <=> RowSums(h, table, S)
  BY <1>1 DEF SumsOver, RowSums
<1>3. PICK h : SumsOver(h, g, S) /\ SumOver(g, S) = h[S]
  BY SumIsSum
<1>4. SumsOver(CHOOSE k : RowSums(k, table, S), g, S)
  BY <1>2, <1>3
<1> QED BY <1>3, <1>4, SumsAgree

LEMMA TakeSum ==
  ASSUME NEW S, IsFiniteSet(S), NEW g, \A o \in S : g[o] = Take(o)
  PROVE  (CHOOSE h : TakeSums(h, S))[S] = SumOver(g, S)
<1>1. \A T \in SUBSET S : T # {} => g[Pick(T)] = Take(Pick(T))
  BY PickFacts
<1>2. \A h : SumsOver(h, g, S) <=> TakeSums(h, S)
  BY <1>1 DEF SumsOver, TakeSums
<1>3. PICK h : SumsOver(h, g, S) /\ SumOver(g, S) = h[S]
  BY SumIsSum
<1>4. SumsOver(CHOOSE k : TakeSums(k, S), g, S)
  BY <1>2, <1>3
<1> QED BY <1>3, <1>4, SumsAgree

\* All the shares of a day's orders.
LEMMA DayAddsUp ==
  ASSUME ProfitIInv, NEW table,
         \A b \in Branches : table[b] = ComputeBranchDayProfit(b, 1),
         \A o \in DeliveredOn(1) : ~Unshared(o)
  PROVE  (CHOOSE h : RowSums(h, table, Branches))[Branches]
           = (CHOOSE h : TakeSums(h, DeliveredOn(1)))[DeliveredOn(1)]
<1> DEFINE S == DeliveredOn(1)
           c == [b \in Branches |-> Share(b, S)]
           rows == [b \in Branches |-> SumOver(c[b], S)]
           columns == [o \in S |-> SumOver([b \in Branches |-> c[b][o]], Branches)]
<1>1. S \in SUBSET Orders /\ IsFiniteSet(S) /\ IsFiniteSet(Branches)
  <2>1. S \in SUBSET Orders
    BY DEF DeliveredOn, Confirmed, Delivered
  <2> HIDE DEF S
  <2> QED BY <2>1, FiniteAssumption, FS_Subset
<1>2. ASSUME NEW b \in Branches
      PROVE  /\ rows[b] = table[b].inside + table[b].received + table[b].forwarded
             /\ \A o \in S : c[b][o] \in Int
  <2>1. table[b] = Figures(b, Inside(b, S), JobReceived(b, S), JobForwarded(b, S))
    BY DEF ComputeBranchDayProfit
  <2>2. rows[b] = SumOver(Share(b, S), S) /\ c[b] = Share(b, S)
    OBVIOUS
  <2> HIDE DEF S, c, rows
  <2> QED BY <1>1, <2>1, <2>2, RowIsShare DEF ProfitIInv
<1>3. ASSUME NEW o \in S
      PROVE  columns[o] = Take(o)
  <2>1. [b \in Branches |-> c[b][o]] = [b \in Branches |-> Share(b, S)[o]]
    OBVIOUS
  <2>2. SumOver([b \in Branches |-> Share(b, S)[o]], Branches) = Take(o)
    BY <1>3, SharesOfOrder
  <2> HIDE DEF c, S
  <2> QED BY <2>1, <2>2
<1>4. SumOver(rows, Branches) = SumOver(columns, S)
  <2> HIDE DEF c, S
  <2> QED BY <1>1, <1>2, SumSwap
<1>5. (CHOOSE h : RowSums(h, table, Branches))[Branches] = SumOver(rows, Branches)
  <2> HIDE DEF rows
  <2> QED BY <1>1, <1>2, RowSum
<1>6. (CHOOSE h : TakeSums(h, S))[S] = SumOver(columns, S)
  <2> HIDE DEF columns, S
  <2> QED BY <1>1, <1>3, TakeSum
<1> HIDE DEF rows, columns
<1> QED BY <1>4, <1>5, <1>6

\* Only the job writes rows.
LEMMA OnlyTheJobWrites ==
  ASSUME [ProfitNext]_profitVars
  PROVE  UNCHANGED daily \/ \E b \in Branches : SnapshotBranch(b)
<1>1. \A o, row : Put(o, row) => UNCHANGED daily
  BY DEF Put
<1>2. ASSUME NEW o \in Orders, NEW b, NEW client, NEW deal, NEW confirmed,
             Create(o, b, client, deal, confirmed)
      PROVE  UNCHANGED daily
  BY <1>1, <1>2 DEF Create
<1>3. ASSUME NEW o \in Orders, NEW b, NEW status, NEW agent, NEW confirmed,
             UpdateOrder(o, status, b, agent, confirmed)
      PROVE  UNCHANGED daily
  BY <1>1, <1>3 DEF UpdateOrder
<1>4. ASSUME NEW o \in Orders, NEW b, NEW agent, UpdateOrderForClient(o, b, agent)
      PROVE  UNCHANGED daily
  BY <1>1, <1>4 DEF UpdateOrderForClient
<1>5. ASSUME NEW o \in Orders, NEW given, NEW agent,
             ClientReport(o, given) \/ AgentReport(o, given, agent)
      PROVE  UNCHANGED daily
  BY <1>1, <1>5 DEF ClientReport, AgentReport
<1>6. ASSUME NEW o \in Orders, NEW type, NEW given, NEW forChild, NEW kind,
             BranchReport(o, type, given, forChild) \/ HideReport(o, kind)
      PROVE  UNCHANGED daily
  BY <1>1, <1>6 DEF BranchReport, HideReport
<1>7. CASE Midnight \/ DailyJobFails \/ Rest \/ UNCHANGED profitVars
  BY <1>7 DEF Midnight, DailyJobFails, Rest, profitVars
<1> QED BY <1>2, <1>3, <1>4, <1>5, <1>6, <1>7 DEF ProfitNext

\* Every variable has its type, the job's rows among them: a profit is a number whatever
\* orders it sums.
THEOREM ProfitTypes == ProfitSpec => []ProfitTypeOK
<1>1. ProfitIInv => ProfitTypeOK
  BY DEF ProfitIInv, Rows, DailyAreNumbers, ProfitTypeOK
<1> QED BY <1>1, ProfitInductive, PTL

\* When the job has written its last row, the day's rows add up to what the day's orders
\* left after their agents, unless an order was written while the job ran.
THEOREM SnapshotAddsUpHolds == ProfitSpec => SnapshotAddsUp
<1> DEFINE S == DeliveredOn(1)
           Adds == (/\ DOMAIN daily # Branches /\ DOMAIN daily' = Branches /\ touched = {}
                    /\ \A o \in S : ~Unshared(o))
                   => MapThenSumSet(LAMBDA b : daily'[b].inside + daily'[b].received
                                                 + daily'[b].forwarded, Branches)
                        = MapThenSumSet(Take, S)
<1>1. ASSUME ProfitIInv, [ProfitNext]_profitVars PROVE Adds
  <2> SUFFICES ASSUME DOMAIN daily # Branches, DOMAIN daily' = Branches, touched = {},
                      \A o \in S : ~Unshared(o)
               PROVE  MapThenSumSet(LAMBDA b : daily'[b].inside + daily'[b].received
                                                 + daily'[b].forwarded, Branches)
                        = MapThenSumSet(Take, S)
    BY <1>1
  <2>1. PICK b \in Branches : SnapshotBranch(b)
    <3>1. UNCHANGED daily \/ \E b \in Branches : SnapshotBranch(b)
      BY <1>1, OnlyTheJobWrites
    <3> QED BY <3>1
  <2>2. \A c \in Branches : daily'[c] = ComputeBranchDayProfit(c, 1)
    <3>1. /\ todo # {} /\ DOMAIN daily' = DOMAIN daily \cup {b}
          /\ daily'[b] = ComputeBranchDayProfit(b, 1)
          /\ \A c \in DOMAIN daily : c # b => daily'[c] = daily[c]
      BY <2>1 DEF SnapshotBranch
    <3>2. \A c \in DOMAIN daily : daily[c] = ComputeBranchDayProfit(c, 1)
      BY <1>1, <3>1 DEF ProfitIInv, DailyIsCurrent
    <3> QED BY <3>1, <3>2
  <2>3. (CHOOSE h : RowSums(h, daily', Branches))[Branches]
          = (CHOOSE h : TakeSums(h, S))[S]
    BY <1>1, <2>2, DayAddsUp
  <2>4. MapThenSumSet(LAMBDA c : daily'[c].inside + daily'[c].received + daily'[c].forwarded,
                      Branches) = (CHOOSE h : RowSums(h, daily', Branches))[Branches]
    BY DEF MapThenSumSet, MapThenFoldSet, Pick, RowSums
  <2>5. MapThenSumSet(Take, S) = (CHOOSE h : TakeSums(h, S))[S]
    BY DEF MapThenSumSet, MapThenFoldSet, Pick, TakeSums
  <2> QED BY <2>3, <2>4, <2>5
<1>2. ProfitIInv /\ [ProfitNext]_profitVars => [Adds]_profitVars
  BY <1>1
<1> QED BY <1>2, ProfitInductive, PTL DEF ProfitSpec, SnapshotAddsUp
=============================================================================
