SPECIFICATION FairSpec
CONSTANTS
  Txs = {t1}
  Reports = {r1}
  Wallets = {w1}
  Employees = {e1}
  Requests = {p1, p2}
  NoReport = NoReport
  NoWallet = NoWallet
  NoOne = NoOne
INVARIANTS
  CountedMoneyHasItsReport
  LiveReportHasItsMoney
  WalletHistoryKept
PROPERTIES
  EveryEntryApproved
  AssignmentFollowsHistory
  NoLostAssignment
