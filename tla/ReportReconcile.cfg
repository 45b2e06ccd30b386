SPECIFICATION FairSpec
CONSTANTS
  Orders = {1, 2}
  Reports = {r1, r2}
  Requests = {p1}
  Jobs = {cron}
  ClientKinds = {"RETURNED"}
  StagedKinds = {"RETURNED"}
  BranchKinds = {"forwarded"}
  Ageing = {1}
  BatchLimit = 1
  NoKind = NoKind
  NoReport = NoReport
PROPERTIES
  FlagsRepaired
