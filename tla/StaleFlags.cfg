\* Two requests, none of which removes a report: the flags go wrong.
SPECIFICATION Spec
CONSTANTS
  Orders = {1}
  Reports = {r1, r2}
  Requests = {p1, p2}
  Jobs = {}
  ClientKinds = {"DELIVERED"}
  StagedKinds = {}
  BranchKinds = {"received"}
  Ageing = {}
  BatchLimit = 1
  NoKind = NoKind
  NoReport = NoReport
INVARIANT FlagsMatchAtRest
