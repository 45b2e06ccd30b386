SPECIFICATION Spec
CONSTANTS
  Orders = {1, 2}
  Reports = {r1, r2}
  Requests = {p1, p2}
  Jobs = {}
  ClientKinds = {"DELIVERED"}
  StagedKinds = {}
  BranchKinds = {"received"}
  Ageing = {}
  BatchLimit = 1
  NoKind = NoKind
  NoReport = NoReport
SYMMETRY Symmetry
INVARIANTS
  NoDoubleBilling
  CreatorsQueueInOrder
PROPERTIES
  ClientCommitMissesNothing
  ImplementsRegistry
