SPECIFICATION Spec
CONSTANTS
  Orders = {o1, o2}
  Reports = {r1}
  Repos = {branch, main}
  MaxBegun = 4
  Outside = {"client", "company"}
  Requests = {p1, p2}
  Bodies <- MCBodies
  SameId <- MCSameId
  NoRepo = NoRepo
  NoReport = NoReport
SYMMETRY Symmetry
INVARIANTS
  InRepositoryHasPlace
  TotalsMatch
  OnTheWayIsTracked
