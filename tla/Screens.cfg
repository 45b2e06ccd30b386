SPECIFICATION SceneSpec
CONSTANTS
  Requests = {p1, p2}
  Agents = {d1}
  Nil = Nil
  MaxBegun = 4
  BranchIds = {"main", "b"}
  MainBranch = "main"
  Null = "null"
  MaxMoves = 4
SYMMETRY Symmetry
INVARIANTS
  CachedListsAreCurrent
  ListsAddUp
  
PROPERTIES
  AnswersAreTheListAsked
  ApprovalTakesWhatWaits
