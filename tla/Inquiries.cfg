SPECIFICATION SceneSpec
CONSTANTS
  Branches = {"b1", "b2"}
  ClientBranch = "b1"
  Profiles <- MCProfiles
  Messages = {1, 2}
  Staff = {"e1", "e2", "boss"}
  Inquirers = {"e1", "e2"}
  Departments = {"d1", "d2"}
  DepartmentOf <- MCDepartmentOf
  Requests = {r1, r2}
  Nil = "nil"
  MaxBegun = 3
  HomeBranches = {"b1", "b2"}
  BranchOf <- MCBranchOf
  HomeClients = {"c1", "c2"}
  ReceivingAgents = {"ra", "rb"}
  Couriers = {"da"}
  Viewers <- MCViewers
  NoOne = "nobody"
  MaxChanges = 5
SYMMETRY Symmetry
INVARIANTS
  SeenWasShown
  ScopesAgree
  TilesAreTheirLists
  AnswersHoldTogether
PROPERTIES
  TicketChangesHands
