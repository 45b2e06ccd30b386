SPECIFICATION Spec
CONSTANTS
  Branches <- MCBranches
  MainBranch = "main"
  Parent <- MCParent
  Governorate <- MCGovernorate
  MaxBegun = 3
  Agents = {a1}
  Requests = {r1, r2}
  Nil = "nil"
  Keep = "keep"
SYMMETRY Symmetry
INVARIANTS
  ScreensAgree
  SidesFollowClient
  BilledSides
