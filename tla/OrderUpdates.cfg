SPECIFICATION Spec
CONSTANTS
  Orders = {o1}
  Reports = {r1}
  Requests = {p1, p2}
  MaxBegun = 3
  Total = 3
  Amounts = {2}
  Costs = {0, 1}
  Bodies <- MCBodies
  AutoFrom = {"REGISTERED"}
  AutoTo = {"DELIVERED"}
  Callers = {{"pay"}, {"pay", "treasury", "closed"}}
  Namesakes = {}
  None = None
SYMMETRY Symmetry
INVARIANTS
  NetFollowsPayment
PROPERTIES
  SettledAtItsValue
  GuardedOrderStays
  SettledOrderStays
