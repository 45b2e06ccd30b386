SPECIFICATION Spec
CONSTANTS
  Orders = {o1, o2}
  Reports = {r1, r2}
  Requests = {p1, p2}
  MaxBegun = 2
  Kinds = {"DELIVERY_AGENT", "GOVERNORATE", "COMPANY", "REPOSITORY_RETURNED", "REPOSITORY_DELIVERED", "BRANCH"}
  Amounts = {5}
  Costs = {0, 1}
SYMMETRY Symmetry
INVARIANTS
  ListsWhatItCounts
PROPERTIES
  MadeForItsOrders
