SPECIFICATION ProfitSpec
CONSTANTS
  Orders = {o1}
  main = main
  b1 = b1
  kid = kid
  Branches = {main, b1, kid}
  Main = main
  ParentOf <- MCParentOf
  NoBranch = NoBranch
  Baghdad = {b1}
  Abroad = Abroad
  Tariff = 90
  CompanyTariff = 80
  ReceivingDeliveryCosts <- MCReceiving
  ForwardedDeliveryCosts <- MCForwarded
  Deal <- MCDeal
  DealAt = {main, b1}
  AgentCosts = {2}
  FormCosts = {70}
  AgentCut = 1
  MaxWrites = 4
INVARIANTS
  InsideNetFits
  ListsMatchTotals
  ProfitIsOwed
PROPERTIES
  SnapshotAddsUp
