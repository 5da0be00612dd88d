SPECIFICATION FairSpec
CONSTANTS
  h = h
  w1 = w1
  orders = orders
  refunds = refunds
  returns = returns
  Node <- MCNode
  Host = h
  Topic <- MCTopic
  Declared <- MCDeclared
  Slots = 2
  MaxTrouble = 0
PROPERTY DiscoveryAnswered
CHECK_DEADLOCK FALSE
