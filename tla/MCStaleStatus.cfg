SPECIFICATION Spec
CONSTANTS
  hist = hist  brok = brok
  Nodes = {hist, brok}
  NodeType <- MCNodeType
  Content = {1, 2}
  Bad = {}
  Specs <- RollingSpecs
  OrderedReady = {}
  StatusLag = TRUE
  CacheLag = FALSE
  MaxGen = 2
  MaxFaults = 0
  Common = Common
  Nil = Nil
PROPERTIES RollingByType
