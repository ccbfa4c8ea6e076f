SPECIFICATION FairSpec
CONSTANTS
  hist = hist  brok = brok
  Nodes = {hist, brok}
  NodeType <- MCNodeType
  Content = {1, 2}
  Bad = {2}
  Specs <- StuckSpecs
  OrderedReady = {}
  StatusLag = FALSE
  CacheLag = FALSE
  MaxGen = 2
  MaxFaults = 0
  Common = Common
  Nil = Nil
PROPERTIES BadStateReported
