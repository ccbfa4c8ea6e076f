SPECIFICATION FairSpec
CONSTANTS
  hist = hist  brok = brok
  Nodes = {brok}
  NodeType <- MCNodeType
  Content = {1, 2}
  Bad = {2}
  Specs <- CrashSpecs
  OrderedReady = {brok}
  StatusLag = FALSE
  CacheLag = TRUE
  MaxGen = 2
  MaxFaults = 1
  Common = Common
  Nil = Nil
PROPERTIES Converges SweepKeepsWanted
