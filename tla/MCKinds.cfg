SPECIFICATION Spec
CONSTANTS
  hist = hist  brok = brok
  Nodes = {brok}
  NodeType <- MCNodeType
  Content = {1, 2}
  Bad = {}
  Specs <- KindSpecs
  OrderedReady = {}
  StatusLag = TRUE
  CacheLag = FALSE
  MaxGen = 3
  MaxFaults = 1
  Common = Common
  Nil = Nil
PROPERTIES SweepKeepsWanted ReplaceBeforeRemove ImplementsOrderedUpdate
