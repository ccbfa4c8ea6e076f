SPECIFICATION RolloutSpec
CONSTANTS
  hist = hist  brok = brok
  Nodes = {hist, brok}
  NodeType <- MCNodeType
  Content = {1, 2}
  Bad = {}
  Specs <- RollingSpecs
  OrderedReady = {}
  StatusLag = TRUE
  CacheLag = FALSE
  MaxGen = 3
  MaxFaults = 1
  Common = Common
  Nil = Nil
INVARIANTS TypeOK FinalizerBeforeStatefulSet AppliedInv
PROPERTIES ConfigBeforeWorkload WrittenInOrder RollingUnlessBehind
