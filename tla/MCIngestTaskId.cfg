SPECIFICATION Spec
CONSTANTS
  Content = {1, 2}
  Invalid = {}
  DataSources = {"wiki"}
  DataSource <- Source
  RuleLists = {1}
  Objects <- CompactionSettings
  Depth <- Flat
  Specs <- BatchSpecs
  TaskIds = {"wiki", "t1", "t2", "t3", "t4"}
  CacheLag = FALSE
  MaxLag = 0
  MaxEdits = 2
  MaxFaults = 0
  Nil = Nil
INVARIANTS TaskMatchesSpec
CHECK_DEADLOCK FALSE
