SPECIFICATION FairSpec
CONSTANTS
  Content = {1}
  Invalid = {}
  DataSources = {"wiki"}
  DataSource <- Source
  RuleLists = {1, 2}
  Objects <- CompactionSettings
  Depth <- Flat
  Specs <- RulesSpecs
  TaskIds = {"wiki", "t1", "t2", "t3", "t4"}
  CacheLag = FALSE
  MaxLag = 0
  MaxEdits = 3
  MaxFaults = 0
  Nil = Nil
PROPERTIES RulesConverge
CHECK_DEADLOCK FALSE
