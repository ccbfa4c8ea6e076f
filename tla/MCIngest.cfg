SPECIFICATION FairSpec
CONSTANTS
  Content = {1, 2, 3, 4}
  Invalid = {3}
  DataSources = {"wiki", "clicks"}
  DataSource <- Source
  RuleLists = {1}
  Objects <- CompactionSettings
  Depth <- Flat
  Specs <- MixedSpecs
  TaskIds = {"wiki", "clicks", "t1", "t2", "t3", "t4"}
  CacheLag = TRUE
  MaxLag = 1
  MaxEdits = 3
  MaxFaults = 1
  Nil = Nil
INVARIANTS TypeOK TaskMatchesSpec SupervisorMatchesSpec
PROPERTIES StoppedBeforeReleased SpecConverges CompactionConverges
CHECK_DEADLOCK FALSE
