SPECIFICATION Spec
CONSTANTS
  Replicas = 2
  Grace = 2
  Specs <- SameSpecs
  Prompt = TRUE
  MaxGen = 2
  MaxFaults = 3
  Nil = Nil
PROPERTIES NeededKept
