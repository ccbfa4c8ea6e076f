SPECIFICATION FairSpec
CONSTANTS
  Replicas = 2
  Grace = 1
  Specs <- ScaleSpecs
  Prompt = FALSE
  MaxGen = 3
  MaxFaults = 1
  Nil = Nil
INVARIANTS TypeOK
PROPERTIES MountedKept ClaimsGoFirst Released OrphanRemoved
