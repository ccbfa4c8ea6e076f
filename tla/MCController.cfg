SPECIFICATION FairSpec
CONSTANTS
  Templates = 2
  Ordinals = {0}
  Sizes = {1, 2}
  Specs <- GrowingSpecs
  Known <- KnownKeys
  Refused <- RefusedConfigs
  AdminPosts <- Posts
  MaxGen = 3
  MaxFaults = 2
  Objects <- JsonObjects
  Depth <- JsonDepth
  Nil = Nil
INVARIANTS TypeOK IncludesIsCovers
PROPERTIES Expanded StatefulSetBack DeletedToGrow DynamicApplied PostsEnd
