SPECIFICATION FairSpec
CONSTANTS
  Templates = 2
  Ordinals = {0}
  Sizes = {1, 2, 3}
  Specs <- TemplateSpecs
  Known <- KnownKeys
  Refused <- RefusedConfigs
  AdminPosts <- Posts
  MaxGen = 2
  MaxFaults = 0
  Objects <- JsonObjects
  Depth <- JsonDepth
  Nil = Nil
PROPERTIES Expanded
