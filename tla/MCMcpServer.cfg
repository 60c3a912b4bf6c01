CONSTANTS
  None = None
  p1 = p1
  p2 = p2
  clean = clean
  one = one
  pair = pair
  many = many
  Paths <- TwoPaths
  AllowedPaths <- OnePath
  Texts <- LogTexts
  ClusterSizes <- Sizes
  Labels = {0, 1, 2, 3, 4}
  MaxCache = 2
  MaxShown = 2
SPECIFICATION Spec
INVARIANTS
  TypeOK
  EvictedOnlyByNewer
PROPERTY EvictsOldestForNew
