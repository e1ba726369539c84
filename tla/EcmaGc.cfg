SPECIFICATION FairSpec
CONSTANTS
  Objects = {m, k, v}
  WeakMaps = {m}
  WeakRefs = {v}
  NoObj = NoObj
  MarkLimit = 1
  MaxRefs = 1
  MaxLinks = 3
INVARIANTS NothingDangles MarkExact CountsRestored
PROPERTIES CollectionEnds
