SPECIFICATION FairSpec
CONSTANT MaxLosses = 0
PROPERTIES
  ReleaseStops
