SPECIFICATION Spec
CONSTANTS
  Questions = {"g1", "g2", "h1", "h2", "c1"}
  Versions = {1, 2, 3}
  Domains = {"go", "http", "cache"}
  Contents = {"x", "y"}
  ShortCount = 2
  Minimum <- MCMinimum
  Importers = {i1, i2}
  Releases <- MCReleases
  FirstRelease <- MCFirstRelease
  Handlers = {h1, h2}
  Keys = {k1, k2}
  NoKey = NoKey
  Counts = {2, 4}
  RecentLimit = 1
  MaxAttempts = 2
INVARIANTS
  NewestVersionDecides
  OneInterviewPerKey
  BlueprintIsBest
SYMMETRY Symmetry
CHECK_DEADLOCK FALSE
