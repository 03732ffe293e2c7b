SPECIFICATION RecencySpec
CONSTANTS
  Keys = {k1, k2, k3, k4}
  Values = {p1, p2}
  Absent = Absent
  ConfiguredCapacity = 2
  MaxUses = 5
INVARIANTS
  CacheTypeOK
  ListMatchesMap
  KeepsMostRecentlyUsed
  HitReturnsLatestValue
