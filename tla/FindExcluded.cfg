CONSTANTS
  Token = {1, 2}
  MaxTime = 1
  g = g
  h = h
  Provider = {g, h}
  Reading <- MCReading
  SuspectHold = 1
  MaxLag = 0
  MaxStreak = 1
  s1 = s1
  Session = {s1}
  TTLs = {1, 2}
  Maxes = {1, 2}
  Request = {p1}
  NoSession = none
  Offers <- AnyOffer
  Listings <- Added
  PluginConfigs <- Excluding
  PruneStreak = 1
  PruneAfter = 1
  MaxEvents = 2
SPECIFICATION RoutingSpec
INVARIANTS NeverRoutesExcluded

