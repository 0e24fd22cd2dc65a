CONSTANTS
  Token = {1, 2}
  MaxTime = 4
  Provider = {g}
  Reading <- MCReading
  SuspectHold = 2
  MaxLag = 1
  MaxStreak = 1
  Session = {s1, s2, s3}
  TTLs <- MCTTLs
  Maxes <- MCMaxes
  DefaultSessionTTL = 2
  DefaultMaxSessions = 2
  Candidate = {1, 2, 3, 4}
  Percent = {0, 50}
  Kind = {k1, k2}
  Part = {p1, p2, p3}
  NoKey = {p2}
  Foreign = {p3}
  MaxEntries = 4
SPECIFICATION TablesSpec
INVARIANTS RegistryTypeOK ReadingsCoherent SessionsTypeOK RecencyIsOrder WithinCapacity ReleasesTheFirst IdsTypeOK TokensMatchHost
PROPERTIES HoldIsAFloor ReloadIsClean LiveBindingsSurvive
CHECK_DEADLOCK FALSE
