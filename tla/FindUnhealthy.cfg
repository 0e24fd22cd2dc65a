CONSTANTS
  Token = {1, 2}
  Loop = loop
  Async = {a1}
  Contents <- MCContents
  Configs <- OnlyWide
  MaxChanges = 2
SPECIFICATION FairConfigSyncSpec
PROPERTIES HealthReturns
