CONSTANTS
  Token = {1, 2}
  Loop = loop
  Async = {a1, a2}
  Contents <- MCContents
  Configs <- MCConfigs
  MaxChanges = 2
SPECIFICATION FairConfigSyncSpec
INVARIANTS ConfigSyncTypeOK NoLostUpdate SyncForgetsTheGone SettingsFollow OnlyOvertakingStaysBehind
PROPERTIES ImplementsMirror ChangeIsRead LossIsNoticed
