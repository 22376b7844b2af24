SPECIFICATION Spec
CONSTANTS
  MTProto <- OneProxy
  HasSystem = FALSE
  UserConfigs <- WorkOrTypo
  SavedConfigs <- SavedHome
  Leftover = "none"
  Rejected = {"bad-socks"}
  Workers = {w1}
  MaxId = 5
  MaxSetups = 2
  MaxQueue = 1
  MaxOrphans = 1
  MaxEntries = 4
  Retries = 0
  UI = {"add"}
INVARIANTS PingsNamesake SavedRegistered
CHECK_DEADLOCK FALSE
