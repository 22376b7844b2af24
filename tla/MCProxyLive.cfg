SPECIFICATION FairSpec
CONSTANTS
  MTProto <- OneProxy
  HasSystem = TRUE
  UserConfigs <- Nobody
  SavedConfigs <- Nothing
  Leftover = "old"
  Rejected = {}
  Workers = {w1}
  MaxId = 3
  MaxSetups = 1
  MaxQueue = 1
  MaxOrphans = 1
  MaxEntries = 3
  Retries = 1
  UI = {"next", "activate", "test", "auto"}
INVARIANTS TypeOK CheckingHasOwner NoDirectConnection
PROPERTIES SetupFinishes SwitchingEnds LockReleased
