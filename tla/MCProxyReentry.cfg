SPECIFICATION Spec
CONSTANTS
  MTProto <- Nothing
  HasSystem = TRUE
  UserConfigs <- Nobody
  SavedConfigs <- Nothing
  Leftover = "none"
  Rejected = {}
  Workers = {w1}
  MaxId = 4
  MaxSetups = 2
  MaxQueue = 1
  MaxOrphans = 1
  MaxEntries = 3
  Retries = 0
  UI = {"auto"}
INVARIANT EntriesPingable
