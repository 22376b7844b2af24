SPECIFICATION Spec
CONSTANTS
  MTProto <- OnePair
  HasSystem = FALSE
  UserConfigs <- Nobody
  SavedConfigs <- Nothing
  Leftover = "none"
  Rejected = {}
  Workers = {w1, w2}
  MaxId = 2
  MaxSetups = 1
  MaxQueue = 1
  MaxOrphans = 1
  MaxEntries = 3
  Retries = 0
  UI = {"next", "activate", "test", "auto"}
INVARIANTS SwitchingHasOwner LockHasHolder FailoverExclusive Agreement
SYMMETRY WorkerSymmetry
