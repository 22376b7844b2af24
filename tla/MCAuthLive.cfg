SPECIFICATION FairSpec
CONSTANTS
  Builds = {"native", "browser"}
  Faults = {"params", "logOut", "fatal", "premium"}
  Restored = {"phone", "password", "qr", "premium", "ready"}
  MaxRequests = 2
  MaxInbox = 2
INVARIANTS TypeOK ScreenIsCurrent
PROPERTIES RequestEnds InitializeEnds SpinnerEnds
CHECK_DEADLOCK FALSE
