SPECIFICATION RetrySpec
CONSTANTS
  Builds = {"native"}
  Faults = {}
  Restored = {"phone", "ready"}
  MaxRequests = 2
  MaxInbox = 2
PROPERTY StartsUp
