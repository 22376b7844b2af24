SPECIFICATION Spec
CONSTANTS
    Clients = {c1, c2}
    Keys = {k1}
    Values = {v1}
    DbKeys = {e1}
    Requests = {"lazySync", "forceSync", "forceFlush", "changeKey", "close"}
    Faults = {"kill"}
    FlushLimit = 1
    ReindexRules <- MCReindexRules
    CompactMin = 1
    MaxSeq = 2
    MaxMail = 1
INVARIANTS KeyInForce
PROPERTIES NothingAckedIsLost
