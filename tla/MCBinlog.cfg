SPECIFICATION Spec
CONSTANTS
    Clients = {c1, c2}
    Keys = {k1, k2}
    Values = {v1, v2}
    DbKeys = {}
    Requests = {"forceSync", "destroy"}
    Faults = {"power", "open"}
    FlushLimit = 1
    ReindexRules <- MCReindexRules
    CompactMin = 1
    MaxSeq = 3
    MaxMail = 1
SYMMETRY Symmetry
INVARIANTS TypeOK NeverFatal LogIsMap PromiseHasTimer
PROPERTIES DurableSpec
