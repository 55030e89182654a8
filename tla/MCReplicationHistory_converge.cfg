\* Two peers have applied the same operations.
SPECIFICATION HistorySpec
CONSTANTS
    p = p
    q = q
    r = r
    v1 = v1
    v2 = v2
    f1 = f1
    Peers = {p, q}
    Fields = {f1}
    Values = {v1, v2}
    Absent = Absent
    NoDocument = NoDocument
    DocIDs = {d1}
    Docs <- OneFieldDocs
    MaxLogSize = 2
    Lossy = TRUE
    Starters = {p, q}
    Writers = {p}
    Deleters = {}
    Crashers = {}
    Updaters = {}
    Detachers = {}
    MaxCounter = 2
    MaxTimers = 1
    MaxNet = 2
INVARIANTS SameOperationsSameDocuments
CHECK_DEADLOCK FALSE
