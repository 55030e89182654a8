\* One writer fills its log and answers syncs from it, on a lossy network.
SPECIFICATION HistorySpec
CONSTANTS
    p = p
    q = q
    r = r
    v1 = v1
    v2 = v2
    f1 = f1
    Peers = {p, q}
    Fields = {f1}
    Values = {v1}
    Absent = Absent
    NoDocument = NoDocument
    DocIDs = {d1}
    Docs <- OneFieldDocs
    MaxLogSize = 3
    Lossy = TRUE
    Starters = {p, q}
    Writers = {p}
    Deleters = {}
    Crashers = {}
    Updaters = {}
    Detachers = {}
    MaxCounter = 4
    MaxTimers = 1
    MaxNet = 2
INVARIANTS TypeOK  
 
VIEW vars
CHECK_DEADLOCK FALSE
