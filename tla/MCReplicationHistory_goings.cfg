\* One peer writes, is killed and comes back under a new ID; the other detaches
\* and is blocked by an Update.
SPECIFICATION HistoryFairSpec
CONSTANTS
    p = p
    q = q
    r = r
    v1 = v1
    v2 = v2
    f1 = f1
    Peers = {p, q, r}
    Fields = {f1}
    Values = {v1}
    Absent = Absent
    NoDocument = NoDocument
    DocIDs = {d1}
    Docs <- OneFieldDocs
    MaxLogSize = 2
    Lossy = TRUE
    Starters = {p, q}
    Writers = {q}
    Deleters = {q}
    Crashers = {q}
    Updaters = {p}
    Detachers = {p}
    MaxCounter = 2
    MaxTimers = 2
    MaxNet = 1
INVARIANTS  FlagHasTimer 
PROPERTIES SyncEnds
CHECK_DEADLOCK FALSE
