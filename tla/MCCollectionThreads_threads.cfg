\* Two writers, a handler and whoever attaches share a collection.
SPECIFICATION Spec
CONSTANTS
    me = me
    q = q
    f1 = f1
    v1 = v1
    v2 = v2
    Peers = {me, q}
    Fields = {f1}
    Values = {v1, v2}
    Absent = Absent
    NoDocument = NoDocument
    Me = me
    Writers = {w1, w2}
    Syncers = {h}
    Handlers = {h}
    Controller = c
    Docs <- OneFieldDocs
    Incoming <- Inserts
    MaxLogSize = 2
    Idle = Idle
    MaxWrites = 2
    MaxStates = 1
    MaxTimers = 1
SYMMETRY WritersAreAlike
VIEW StateThatMatters
INVARIANTS IncrementsAreKept WriterStampsIncrease  OwnWriteStays MarkHasTimer ListedIffAttached 
CHECK_DEADLOCK FALSE
