\* Two goroutines on one document with two sensitive fields, and two keys.
SPECIFICATION Spec
CONSTANTS
    Goroutines = {g1, g2}
    Clients = {g1}
    Handlers = {g2}
    IDs = {d1}
    SensitiveFields = {hash, salt}
    Keys = {k1, k2}
    NoKey = NoKey
    Cachers = {k1}
    Expiring = {k1}
    NoDocument = NoDocument
    Idle = Idle
    MaxSeals = 2
INVARIANTS SealedAlike  SealedOnce FindIsExact
SYMMETRY Symmetry
