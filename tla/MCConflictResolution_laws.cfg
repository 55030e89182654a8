\* Every pair of versions of two peers, one field, counters up to 2.
SPECIFICATION Spec
CONSTANTS
    p = p
    q = q
    Peers = {p, q}
    Fields = {f1}
    Values = {v1, v2}
    Absent = Absent
    NoDocument = NoDocument
    Rank <- PeerOrder
    Samples <- AllVersions
INVARIANTS CompareIsCausalOrder MergeIsLeastUpperBound  MergeLosesNothing
