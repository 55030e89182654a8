\* A unique index, a partial one of words and one of vectors.
SPECIFICATION Spec
CONSTANTS
    f1 = f1
    f2 = f2
    x = x
    u = u
    a = a
    b = b
    IDs = {a, b}
    Fields = {f1, f2}
    Values = {x}
    Absent = Absent
    Vectors = {u}
    Docs <- SomeDocs
    Names = {"keys", "words", "similar"}
    Definition <- SomeDefinitions
    NoFile = NoFile
    Torn = Torn
    Idle = Idle
    MaxEntries = 3
INVARIANTS TypeOK UniqueIndexNamesOne CoveredIsFound NoGhostVectors
SYMMETRY Symmetry
