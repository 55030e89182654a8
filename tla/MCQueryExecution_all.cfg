\* Two keys, an index that GETs can use and one that they cannot.
SPECIFICATION QuerySpec
CONSTANTS
    IDs = {"a", "b"}
    Fields = {"id", "entryType", "key", "value"}
    Values = {"a", "b", "AUTH", "x"}
    Absent = Absent
    Vectors = {}
    Docs <- SomeDocs
    Names = {"auth", "key"}
    Definition <- SomeDefinitions
    NoFile = NoFile
    Torn = Torn
    Idle = Idle
    NoGet = NoGet
    Collection = "auth"
    Statements <- SomeStatements
    MaxEntries = 2
INVARIANTS ScanIsComplete FailuresAreNameless
VIEW NoCovered
