\* Three goroutines call every operation; Update and FindAll may stop them.
SPECIFICATION FairLockSpec
CONSTANTS
    Goroutines = {g1, g2, g3}
    NoOne = NoOne
    Calls = {"Find", "FindAll", "Insert", "Delete", "Update"}
    MaxFiles = 2
INVARIANTS WritesRunAlone
PROPERTIES OnlyNestedReadsStop
CHECK_DEADLOCK FALSE
