\* Lists of up to four items in pages of one or two.  Readers that have stopped stay stopped.
SPECIFICATION FairSpec
CONSTANTS
    None = None
    Absent = Absent
    MaxItems = 4
    MaxNum = 2
    MaxLimit = 3
    MaxFailures = 1
INVARIANTS
    PagesJoin
    EndIsReal
PROPERTIES
    ReadingEnds
CHECK_DEADLOCK FALSE
