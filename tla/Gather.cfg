\* Three calls of two scopes, two workers.  A gather that has ended stays ended.
SPECIFICATION FairSpec
CONSTANTS
    Methods <- MCMethods
    Credentials = {"none", "caller"}
    NoCredential = "none"
    MaxCalls = 3
    MaxBatch = 2
    MaxConcurrency = 2
INVARIANTS
    ResultsInPlace
    EnvelopesShareOneScope
    NothingRunsOn
PROPERTIES
    GatherEnds
CHECK_DEADLOCK FALSE
