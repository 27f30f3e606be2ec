\* Two permits for a batch of three, a batch of two and a stream, under fairness.
\* Everyone may have been served: the system stops there.
SPECIFICATION FairSpec
CONSTANTS
    b1 = b1
    b2 = b2
    s1 = s1
    Batches <- TwoBatches
    Size <- BatchSizes
    Streams <- OneStream
    Total = 2
INVARIANTS
    PermitsConserved
    DeliveredMeansComplete
    NoResponseLeaks
PROPERTIES
    EveryoneIsServed
CHECK_DEADLOCK FALSE
