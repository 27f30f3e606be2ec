\* A session over: leaked network threads may go on, and may not.
SPECIFICATION FairSpec
CONSTANTS
    MaxRedirects = 2
    QueueSize = 2
    MaxMessages = 4
INVARIANTS
    MessagesAccountedFor
    ListenersAreSubscribed
    OnlyCutConnectsStay
PROPERTIES
    SessionEnds
CHECK_DEADLOCK FALSE
