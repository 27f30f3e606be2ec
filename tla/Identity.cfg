\* Two days, one restart.  With the clock at its bound and all calls ended nothing need happen.
SPECIFICATION FairSpec
CONSTANTS
    Tasks = {t1, t2}
    None = None
    Torn = Torn
    MaxDevices = 4
    MaxNow = 2
    MaxCrashes = 1
    MayCancel = TRUE
INVARIANTS
    LocksAreSound
PROPERTIES
    
    KnownDeviceStays
    EveryCallEnds
CHECK_DEADLOCK FALSE
