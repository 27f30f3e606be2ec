\* Two requests, the first of a client, without crash or cancellation.
SPECIFICATION Spec
CONSTANTS
    Tasks = {t1, t2}
    None = None
    Torn = Torn
    MaxDevices = 2
    MaxNow = 0
    MaxCrashes = 0
    MayCancel = FALSE
INVARIANTS
    FileKeepsTheDevice
