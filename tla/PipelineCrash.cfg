SPECIFICATION Spec
CONSTANTS
    Recordings = {r1}
    Sinks = {s1}
    NoSink = NoSink
    NoRecording = NoRecording
    Routers = {w1}
    Requests = {q1}
    Schedule <- ScaledSchedule
    WindowFloor = 2
    WindowCap = 4
    DELIVERY_WINDOW = 2
    MaxDuration = 8
    AudioDuration <- UnknownDuration
    MaxTime = 4
    MaxArrival = 4
    MaxUploadLag = 0
    MaxReadLag = 1
    MaxCall = 0
    MaxCrashes = 1
    MaxActions = 1
INVARIANTS
    TypeOK
    HandsMatchRows
    OpenAttemptsAreHeld
    NothingStranded
    DeliveriesAreRecorded
    BackoffRespected
    AttemptsInOrder
PROPERTIES
    NoEarlyGiveUp
