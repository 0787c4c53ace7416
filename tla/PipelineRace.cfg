SPECIFICATION Spec
CONSTANTS
    Recordings = {r1}
    Sinks = {s1,s2}
    NoSink = NoSink
    NoRecording = NoRecording
    Routers = {w1,w2}
    Requests = {q1,q2}
    Schedule <- ScaledSchedule
    WindowFloor = 2
    WindowCap = 4
    DELIVERY_WINDOW = 2
    MaxDuration = 8
    AudioDuration <- UnknownDuration
    MaxTime = 1
    MaxArrival = 1
    MaxUploadLag = 0
    MaxReadLag = 1
    MaxCall = 0
    MaxCrashes = 0
    MaxActions = 2
SYMMETRY Symmetry
INVARIANTS
    RowsAgree
    WorkersKeepTheirClaim
PROPERTIES
    SinkChosenOnce
    DeliveredIsFinal
    WokenOnlyByOperator
