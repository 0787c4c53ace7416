SPECIFICATION Spec
CONSTANTS
    Recordings = {r1,r2}
    Sinks = {s1}
    NoSink = NoSink
    NoRecording = NoRecording
    Routers = {w1}
    Requests = {q1}
    Schedule <- ScaledSchedule
    WindowFloor = 2
    WindowCap = 4
    DELIVERY_WINDOW = 2
    MaxDuration = 8
    AudioDuration <- UnknownDuration
    MaxTime = 1
    MaxArrival = 1
    MaxUploadLag = 1
    MaxReadLag = 0
    MaxCall = 0
    MaxCrashes = 1
    MaxActions = 1
SYMMETRY Symmetry
PROPERTIES ImplementsLifecycle
