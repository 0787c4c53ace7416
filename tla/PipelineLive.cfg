SPECIFICATION FairSpec
CONSTANTS
    Recordings = {r1}
    Sinks = {s1}
    NoSink = NoSink
    NoRecording = NoRecording
    Routers = {w1}
    Requests = {q1}
    Schedule <- ScaledSchedule
    WindowFloor = 2
    WindowCap = 4
    DELIVERY_WINDOW = 2
    MaxDuration = 8
    AudioDuration <- UnknownDuration
    MaxTime = 16
    MaxArrival = 1
    MaxUploadLag = 0
    MaxReadLag = 0
    MaxCall = 1
    MaxCrashes = 1
    MaxActions = 1
PROPERTIES EveryRecordingSettles
