SPECIFICATION Spec
CONSTANTS
    MaxPolls = 2
    MaxJobs = 2
    OtherLoops = {"delivery"}
    MaxConnections = 1
    MaxStarts = 2
INVARIANTS
    TypeOK
    NoSilentLeak
    OnlyTicksUnderWay
PROPERTIES
    TranscriptKept
    GracefulExit
    ShutdownEnds
    JobEnds
CHECK_DEADLOCK FALSE
