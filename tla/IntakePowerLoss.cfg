SPECIFICATION Spec
CONSTANTS
    Keys = {k1}
    Uploads = {u1, u2}
    NoUpload = NoUpload
    MaxFetchFailures = 0
    MaxCrashes = 0
    MaxPowerLosses = 1
    MaxRemovalFailures = 0
SYMMETRY Symmetry
CHECK_DEADLOCK FALSE
INVARIANTS CreatedAudioStays
