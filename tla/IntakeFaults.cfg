SPECIFICATION Spec
CONSTANTS
    Keys = {k1, k2}
    Uploads = {u1, u2, u3}
    NoUpload = NoUpload
    MaxFetchFailures = 1
    MaxCrashes = 1
    MaxPowerLosses = 1
    MaxRemovalFailures = 2
SYMMETRY Symmetry
CHECK_DEADLOCK FALSE
INVARIANTS
    TypeOK
    RowsHaveAudio
    AnswersAgreeWithRows
    LitterWasTried
