SPECIFICATION Spec
CONSTANTS
    Attempts = {a1, a2, a3}
    DelayThreshold = 1
    LockThreshold = 2
    Window = 1
    MaxHold = 1
    MaxRows = 8
INVARIANTS
    TypeOK
    OvershootBounded
PROPERTIES
    LockLifts
