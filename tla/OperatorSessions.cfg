SPECIFICATION Spec
CONSTANTS
    Tokens = {t1}
    NoToken = NoToken
    Requests = {q1, q2, q3}
    IdleTtl = 2
    AbsoluteTtl = 3
    MaxTime = 4
SYMMETRY Symmetry
INVARIANTS
    TypeOK
    NoIdleGap
    RowsCohere
PROPERTIES
    RevokedRowsFrozen
    ImplementsGate
