CONSTANTS
    Invocations = {i1, i2, i3}
    Nobody = Nobody
    Documents = {d1, d2}
    Ranks = {first, second}
    NoTransform = NoTransform
    MaxItems = 2
SPECIFICATION Spec
SYMMETRY Symmetry
INVARIANT TypeOK
INVARIANT ReleasedIsLastReport
INVARIANT NoReleaseMidRun
PROPERTY ImplementsPublication
CHECK_DEADLOCK FALSE
