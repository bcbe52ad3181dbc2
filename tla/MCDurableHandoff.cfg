CONSTANTS
    Candidates = {c1, c2, c3}
    NoCandidate = NoCandidate
SPECIFICATION Spec
SYMMETRY Symmetry
INVARIANT TypeOK
INVARIANT RecordHasObject
PROPERTY ImplementsArchive
INVARIANT HandoffEndsClean
CHECK_DEADLOCK FALSE
