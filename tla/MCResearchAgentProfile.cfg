CONSTANTS
    Calls = {c1, c2}
    Requests = {r1, r2}
    NoRow = NoRow
    NoEvent = NoEvent
    NoRequest = NoRequest
    MaxUsers = 2
    MaxStray = 1
SPECIFICATION Spec
SYMMETRY CallSymmetry
INVARIANT TypeOK
INVARIANT OneIdentity
INVARIANT ActiveNamesAgent
INVARIANT SuccessIsReal
INVARIANT DeletedMeansAbsent
INVARIANT NoWaitCycle
PROPERTY ImplementsLedger
PROPERTY OneAnswerPerRequest
CHECK_DEADLOCK FALSE
