CONSTANTS
    Processes = {p1, p2}
    NoProcess = NoProcess
    Killers = {k1}
    Destroyers = {d1, d2}
    Files = {}
    RejectedStartMayLand = FALSE
SPECIFICATION Spec
SYMMETRY Symmetry
INVARIANT TypeOK
INVARIANT RecordInv
INVARIANT KillHoldsLease
INVARIANT ExclusiveLease
INVARIANT GivenUpOnceDestroyed
PROPERTY NoAdmissionAfterKill
PROPERTY ClosedForGood
PROPERTY ImplementsService
CHECK_DEADLOCK FALSE
