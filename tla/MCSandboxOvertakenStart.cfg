CONSTANTS
    Processes = {p1}
    NoProcess = NoProcess
    Killers = {k1}
    Destroyers = {d1}
    Files = {}
    RejectedStartMayLand = FALSE
SPECIFICATION Spec
INVARIANT ProcessIsAddressable
CHECK_DEADLOCK FALSE
