CONSTANTS
    Processes = {p1}
    NoProcess = NoProcess
    Killers = {k1}
    Destroyers = {d1, d2}
    Files = {}
    RejectedStartMayLand = FALSE
SPECIFICATION Spec
INVARIANT TimedOutDestroyStaysClosed
CHECK_DEADLOCK FALSE
