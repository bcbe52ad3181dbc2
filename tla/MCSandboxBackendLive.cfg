CONSTANTS
    Processes = {p1}
    NoProcess = NoProcess
    Killers = {k1}
    Destroyers = {d1}
    Files = {f1}
    RejectedStartMayLand = TRUE
SPECIFICATION FairSpec
PROPERTY CallsReturn
PROPERTY DownForGood
CHECK_DEADLOCK FALSE
