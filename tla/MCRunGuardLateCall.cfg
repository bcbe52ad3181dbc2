CONSTANTS
    Requests = {r1, r2}
    Tokens = {runToken, controlToken}
    runToken = runToken
    controlToken = controlToken
    Scopes <- MCScopes
    Budget <- MCBudget
    BodyMayArriveLate = FALSE
    Absent = Absent
    NoReceipt = NoReceipt
SPECIFICATION Spec
INVARIANT KilledRunHasNoSandbox
CHECK_DEADLOCK FALSE
