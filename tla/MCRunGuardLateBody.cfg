CONSTANTS
    Requests = {r1, r2, r3}
    Tokens = {runToken, controlToken}
    runToken = runToken
    controlToken = controlToken
    Scopes <- MCScopes
    Budget <- MCBudget
    BodyMayArriveLate = TRUE
    Absent = Absent
    NoReceipt = NoReceipt
SPECIFICATION Spec
INVARIANT BudgetHolds
CHECK_DEADLOCK FALSE
