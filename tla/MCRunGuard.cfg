CONSTANTS
    Requests = {r1, r2, r3}
    Tokens = {runToken, controlToken}
    runToken = runToken
    controlToken = controlToken
    Scopes <- MCScopes
    Budget <- MCBudget
    BodyMayArriveLate = FALSE
    Absent = Absent
    NoReceipt = NoReceipt
SPECIFICATION FairSpec
INVARIANT TypeOK
INVARIANT BudgetHolds
INVARIANT LatchHasOwner
PROPERTY TerminalIsFinal
PROPERTY DestroyShutsTheRun
PROPERTY ImplementsGate
PROPERTY DestroyIsAnswered
CHECK_DEADLOCK FALSE
