CONSTANTS
    MaxOutput = 2
    NoRecord = NoRecord
SPECIFICATION FairSpec
INVARIANT TypeOK
INVARIANT ReleaseSafeMeansGone
PROPERTY ImplementsRunRecord
INVARIANT FirstCauseWins
INVARIANT EachLeaseDestroyedOnce
PROPERTY KillBeforeDestroy
PROPERTY ComesToRecord
CHECK_DEADLOCK FALSE
