SPECIFICATION FairSpec
CONSTANTS
    Requests = {r1, r2, r3}
    Limit = 2
    LastWeek = 1
    PromptCharges = TRUE
    MayCrash = TRUE
INVARIANT
    CounterMatchesBills
    WeeklyLimit
    StatusIsExact
    AuditMatchesCounter
    BilledOnlyForFiles
PROPERTY
    RejectedOnlyWhenSpent
    ImplementsLedger
    EveryChargeSettles
    TempFilesReleased
