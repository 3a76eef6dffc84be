SPECIFICATION Spec
CONSTANTS
    Runners = {r1, r2}
    Plans = {0, 1, 2, 3}
    Mode = "every_plan"
    ScheduleDelay = 0
    CatchUpWindow = 2
    Lateness = 0
    Anchor = 0
    MaxPlansPerTick = 2
    RunTimeout = 1
    StaleTimeout = 2
    AllowStaleReentry = TRUE
    MaxAttempts = 2
    RetryDelay <- Backoff1
    History = {0}
    Start = 0
    Horizon = 4
    MaxCrashes = 1
    MaxDbErrors = 1
SYMMETRY RunnerSymmetry
INVARIANTS TypeOK LeaseExclusive LeaseCoversRun NoGap
PROPERTIES VerdictRecorded ImplementsLedger
CHECK_DEADLOCK FALSE
