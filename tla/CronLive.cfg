SPECIFICATION FairSpec
CONSTANTS
    Runners = {r1, r2}
    Plans = {0, 2}
    Mode = "hook"
    ScheduleDelay = 0
    CatchUpWindow = 5
    Lateness = 4
    Anchor <- BeforeTime
    MaxPlansPerTick = 2
    RunTimeout = 1
    StaleTimeout = 2
    AllowStaleReentry = TRUE
    MaxAttempts = 2
    RetryDelay <- Backoff1
    History = {}
    Start = 0
    Horizon = 4
    MaxCrashes = 1
    MaxDbErrors = 0
PROPERTIES AbandonedLeaseClosed NewestPlanSettles
CHECK_DEADLOCK FALSE
