SPECIFICATION FairSpec
CONSTANTS
    r1 = r1
    r2 = r2
    Rules = {r1, r2}
    Schedules <- AnySchedule
    Intervals = {0}
    PollSeconds = 1
    MinInterval = 2
    Longest = 3
    UnsetWait = 2
    Back = 1
    MaxSetBacks = 1
    MaxRestarts = 1
    MaxEdits = 1
    Never = Never
INVARIANTS
    TypeOK
PROPERTIES
    GapKept
    IntervalRuns
