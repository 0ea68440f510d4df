SPECIFICATION Spec
CONSTANTS
    s1 = s1  s2 = s2  r1 = r1
    Schedules = 1
    People = 1
    Scheduler <- OneScheduler
    Request <- NoRequest
    LastTime = 4
    Cadences <- OddOrEven
    Limit = 1
    Buttons <- NoButton
    Presses = 0
    MaxEdits = 2
    MaxCrashes = 0
INVARIANT NextOnCadence
