SPECIFICATION FairSpec
CONSTANTS
    s1 = s1  s2 = s2  r1 = r1
    Schedules = 1
    People = 1
    Scheduler <- OneScheduler
    Request <- NoRequest
    LastTime = 2
    Cadences <- Daily
    Limit = 1
    Buttons <- NoButton
    Presses = 0
    MaxEdits = 1
    MaxCrashes = 1
PROPERTY KeepsToSchedule
