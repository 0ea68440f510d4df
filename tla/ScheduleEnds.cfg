SPECIFICATION FairSpec
CONSTANTS
    s1 = s1  s2 = s2  r1 = r1
    Schedules = 1
    People = 1
    Scheduler <- OneScheduler
    Request <- OneRequest
    LastTime = 1
    Cadences <- Daily
    Limit = 1
    Buttons <- TestButton
    Presses = 1
    MaxEdits = 1
    MaxCrashes = 1
PROPERTY RunsEnd
