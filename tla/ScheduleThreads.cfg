SPECIFICATION Spec
CONSTANTS
    s1 = s1  s2 = s2  r1 = r1
    Schedules = 1
    People = 2
    Scheduler <- TwoSchedulers
    Request <- NoRequest
    LastTime = 2
    Cadences <- Daily
    Limit = 1
    Buttons <- NoButton
    Presses = 0
    MaxEdits = 2
    MaxCrashes = 1
INVARIANTS OneDelivery OneEmailEach ReportTrue RunsSound NeverLeftDue
CONSTRAINT QuietAtTheEnd
SYMMETRY Threads
