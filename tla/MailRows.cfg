SPECIFICATION FairSpec
CONSTANTS
    report = report  c1 = c1  c2 = c2  s1 = s1  s2 = s2  r1 = r1
    Message <- OneReport
    Keyed <- NoMessage
    WithFiles <- OneReport
    Stoppable <- NoMessage
    Caller <- OneCaller
    Scheduler <- OneScheduler
    Request <- NoThread
    DomainRules <- AnyDomain
    LastEmail = 2
    Batch = 2
    Backoffs = 1
    MaxCrashes = 1
    MaxRetries = 1
    AnswersLost = TRUE
PROPERTIES Settles KeepsContract
