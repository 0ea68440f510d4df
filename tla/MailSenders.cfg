SPECIFICATION Spec
CONSTANTS
    report = report  c1 = c1  c2 = c2  s1 = s1  s2 = s2  r1 = r1
    Message <- OneReport
    Keyed <- OneReport
    WithFiles <- NoMessage
    Stoppable <- OneReport
    Caller <- TwoCallers
    Scheduler <- OneScheduler
    Request <- OneRequest
    DomainRules <- AnyDomain
    LastEmail = 2
    Batch = 1
    Backoffs = 1
    MaxCrashes = 1
    MaxRetries = 1
    AnswersLost = TRUE
INVARIANTS OneRowPerKey OncePerMessage LogIsTrue GivesUp OutboxSound
SYMMETRY Threads
