SPECIFICATION Spec
CONSTANTS
    report = report  c1 = c1  c2 = c2  s1 = s1  s2 = s2  r1 = r1
    Message <- OneReport
    Keyed <- OneReport
    WithFiles <- OneReport
    Stoppable <- NoMessage
    Caller <- OneCaller
    Scheduler <- TwoSchedulers
    Request <- OneRequest
    DomainRules <- AnyDomain
    LastEmail = 1
    Batch = 1
    Backoffs = 1
    MaxCrashes = 0
    MaxRetries = 1
    AnswersLost = TRUE
INVARIANT NeverSentBare
