SPECIFICATION Spec
CONSTANTS
    f1 = f1  f2 = f2  p1 = p1  a1 = a1  a2 = a2  None = None
    Sources = 1
    Refresher <- OneRefresher
    Page <- OnePage
    Admin <- OneAdmin
    Minute = 2
    Ttls <- ShortAndLong
    FirstRetry = 1
    Cadence = 2
    TellAfter = 2
    LastTime = 3
    MaxChanges = 2
    MaxFailures = 1
    MaxStops = 0
INVARIANTS TypeOK KeptUnderAccess EndsWithItsGrant ServedNoOlderPolicy KeptSound
CHECK_DEADLOCK FALSE
