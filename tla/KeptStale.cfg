SPECIFICATION Spec
CONSTANTS
    f1 = f1  f2 = f2  p1 = p1  a1 = a1  a2 = a2  None = None
    Sources = 1
    Refresher <- OneRefresher
    Page <- OnePage
    Admin <- Nobody
    Minute = 2
    Ttls <- Short
    FirstRetry = 1
    Cadence = 2
    TellAfter = 2
    LastTime = 4
    MaxChanges = 1
    MaxFailures = 0
    MaxStops = 0
INVARIANTS NextViewUnderAccess
