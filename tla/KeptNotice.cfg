SPECIFICATION Spec
CONSTANTS
    f1 = f1  f2 = f2  p1 = p1  a1 = a1  a2 = a2  None = None
    Sources = 2
    Refresher <- TwoRefreshers
    Page <- OnePage
    Admin <- Nobody
    Minute = 2
    Ttls <- Short
    FirstRetry = 1
    Cadence = 2
    TellAfter = 2
    LastTime = 2
    MaxChanges = 0
    MaxFailures = 4
    MaxStops = 1
INVARIANTS ToldOnce ClaimIsKept
SYMMETRY Refreshers
