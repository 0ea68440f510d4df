SPECIFICATION Spec
CONSTANTS
    q1 = q1
    q2 = q2
    s1 = s1
    s2 = s2
    h1 = h1
    t1 = t1
    t2 = t2
    t3 = t3
    t4 = t4
    m1 = m1
    m2 = m2
    m3 = m3
    u1 = u1
    u2 = u2
    r1 = r1
    r2 = r2
    f1 = f1
    f2 = f2
    w1 = w1
    w2 = w2
    x1 = x1
    x2 = x2
    d1 = d1
    d2 = d2
    Own = Own
    Nobody = Nobody
    Query = {q1, q2}
    MaxSignings = 1
    MaxMakings = 3
    MaxRestarts = 1
    Scheduler = {s1, s2}
    Hand = {h1}
    Every = 1
    LastTime = 1
    Turn = {t1, t2, t3, t4}
    MessageOf <- MCMessageOf
    UserOf <- MCUserOf
    MaxLocks = 1
    Sender = {s1, s2}
    Pace = 1
    LastMoment = 3
    Request = {r1, r2}
    Field = {f1, f2}
    WritesOf <- MCWritesOf
    ByCheck = {r2}
    MaxEdits = 1
    Login = {q1, q2}
    FREE_FAILURES = 1
    WINDOW = 3
    FIRST_WAIT = 1
    MAX_WAIT = 3
    MaxFailures = 4
    LastMinute = 4
    Asker = {q1, q2}
    Decisions = {d1, d2}
    NoModel = NoModel
    MaxUpdates = 2
    Worker = {w1, w2}
    Question = {x1, x2}
    Digest = {d1, d2}
    None = None
    MaxEvents = 2
INVARIANTS
    ServerSound
    UnmaskedIsLogged
    VerdictIsSound
    NothingStays
    ReadyHasItsFile
    StillReadable
    FiresOnce
    BellIsTrue
    OneTurnAtATime
    OneNoticePerPeriod
    NoUpdateLost
    CanBeUndone
    UndoneGoesBack
    GuessesAreSpaced
    FewMistakesAreFree
    AnsweredAsOfNow
    NothingDueIsChecked
PROPERTIES
    MakingEnds
    TurnsEnd
    AnswersGetChecked
CHECK_DEADLOCK FALSE
