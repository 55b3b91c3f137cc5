\* Two sessions of the page, or one thread of the service, and books that change.
SPECIFICATION SessionsSpec
CONSTANTS
    None = None
    s1 = s1
    s2 = s2
    t1 = t1
    Sessions = {s1, s2}
    Threads = {t1}
    Workers <- MCWorkers
    Tools <- MCTools
    Reads <- MCReads
    Statement = "get_customer_statement"
    Short = {"get_business_alerts"}
    Questions = {"get_customer_statement"}
    MaxAsked <- MCAsked
    MaxBooks = 1
    RATE_LIMIT_MAX = 2
    RATE_LIMIT_WINDOW = 2
    MaxClock = 3
CHECK_DEADLOCK FALSE
INVARIANTS
    FiguresAreFresh
    AnswersFollowQuestions
    AskedAtMostOnce
    HistoryNeedsNoOdoo
    RefreshShowsNow
    NeverFailsOffline
    FailsClosed
    RollingLimit
PROPERTIES
    RefusalEarned
