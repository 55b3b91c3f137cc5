\* Two requests at a time.
SPECIFICATION Spec
CONSTANTS
    Threads = {t1, t2}
    RATE_LIMIT_MAX = 2
    RATE_LIMIT_WINDOW = 2
    MaxClock = 2
INVARIANTS
    RollingLimit
