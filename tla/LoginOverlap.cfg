\* Two attempts in flight on a name with an account and one without.
SPECIFICATION Spec
CONSTANTS
    Usernames = {driver1, nobody}
    Accounts = {driver1}
    Requests = {r1, r2}
    MAX_ATTEMPTS = 2
    WINDOW_MS = 2
    MaxClock = 4
SYMMETRY RequestSymmetry
INVARIANTS
    LimitIsExact
    GuessesBounded
PROPERTIES
    LockoutNotProlonged
