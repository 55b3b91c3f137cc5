\* Two drivers, each with the inbox open in up to two tabs, while reviews and
\* resubmissions commit, with crashes; the cap hides the oldest of three events.
SPECIFICATION NSpec
CONSTANTS
    None = None
    Drivers = {driver1, driver2}
    Owners = {owner1}
    Proofs = {proof1}
    Images = {img1}
    Reasons = {reason1}
    Requests = {r1}
    Faults = {"crash"}
    OcrRecorded = {}
    MaxAttempts = 2
    MaxClock = 1
    Loads = {load1, load2}
    MaxNotifications = 2
SYMMETRY InboxSymmetry
INVARIANTS
    SeenStaysRead
PROPERTIES
    FeedFollowsHistory
    UnreadFallsOnlyByMark
