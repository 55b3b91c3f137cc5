\* Two handlers in flight on one proof: every interleaving of review,
\* resubmission and upload, with crashes and disk faults.
SPECIFICATION Spec
CONSTANTS
    None = None
    Drivers = {driver1}
    Owners = {owner1, owner2}
    Proofs = {proof1}
    Images = {img1, img2, img3}
    Reasons = {reason1}
    Requests = {r1, r2}
    Faults = {"crash", "disk"}
    OcrRecorded = {"COMPLETED"}
    MaxAttempts = 3
    MaxClock = 2
SYMMETRY Symmetry
INVARIANTS
    ParentMirrorsLatest
    NoDanglingImage
    ImageOwnedOnce
    NoOrphanImage
PROPERTIES
    TimelineOrdered
    HistoryImmutable
    VerifiedIsFinal
    ImplementsHistory
