\* Every handler in flight ends and every stored image settles, under weak
\* fairness of the handlers alone.
SPECIFICATION FairSpec
CONSTANTS
    None = None
    Drivers = {driver1}
    Owners = {owner1}
    Proofs = {proof1}
    Images = {img1, img2, img3}
    Reasons = {reason1}
    Requests = {r1, r2}
    Faults = {"crash", "disk"}
    OcrRecorded = {"COMPLETED"}
    MaxAttempts = 2
    MaxClock = 0
PROPERTIES
    HandlersEnd
    ImagesSettle
