SPECIFICATION Spec
CONSTANTS
    NULL = NULL
    User = {shop, cafe}
    EventType = {"SUCCEEDED"}
    Data = {"intent"}
    Url = {"u1"}
    EndpointPatch <- Edits
    Filter <- AllTypes
    Resender = {r1, r2}
    MaxAttempts = 2
    MaxEvents = 1
    MaxEndpoints = 2
    MaxEdits = 1
    MaxRedeliveries = 2
    MaxFailures = 1
\* Requests and edits are bounded, so the system rests when all are done.
CHECK_DEADLOCK FALSE
SYMMETRY Symmetry
INVARIANTS
    TypeOK
    AcknowledgedIsReal
    FailedWasRetried
    NoInventedAttempts
    BoundedPosts
    RetryInv
    OwnEventsOnly
    DeliveryInv
