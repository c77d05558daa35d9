SPECIFICATION Spec
CONSTANTS
    NULL = NULL
    GatewaySecret = "secret"
    Request <- Requests
    Shelf <- Stock
    MaxRequests = 3
    MaxFaults = 1
\* The system rests when every request is answered and logged.
CHECK_DEADLOCK FALSE
INVARIANTS
    TypeOK
    ServedToEntitled
    EntitledIsServed
    RemovedOnce
    NoUpdateLost
    ConsoleInv
PROPERTIES
    ChangedByOwner
    EveryRequestAccounted
