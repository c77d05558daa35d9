SPECIFICATION RelaySpec
CONSTANTS
    NULL = NULL
    t1 = t1  t2 = t2  t3 = t3  t4 = t4  t5 = t5
    Tx = {t1}
    Hash = {t1}
    TxRecord <- Ledger
    Unit = 10
    Precision = 2
    ScanLimit = 50
    PageSize = 10
    Caller <- TwoCallers
    DefaultNetwork = "public"
    Account <- Accounts
    AssetCode <- Codes
    Memo <- OneMemo
    Order <- OpenOrder
    Patch <- Nothing
    Listed <- Nothing
    Route = {"create"}
    Requests = {r1}
    Observers = {o1}
    MaxIntents = 1
    MaxRequests = 1
    MaxFaults = 1
    Batch = 50
    Url = {"u1"}
    EndpointPatch <- Pause
    Filter <- Settlements
    Resender = {}
    MaxAttempts = 2
    MaxEvents = 2
    MaxEndpoints = 1
    MaxEdits = 1
    MaxRedeliveries = 0
    MaxFailures = 1
INVARIANTS
    ToldOfRealPayments
    RelayInv
PROPERTIES
    SettlementReachesSubscriber
    DeliveriesResolved
