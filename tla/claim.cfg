SPECIFICATION Spec
CONSTANTS
    NULL = NULL
    t1 = t1  t2 = t2  t3 = t3  t4 = t4  t5 = t5
    Tx = {t1}
    Hash = {t1, ""}
    TxRecord <- Ledger
    Unit = 10
    Precision = 2
    ScanLimit = 50
    PageSize = 10
    Caller <- TwoProd
    DefaultNetwork = "public"
    Account <- Accounts
    AssetCode <- Codes
    Memo <- OneMemo
    Order <- FixedOrder
    Patch <- Reports
    Listed <- Nothing
    Route = {"create", "update", "validate"}
    Requests = {r1, r2}
    Observers = {o1}
    MaxIntents = 2
    MaxRequests = 3
    MaxFaults = 0
    Batch = 50
SYMMETRY Symmetry
INVARIANTS
    TypeOK
    NoDoubleClaim
    OwnerScoped
    SettledIsBacked
    LifecycleInv
