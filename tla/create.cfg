SPECIFICATION Spec
CONSTANTS
    NULL = NULL
    t1 = t1  t2 = t2  t3 = t3  t4 = t4  t5 = t5
    Tx = {}
    Hash = {}
    TxRecord <- Ledger
    Unit = 10
    Precision = 2
    ScanLimit = 50
    PageSize = 10
    Caller <- TwoCallers
    DefaultNetwork = "public"
    Account <- Accounts
    AssetCode <- Codes
    Memo <- TwoMemos
    Order <- MixedOrders
    Patch <- Nothing
    Listed <- AnyPayer
    Route = {"create", "remove", "customers"}
    Requests = {r1, r2}
    Observers = {}
    MaxIntents = 3
    MaxRequests = 3
    MaxFaults = 0
    Batch = 50
INVARIANTS
    IdempotentCreate
\* Without an observer the system rests once no request is left.
CHECK_DEADLOCK FALSE
