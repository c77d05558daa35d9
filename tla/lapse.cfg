SPECIFICATION FairSpec
CONSTANTS
    NULL = NULL
    t1 = t1  t2 = t2  t3 = t3  t4 = t4  t5 = t5
    Tx = {}
    Hash = {}
    TxRecord <- Ledger
    Unit = 10
    Precision = 2
    ScanLimit = 50
    PageSize = 10
    Caller <- OneCaller
    DefaultNetwork = "public"
    Account <- Accounts
    AssetCode <- Codes
    Memo <- TwoMemos
    Order <- TwoOrders
    Patch <- Submitted
    Listed <- Nothing
    Route = {"create", "update"}
    Requests = {r1}
    Observers = {o1}
    MaxIntents = 2
    MaxRequests = 3
    MaxFaults = 1
    Batch = 1
PROPERTIES
    ObserverAlwaysReturns
    OverdueResolved
