SPECIFICATION Spec
CONSTANTS
    NULL = NULL
    t1 = t1  t2 = t2  t3 = t3  t4 = t4  t5 = t5
    Tx = {t2, t3, t5}
    Hash = {t2, t3, t5}
    TxRecord <- Ledger
    Unit = 10
    Precision = 2
    ScanLimit = 50
    PageSize = 10
    Caller <- OneCaller
    DefaultNetwork = "public"
    Account <- Accounts
    AssetCode <- Codes
    Memo <- OneMemo
    Order <- EitherPayer
    Patch <- Nothing
    Listed <- Nothing
    Route = {"create", "validate"}
    Requests = {r1, r2}
    Observers = {o1}
    MaxIntents = 1
    MaxRequests = 2
    MaxFaults = 1
    Batch = 50
INVARIANTS
    SettlementInv
    PayersAddUp
PROPERTIES
    TermsFrozen
    ImplementsSettlement
