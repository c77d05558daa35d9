------------------------------ MODULE MCObserver ------------------------------
(***************************************************************************)
(* Values for the constants of StellarObserver: two merchants, two payers, *)
(* and small sets of orders, patches and transactions for the .cfg files   *)
(* to choose from.                                                         *)
(***************************************************************************)
EXTENDS Analytics, SettlementRefinement, TLC

CONSTANTS t1, t2, t3, t4, t5

Shop  == [username |-> "shop", environment |-> "prod"]
Cafe  == [username |-> "cafe", environment |-> NULL]

OneCaller    == {Shop}
TwoCallers   == {Shop, Cafe}
TwoProd      == {Shop, [Cafe EXCEPT !.environment = "prod"]}

Accounts  == {"till", "alice", "bob", "issuer"}
Codes     == {"USDC"}
OneMemo   == {"1"}
TwoMemos  == {"1", "2"}

PayOrder(memo, amount) ==
    [kind |-> "PAY", source |-> NULL, destination |-> "till", assetCode |-> NULL,
     assetIssuer |-> NULL, amount |-> amount, memo |-> memo]

TxOrder(memo, amount) ==
    [kind |-> "TX", source |-> "alice", destination |-> "till", assetCode |-> "USDC",
     assetIssuer |-> "issuer", amount |-> amount, memo |-> memo]

OpenOrder    == {PayOrder("1", NULL)}
FixedOrder   == {PayOrder("1", 2)}
TwoOrders    == {PayOrder("1", NULL), PayOrder("2", 2)}
\* The same memo for two different things, a generated memo, and a refusal.
MixedOrders  == {TxOrder("1", 2), PayOrder("1", NULL), PayOrder(NULL, 2),
                 [TxOrder("1", 2) EXCEPT !.assetIssuer = NULL]}

KnownPayer   == {[TxOrder("1", 2) EXCEPT !.assetCode = "XLM"]}
EitherPayer  == OpenOrder \cup KnownPayer
CreditOrder  == {PayOrder("1", 2), TxOrder("1", 2)}
\* Nothing tells the slots for requests apart.
Symmetry == Permutations(Requests)

AnyPayer     == {"alice", NULL}
Nothing      == {}
Advance(status) == [status |-> status, setsHash |-> FALSE, txHash |-> NULL]
Report(status, hash) == [status |-> status, setsHash |-> TRUE, txHash |-> hash]

Submitted    == {Advance("SUBMITTED")}
\* A hash attached, emptied with the status put back, and taken back; a
\* settlement that the client declares; and nothing but a reference.
Reports      == {Report(NULL, t1), Report("PENDING", ""), Report(NULL, NULL),
                 Advance("SUCCEEDED"), Advance(NULL)}

Native(from, amount) ==
    [type |-> "payment", from |-> from, to |-> "till", assetType |-> "native",
     assetCode |-> NULL, assetIssuer |-> NULL, amount |-> amount]

Credit(from, amount) ==
    [Native(from, amount) EXCEPT !.assetType = "credit_alphanum4",
                                 !.assetCode = "USDC", !.assetIssuer = "issuer"]

Pays(memo, ops) ==
    [network |-> "public", successful |-> TRUE, memoType |-> "id", memo |-> memo, ops |-> ops]

\* t1 and t2 pay 2 of the smallest units under memo 1, t2 from the
\* other payer; t3 failed; t4 pays memo 2; t5 pays memo 1 in the credit asset.
Ledger ==
    t1 :> Pays("1", <<Native("alice", 2)>>)
    @@ t2 :> Pays("1", <<Native("bob", 2)>>)
    @@ t3 :> [Pays("1", <<Native("bob", 2)>>) EXCEPT !.successful = FALSE]
    @@ t4 :> Pays("2", <<Native("bob", 2)>>)
    @@ t5 :> Pays("1", <<Native("alice", 3), Credit("alice", 2)>>)
=============================================================================
