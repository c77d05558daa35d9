------------------------------- MODULE Analytics -------------------------------
(***************************************************************************)
(* The money figures of the dashboard: balances and overview               *)
(* (src/analytics/analytics.service.ts), and the statistics that the       *)
(* customers page shows of each payer (findAll of                          *)
(* src/customers/customers.service.ts).  They are computed from the        *)
(* payment_intent table at the moment of the request, so they are state    *)
(* functions of the specification of the service and its observer.  Sums   *)
(* are exact here; the code adds doubles and rounds them to seven places.  *)
(***************************************************************************)
EXTENDS StellarObserver

\* The ledger: payments have amounts, and the native asset has no code.
ASSUME LedgerAssumption ==
    /\ NULL \notin AssetCode \cup Nat
    /\ \A t \in Tx :
          LET ops == TxRecord[t].ops IN
          /\ IsFiniteSet(DOMAIN ops)
          /\ \A k \in DOMAIN ops :
                ops[k].type = "payment" =>
                    ops[k].amount \in Nat /\ (ops[k].assetType = "native" => ops[k].assetCode = NULL)

AnalyticsNetwork(c) == IF c.environment = "prod" THEN "public" ELSE "testnet"

Num(amount) == IF amount = NULL THEN 0 ELSE Number(amount)

AssetLabel(asset) == IF asset = "native" THEN "XLM" ELSE asset

\* The sum of a function into the natural numbers: the units of all its values.
Units(f) == UNION {{x} \X (1..f[x]) : x \in DOMAIN f}
SumOf(f) == Cardinality(Units(f))

Total(ids) == SumOf([i \in ids |-> Num(intents[i].amount)])

WithStatus(statuses, ids) == {i \in ids : intents[i].status \in statuses}

OfAsset(label, ids) == {i \in ids : AssetLabel(intents[i].asset) = label}

LabelsOf(ids) == {AssetLabel(intents[i].asset) : i \in ids}

\* The rows of the consumer on the network that its key is scoped to.
InScope(c) ==
    {i \in Stored : intents[i].owner = c.username /\ intents[i].network = AnalyticsNetwork(c)}

-----------------------------------------------------------------------------
Balances(c) ==
    [label \in LabelsOf(InScope(c)) |->
        LET ids == OfAsset(label, InScope(c))
        IN  [settled |-> Total(WithStatus({"SUCCEEDED"}, ids)),
             pending |-> Total(WithStatus({"PENDING", "SUBMITTED"}, ids)),
             count   |-> Cardinality(WithStatus({"SUCCEEDED"}, ids))]]

Volume(c) ==
    LET succeeded == WithStatus({"SUCCEEDED"}, InScope(c))
    IN  [label \in LabelsOf(succeeded) |->
            [amount |-> Total(OfAsset(label, succeeded)),
             count  |-> Cardinality(OfAsset(label, succeeded))]]

\* Of every payer of a consumer, on any network and in any asset.
PayerStats(user) ==
    LET paid == {i \in Stored : intents[i].owner = user /\ intents[i].source # NULL}
    IN  [account \in {intents[i].source : i \in paid} |->
            LET ids == {i \in paid : intents[i].source = account}
            IN  [payments  |-> Cardinality(ids),
                 succeeded |-> Cardinality(WithStatus({"SUCCEEDED"}, ids)),
                 total     |-> Total(WithStatus({"SUCCEEDED"}, ids))]]

\* The page itself: every stored customer, the n-th with its account being the
\* line <<account, n>>, with the statistics of that account.  So a payer without
\* a row is not on it, and one with two rows is on it twice.  The two queries of
\* the page are sent together and read at one moment here.
CustomersPage(user) ==
    LET stats == PayerStats(user)
    IN  [line \in UNION {{a} \X (1..customers[<<user, a>>].rows) : a \in Optional(Account)} |->
            IF line[1] \in DOMAIN stats THEN stats[line[1]]
            ELSE [payments |-> 0, succeeded |-> 0, total |-> 0]]

-----------------------------------------------------------------------------
(***************************************************************************)
(* Properties.                                                             *)
(***************************************************************************)
\* What each consumer's key for the network is shown of an asset.
Keys(network) ==
    [username : Username, environment : IF network = "public" THEN {"prod"} ELSE {"dev"}]

SettledShown(c, label) == IF label \in DOMAIN Balances(c) THEN Balances(c)[label].settled ELSE 0
CountShown(c, label)   == IF label \in DOMAIN Balances(c) THEN Balances(c)[label].count ELSE 0
VolumeShown(c, label)  == IF label \in DOMAIN Volume(c) THEN Volume(c)[label].amount ELSE 0

\* What the network has seen paid in an asset, and in how many transactions.
Paying(network, label) ==
    {pos \in UNION {{<<t, k>> : k \in DOMAIN TxRecord[t].ops} : t \in Landed(ledger)} :
        LET op == TxRecord[pos[1]].ops[pos[2]]
        IN  /\ TxRecord[pos[1]].network = network /\ TxRecord[pos[1]].successful
            /\ op.type = "payment"
            /\ label = IF op.assetType = "native" THEN "XLM" ELSE op.assetCode}

Arrived(paying) == SumOf([pos \in paying |-> Num(TxRecord[pos[1]].ops[pos[2]].amount)])

\* The settled intents of a network in an asset, and those of them whose status
\* or hash a client wrote last.
SettledOn(network, label) ==
    {i \in Stored : /\ intents[i].status = "SUCCEEDED" /\ intents[i].network = network
                    /\ AssetLabel(intents[i].asset) = label}

Declared(network, label) == SettledOn(network, label) \cap patched

\* No money is shown twice: what all merchants together see as settled in an
\* asset, on either page, is covered by payments that landed, and by as many
\* transactions as intents, except for what clients themselves declared by a
\* PATCH.  It takes every verdict, every claim of a hash and every stale write
\* of the service to be right, beside clients that write hashes and statuses.
SettledIsBacked ==
    \A network \in Network, label \in {AssetLabel(a) : a \in AssetCode \cup {"native"}} :
        LET keys     == Keys(network)
            paying   == Paying(network, label)
            declared == Declared(network, label)
            money    == Arrived(paying) + Total(declared)
        IN  /\ SumOf([c \in keys |-> SettledShown(c, label)]) <= money
            /\ SumOf([c \in keys |-> VolumeShown(c, label)]) <= money
            /\ SumOf([c \in keys |-> CountShown(c, label)])
                  <= Cardinality({pos[1] : pos \in paying}) + Cardinality(declared)

\* The payer has a customer row, or is about to get one, or the merchant took
\* a row of it away, or a failure kept the service from recording it.
OnFile(user, account) ==
    LET c == customers[<<user, account>>]
    IN  \/ c.rows > 0 \/ c.finding > 0 \/ c.creating > 0 \/ c.removed
        \/ faults > 0
        \/ \E p \in Proc : /\ task[p].step = "emit" /\ task[p].event.owner = user
                           /\ task[p].payer = account

\* The first line of each account.
FirstLines(user) == {line \in DOMAIN CustomersPage(user) : line[2] = 1}

\* Settled intents whose source has no line on the page.
OffPage(user) ==
    {i \in Stored : /\ intents[i].owner = user /\ intents[i].status = "SUCCEEDED"
                    /\ ~\E line \in FirstLines(user) : line[1] # NULL /\ line[1] = intents[i].source}

\* The customers page loses no money: its lines, one for each account, add up
\* to all that was settled for the consumer, less what has no line.  And nothing
\* the service settled lacks one but while its payer's row is on its way, was
\* taken away by the merchant or lost to a failure, or when another account
\* than the known source of a TX intent sent the transaction.
PayersAddUp ==
    \A user \in Username :
        LET page    == CustomersPage(user)
            settled == WithStatus({"SUCCEEDED"}, {i \in Stored : intents[i].owner = user})
        IN  /\ SumOf([line \in FirstLines(user) |-> page[line].total]) + Total(OffPage(user))
                  = Total(settled)
            /\ \A i \in OffPage(user) \ patched :
                  \/ OnFile(user, intents[i].source)
                  \/ /\ intents[i].kind = "TX"
                     /\ \E other \in Account \ {intents[i].source} : PaidFrom(intents[i].txHash, other)

(***************************************************************************)
(* The inductive invariant behind PayersAddUp.                             *)
(***************************************************************************)
\* The service keeps the payers of its settlements on file: of each intent
\* that got its source at settlement, of each transaction that settled one,
\* and whoever is about to settle knows its payer and records no other.
PayersOnFile ==
    /\ \A i \in Stored :
          intents[i].kind = "PAY" /\ intents[i].source # NULL =>
              OnFile(intents[i].owner, intents[i].source)
    /\ \A i \in Stored \ patched :
          intents[i].status = "SUCCEEDED" =>
              \E payer \in Account :
                  PaidFrom(intents[i].txHash, payer) /\ OnFile(intents[i].owner, payer)
    /\ \A p \in Proc :
          /\ task[p].step \in {"markRead", "markWrite"} => PaidFrom(task[p].hash, task[p].payer)
          /\ task[p].step = "markWrite" => task[p].source \in {NULL, task[p].payer}
=============================================================================
