--------------------------- MODULE StellarVerifier ---------------------------
(***************************************************************************)
(* The rule that decides whether an on-chain Stellar transaction fulfils a *)
(* payment intent (src/payment-intents/stellar-verifier.service.ts), over  *)
(* the view of the ledger that Horizon serves.  Everything here is a pure  *)
(* operator: a landed transaction never changes, so the several Horizon    *)
(* calls of one verification read what the first of them could have read.  *)
(* A transaction has one hash here.  Horizon also answers to the inner     *)
(* hash of a fee-bump transaction, and verifyByHash names it by the hash   *)
(* it was asked for; that second name is not modelled.                     *)
(***************************************************************************)
EXTENDS Integers, Sequences, FiniteSets

CONSTANTS
    Tx,         \* transaction hashes
    TxRecord,   \* what Horizon reports of each: a function on Tx
    NULL,       \* an absent optional value
    Unit,       \* smallest units in a whole one (10^7 on Stellar)
    Precision,  \* significant bits a JavaScript number keeps (53 in the code)
    ScanLimit,  \* records findMatchingPayment asks Horizon for (50 in the code)
    PageSize    \* records Horizon returns when no limit is asked (10)

Network == {"public", "testnet"}

ASSUME NumberAssumption == Unit \in Nat \ {0} /\ Precision \in Nat

(***************************************************************************)
(* Number(s) of a decimal string.  An amount a is its count of smallest    *)
(* units, so the string says a / Unit, which a double keeps to Precision   *)
(* significant bits, rounded to the nearest, ties to even.  Doubles of     *)
(* amounts are multiples of 2^-Fine and are counted in that unit: the      *)
(* amount is Scaled(a) / Unit of them.                                     *)
(***************************************************************************)
\* The first power of two that reaches Unit * 2^Precision.
Reaches(k) == Unit * 2 ^ Precision <= 2 ^ k

Fine == CHOOSE k \in 0..(Unit * 2 ^ Precision) : Reaches(k) /\ \A j \in 0..(k - 1) : ~Reaches(j)

Scaled(a) == a * 2 ^ Fine

\* The distance between the doubles next to the amount.
Fits(a, k) == Scaled(a) < Unit * 2 ^ (Precision + k)

Ulp(a) == 2 ^ (CHOOSE k \in 0..Scaled(a) : Fits(a, k) /\ \A j \in 0..(k - 1) : ~Fits(a, j))

Number(a) ==
    LET step == Unit * Ulp(a)
        down == Scaled(a) \div step
        rest == 2 * (Scaled(a) % step)
        up   == rest > step \/ (rest = step /\ down % 2 = 1)
    IN  (IF up THEN down + 1 ELSE down) * Ulp(a)

(***************************************************************************)
(* memoMatches and paymentMatches.                                         *)
(***************************************************************************)
MemoMatches(intent, tx) == tx.memoType = "id" /\ tx.memo = intent.memo

AssetMatches(intent, op) ==
    IF intent.asset = "native"
    THEN op.assetType = "native"
    ELSE op.assetCode = intent.asset /\ op.assetIssuer = intent.assetIssuer

PaymentMatches(intent, op) ==
    /\ op.type = "payment"
    /\ op.to = intent.destination
    /\ AssetMatches(intent, op)
    /\ intent.amount # NULL => Number(op.amount) = Number(intent.amount)

-----------------------------------------------------------------------------
(***************************************************************************)
(* verifyByHash: the transaction is looked up on the intent's network and  *)
(* the checks are made in the order of the code.  The verdict "failed" is  *)
(* the one reason its callers tell apart from the other refusals.  The     *)
(* definitions with a suffix, here and in the other modules, are broken    *)
(* variants that the properties are tried against.                         *)
(***************************************************************************)
Landed(ledger) == {ledger[n] : n \in DOMAIN ledger}

OnNetwork(intent, ledger) ==
    {t \in Landed(ledger) : TxRecord[t].network = intent.network}

FirstPage(t) == {k \in DOMAIN TxRecord[t].ops : k <= PageSize}

MatchingOps(intent, t) ==
    {k \in FirstPage(t) : PaymentMatches(intent, TxRecord[t].ops[k])}

\* Every reason to refuse a transaction that landed and succeeded.
Mismatch(intent, t) ==
    ~MemoMatches(intent, TxRecord[t]) \/ MatchingOps(intent, t) = {}

VerdictByHash_AnyOutcome(intent, t, ledger) ==
    IF t \notin OnNetwork(intent, ledger) THEN "notFound"
    ELSE IF Mismatch(intent, t) THEN "mismatch"
    ELSE "valid"

VerdictByHash_MismatchFails(intent, t, ledger) ==
    IF t \notin OnNetwork(intent, ledger) THEN "notFound"
    ELSE IF ~TxRecord[t].successful \/ Mismatch(intent, t) THEN "failed"
    ELSE "valid"

VerdictByHash(intent, t, ledger) ==
    IF t \notin OnNetwork(intent, ledger) THEN "notFound"
    ELSE IF ~TxRecord[t].successful THEN "failed"
    ELSE IF Mismatch(intent, t) THEN "mismatch"
    ELSE "valid"

\* The payer a valid verdict reports: the sender of the first matching payment.
PayersByHash(intent, t) ==
    LET ops == MatchingOps(intent, t)
    IN  {TxRecord[t].ops[k].from : k \in {m \in ops : \A n \in ops : m <= n}}

(***************************************************************************)
(* findMatchingPayment: the newest ScanLimit operations that involve the   *)
(* destination, then the newest of those that pays the intent.  Horizon    *)
(* lists no operation of a failed transaction.  A position is a ledger     *)
(* index and the index of an operation in that transaction.                *)
(***************************************************************************)
OpAt(pos, ledger) == TxRecord[ledger[pos[1]]].ops[pos[2]]

Later(a, b) == a[1] > b[1] \/ (a[1] = b[1] /\ a[2] > b[2])

AccountOps(intent, ledger) ==
    UNION {{<<n, k>> : k \in {j \in DOMAIN TxRecord[ledger[n]].ops :
                                 intent.destination \in
                                    {TxRecord[ledger[n]].ops[j].to,
                                     TxRecord[ledger[n]].ops[j].from}}} :
              n \in {m \in DOMAIN ledger :
                        /\ TxRecord[ledger[m]].network = intent.network
                        /\ TxRecord[ledger[m]].successful}}

ScannedOps(intent, ledger) ==
    LET all == AccountOps(intent, ledger)
    IN  {pos \in all : Cardinality({q \in all : Later(q, pos)}) < ScanLimit}

ScanHits(intent, ledger) ==
    {pos \in ScannedOps(intent, ledger) :
        /\ PaymentMatches(intent, OpAt(pos, ledger))
        /\ TxRecord[ledger[pos[1]]].successful
        /\ MemoMatches(intent, TxRecord[ledger[pos[1]]])}

NewestHit(intent, ledger) ==
    LET hits == ScanHits(intent, ledger)
    IN  {pos \in hits : \A q \in hits : q = pos \/ Later(pos, q)}

-----------------------------------------------------------------------------
(***************************************************************************)
(* What it means for a transaction to fulfil an intent, written from the   *)
(* service's documentation of the rule and not from the order of its       *)
(* checks: the properties of the modules below are stated with it.         *)
(***************************************************************************)
Fulfils(t, intent) ==
    LET tx == TxRecord[t] IN
    /\ tx.network = intent.network
    /\ tx.successful
    /\ tx.memoType = "id" /\ tx.memo = intent.memo
    /\ \E k \in DOMAIN tx.ops :
          /\ tx.ops[k].type = "payment"
          /\ tx.ops[k].to = intent.destination
          /\ IF intent.asset = "native"
             THEN tx.ops[k].assetType = "native"
             ELSE <<tx.ops[k].assetCode, tx.ops[k].assetIssuer>>
                     = <<intent.asset, intent.assetIssuer>>
          /\ intent.amount # NULL => Number(tx.ops[k].amount) = Number(intent.amount)
=============================================================================
