--------------------------- MODULE SettlementProofs ---------------------------
(***************************************************************************)
(* Proof that every settlement the service makes is a verified one, that   *)
(* no transaction settles two intents, and that the terms of a stored      *)
(* intent are frozen.  The argument: rows change in their status, hash and *)
(* source only, ids are never reused and the ledger only grows, so what a  *)
(* handler read several calls ago still justifies what it writes now.      *)
(***************************************************************************)
EXTENDS StellarObserverProofs

\* The rows keep what was asked for, and an issued id never comes back.
RowsKept ==
    /\ issued <= issued'
    /\ \A i \in Id :
          i <= issued /\ intents'[i] # NULL =>
              intents[i] # NULL /\ SameRequest(intents[i], intents'[i])

\* A step keeps the terms of every issued intent, and the whole invariant.
TermsKept ==
    \A i \in 1..issued :
        intents'[i] # NULL => intents[i] # NULL /\ SameTerms(intents[i], intents'[i])

SafeStep == SettlementInv' /\ TermsKept

LedgerKept == Landed(ledger) \subseteq Landed(ledger')

\* Every task is the one it was, or one whose belief holds of the new state.
TasksFollow == \A q \in Proc : task'[q] = task[q] \/ TaskOK(task[q])'

ItemsFollow ==
    \A o \in Observers : \A item \in cycle'[o].todo :
        item \in cycle[o].todo \/ SnapshotFits(item.id, item.seen)'

-----------------------------------------------------------------------------
(***************************************************************************)
(* The verification rule.                                                  *)
(***************************************************************************)
\* Whether a transaction fulfils an intent depends on what was asked for only.
LEMMA FulfilsRequest ==
    ASSUME NEW t, NEW old, NEW new, SameRequest(old, new), Fulfils(t, old)
    PROVE  Fulfils(t, new)
BY DEF Fulfils, SameRequest

LEMMA RequestTransitive ==
    ASSUME NEW a, NEW b, NEW c, SameRequest(a, b), SameRequest(b, c)
    PROVE  SameRequest(a, c)
BY DEF SameRequest

\* verifyByHash is sound: what it accepts has landed and fulfils the intent.
THEOREM VerdictSound ==
    ASSUME NEW row, NEW t, NEW txs, VerdictByHash(row, t, txs) = "valid"
    PROVE  t \in Landed(txs) /\ Fulfils(t, row)
<1>1. t \in OnNetwork(row, txs) /\ TxRecord[t].successful /\ ~Mismatch(row, t)
  BY DEF VerdictByHash
<1>2. PICK k \in DOMAIN TxRecord[t].ops : PaymentMatches(row, TxRecord[t].ops[k])
  BY <1>1 DEF Mismatch, MatchingOps, FirstPage
<1>3. MemoMatches(row, TxRecord[t]) /\ t \in Landed(txs) /\ TxRecord[t].network = row.network
  BY <1>1 DEF Mismatch, OnNetwork
<1>4. QED
  BY <1>1, <1>2, <1>3 DEF Fulfils, PaymentMatches, AssetMatches, MemoMatches

\* A transaction is found "failed" only if it landed, on the intent's network.
LEMMA FailureSound ==
    ASSUME NEW row, NEW t, NEW txs, VerdictByHash(row, t, txs) = "failed"
    PROVE  t \in Landed(txs) /\ TxRecord[t].network = row.network /\ ~TxRecord[t].successful
BY DEF VerdictByHash, OnNetwork

\* findMatchingPayment is sound: what a scan finds fulfils the intent.
THEOREM ScanSound ==
    ASSUME NEW row, NEW txs, NEW pos \in NewestHit(row, txs)
    PROVE  txs[pos[1]] \in Landed(txs) /\ Fulfils(txs[pos[1]], row)
<1>1. /\ pos \in ScannedOps(row, txs) /\ PaymentMatches(row, OpAt(pos, txs))
      /\ TxRecord[txs[pos[1]]].successful /\ MemoMatches(row, TxRecord[txs[pos[1]]])
  BY DEF NewestHit, ScanHits
<1>2. /\ pos[1] \in DOMAIN txs /\ pos[2] \in DOMAIN TxRecord[txs[pos[1]]].ops
      /\ TxRecord[txs[pos[1]]].network = row.network
  BY <1>1 DEF ScannedOps, AccountOps
<1>3. QED
  BY <1>1, <1>2 DEF OpAt, Landed, Fulfils, PaymentMatches, AssetMatches, MemoMatches

\* What reconcile passes to markSucceeded landed and fulfils the intent.
LEMMA MatchSound ==
    ASSUME NEW row, NEW m \in Matches(row)
    PROVE  m.hash \in Landed(ledger) /\ Fulfils(m.hash, row)
<1>1. CASE m \in MatchesByHash(row)
  BY <1>1, VerdictSound DEF MatchesByHash
<1>2. CASE m \in MatchesByScan(row)
  BY <1>2, ScanSound DEF MatchesByScan
<1>3. QED
  BY <1>1, <1>2 DEF Matches

-----------------------------------------------------------------------------
(***************************************************************************)
(* Beliefs survive the steps of others.                                    *)
(***************************************************************************)
LEMMA LeqTransitive ==
    ASSUME NEW a \in Nat, NEW b \in Nat, NEW c \in Nat, a <= b, b <= c
    PROVE  a <= c
OBVIOUS

LEMMA SnapshotStays ==
    ASSUME TypeOK, TypeOK', RowsKept, NEW i \in Id, NEW seen, SnapshotFits(i, seen)
    PROVE  SnapshotFits(i, seen)'
<1>1. issued \in Nat /\ issued' \in Nat /\ i \in Nat
  BY Bounds DEF TypeOK, ServiceTypeOK, Id
<1>2. i <= issued'
  BY <1>1 DEF RowsKept, SnapshotFits
<1>3. ASSUME intents'[i] # NULL PROVE SameRequest(seen, intents'[i])
  BY <1>3, RequestTransitive DEF RowsKept, SnapshotFits, Stored
<1>4. QED
  BY <1>2, <1>3 DEF SnapshotFits, Stored

LEMMA TaskStays ==
    ASSUME TypeOK, TypeOK', RowsKept, LedgerKept, NEW t \in Task, TaskOK(t)
    PROVE  TaskOK(t)'
<1>1. issued \in Nat /\ issued' \in Nat /\ Id \subseteq Nat /\ issued <= issued'
  BY Bounds DEF TypeOK, ServiceTypeOK, Id, RowsKept
<1>2. CASE t.step = "verify"
  BY <1>2, VerifyTask, SnapshotStays DEF TaskOK
<1>3. CASE t.step \in {"markRead", "markWrite"}
  <2>1. t.id \in Id /\ t.id <= issued /\ t.hash \in Landed(ledger)
    BY <1>3, MarkTask DEF TaskOK
  <2>b. t.id \in Nat
    BY <1>1, <2>1
  <2>2. t.id <= issued'
    BY <1>1, <2>1, <2>b, LeqTransitive
  <2>a. t.hash \in Landed(ledger')
    BY <2>1 DEF LedgerKept
  <2>3. ASSUME intents'[t.id] # NULL PROVE Fulfils(t.hash, intents'[t.id])
    BY <1>3, <2>1, <2>3, FulfilsRequest DEF TaskOK, RowsKept, Stored
  <2>4. ASSUME intents'[t.id] # NULL, t.step = "markWrite", t.source # NULL
        PROVE  intents'[t.id].kind # "TX"
    BY <2>1, <2>4 DEF TaskOK, RowsKept, Stored, SameRequest
  <2>5. QED
    BY <1>3, <2>2, <2>a, <2>3, <2>4 DEF TaskOK, Stored
<1>4. CASE t.step = "markFailed"
  <2>1. t.id \in Id /\ t.id <= issued /\ t.hash \in Landed(ledger)
    BY <1>4, FailTask DEF TaskOK
  <2>b. t.id \in Nat
    BY <1>1, <2>1
  <2>2. t.id <= issued'
    BY <1>1, <2>1, <2>b, LeqTransitive
  <2>a. t.hash \in Landed(ledger')
    BY <2>1 DEF LedgerKept
  <2>3. ASSUME intents'[t.id] # NULL PROVE TxRecord[t.hash].network = intents'[t.id].network
    BY <1>4, <2>1, <2>3 DEF TaskOK, RowsKept, Stored, SameRequest
  <2>4. QED
    BY <1>4, <2>2, <2>a, <2>3 DEF TaskOK, Stored
<1>5. CASE t.step \notin {"verify", "markRead", "markWrite", "markFailed"}
  BY <1>5 DEF TaskOK
<1>6. QED
  BY <1>2, <1>3, <1>4, <1>5

LEMMA BeliefsStay ==
    ASSUME TypeOK, TypeOK', BeliefsHold, RowsKept, LedgerKept, TasksFollow, ItemsFollow
    PROVE  BeliefsHold'
<1>1. ASSUME NEW q \in Proc PROVE TaskOK(task[q])'
  <2>1. CASE TaskOK(task[q])'
    BY <2>1
  <2>2. CASE task'[q] = task[q]
    <3>1. task[q] \in Task /\ TaskOK(task[q])
      BY DEF BeliefsHold, TypeOK, ServiceTypeOK
    <3> DEFINE t == task[q]
    <3>2. \A u \in Task : TaskOK(u) => TaskOK(u)'
      BY TaskStays
    <3>3. QED
      BY <2>2, <3>1, <3>2 DEF TaskOK, SnapshotFits
  <2>3. QED
    BY <2>1, <2>2 DEF TasksFollow
<1>2. ASSUME NEW o \in Observers, NEW item \in cycle'[o].todo
      PROVE  SnapshotFits(item.id, item.seen)'
  <2>1. CASE item \in cycle[o].todo
    <3>1. item.id \in Id /\ SnapshotFits(item.id, item.seen)
      BY <2>1 DEF BeliefsHold, TypeOK, Snapshot
    <3>2. QED
      BY <3>1, SnapshotStays
  <2>2. QED
    BY <2>1 DEF ItemsFollow
<1>3. QED
  BY <1>1, <1>2 DEF BeliefsHold

-----------------------------------------------------------------------------
(***************************************************************************)
(* The two kinds of step: those that leave payment_intent alone, and those *)
(* that rewrite one stored row.  (Insert and Delete are neither.)          *)
(***************************************************************************)
LEMMA RowNotNull == NULL \notin Row
BY ServiceAssumption

LEMMA QuietStep ==
    ASSUME TypeOK, TypeOK', SettlementInv, LedgerKept, TasksFollow, ItemsFollow,
           UNCHANGED <<intents, issued, patched>>
    PROVE  SafeStep
<1>1. RowsKept
  BY DEF RowsKept, SameRequest, TypeOK, ServiceTypeOK
<1>2. BeliefsHold'
  BY <1>1, BeliefsStay DEF SettlementInv
<1>3. VerifiedSettlement'
  BY DEF SettlementInv, VerifiedSettlement, LedgerKept, Stored
<1>4. VerifiedFailure'
  BY DEF SettlementInv, VerifiedFailure, LedgerKept, Stored, OnNetwork
<1>5. TermsKept
  BY DEF TermsKept, SameTerms, SameRequest
<1>6. QED
  BY <1>2, <1>3, <1>4, <1>5
     DEF SafeStep, SettlementInv, IdsCountUp, TxPayerKnown, NoDoubleClaim, Stored

\* What must hold of the row that a step writes over row i.
Settles(row) ==
    /\ row.status = "SUCCEEDED" => row.txHash \in Landed(ledger) /\ Fulfils(row.txHash, row)
    /\ row.status = "FAILED" =>
          row.txHash \in OnNetwork(row, ledger) /\ ~TxRecord[row.txHash].successful

LEMMA WriteStep ==
    ASSUME TypeOK, TypeOK', SettlementInv, TasksFollow, ItemsFollow,
           UNCHANGED <<issued, ledger>>,
           NEW i \in Stored, NEW row \in Row, WriteRow(i, row),
           SameTerms(intents[i], row),
           i \in patched' \/ Settles(row), patched \ {i} \subseteq patched',
           \A j \in Stored \ {i} : row.txHash # NULL => intents[j].txHash # row.txHash
    PROVE  SafeStep
<1>1. /\ i \in Id /\ intents[i] \in Row /\ row # NULL
      /\ intents'[i] = row
      /\ \A j \in Id : j # i => intents'[j] = intents[j]
      /\ Stored' = Stored
  BY RowNotNull DEF TypeOK, ServiceTypeOK, WriteRow, Stored
<1>2. RowsKept
  <2>1. issued <= issued'
    BY DEF TypeOK, ServiceTypeOK
  <2>2. ASSUME NEW j \in Id, intents'[j] # NULL
        PROVE  intents[j] # NULL /\ SameRequest(intents[j], intents'[j])
    <3>1. CASE j = i
      BY <1>1, <3>1 DEF SameTerms, Stored
    <3>2. CASE j # i
      BY <1>1, <2>2, <3>2 DEF SameRequest
    <3>3. QED
      BY <3>1, <3>2
  <2>3. QED
    BY <2>1, <2>2 DEF RowsKept
<1>3. LedgerKept
  BY DEF LedgerKept
<1>4. BeliefsHold'
  BY <1>2, <1>3, BeliefsStay DEF SettlementInv
<1>5. IdsCountUp'
  BY <1>1 DEF SettlementInv, IdsCountUp
<1>6. TxPayerKnown'
  BY <1>1 DEF SettlementInv, TxPayerKnown, SameTerms, SameRequest, Stored
<1>7. VerifiedSettlement'
  BY <1>1 DEF SettlementInv, VerifiedSettlement, Settles, Stored
<1>8. VerifiedFailure'
  BY <1>1 DEF SettlementInv, VerifiedFailure, Settles, Stored, OnNetwork
<1>9. NoDoubleClaim'
  BY <1>1 DEF SettlementInv, NoDoubleClaim, Stored
<1>10. ASSUME NEW j \in 1..issued, intents'[j] # NULL
       PROVE  intents[j] # NULL /\ SameTerms(intents[j], intents'[j])
  <2>1. j \in Id
    BY Bounds DEF TypeOK, ServiceTypeOK, Id
  <2>2. CASE j = i
    BY <1>1, <2>2 DEF Stored
  <2>3. CASE j # i
    BY <1>1, <1>10, <2>1, <2>3 DEF SameTerms, SameRequest
  <2>4. QED
    BY <2>2, <2>3
<1>11. QED
  BY <1>4, <1>5, <1>6, <1>7, <1>8, <1>9, <1>10 DEF SafeStep, TermsKept, SettlementInv

-----------------------------------------------------------------------------
(***************************************************************************)
(* The steps.  A task that no verdict depends on believes nothing.         *)
(***************************************************************************)
LEMMA OneTaskFollows ==
    ASSUME task \in [Proc -> Task], NEW p \in Proc, NEW t, Goto(p, t), TaskOK(task[p])'
    PROVE  TasksFollow
BY DEF Goto, TasksFollow

LEMMA PlainTaskFollows ==
    ASSUME task \in [Proc -> Task], NEW p \in Proc, NEW t, Goto(p, t),
           t.step \in {"idle", "patch", "removeStatus", "delete", "emit"}
    PROVE  TasksFollow
<1>1. task'[p] = t
  BY DEF Goto
<1>2. TaskOK(task[p])'
  BY <1>1 DEF TaskOK
<1>3. QED
  BY <1>2, OneTaskFollows

LEMMA SameItemsFollow == ASSUME UNCHANGED cycle PROVE ItemsFollow
BY DEF ItemsFollow

LEMMA FreshDraft ==
    ASSUME NEW c \in Caller, NEW order \in Order, NEW draft \in Drafts(c, order)
    PROVE  /\ draft.status = "PENDING" /\ draft.txHash = NULL
           /\ draft.kind = "TX" => draft.source # NULL
<1>1. /\ draft.status = "PENDING" /\ draft.txHash = NULL
      /\ draft.kind = order.kind /\ draft.source = order.source
  BY DEF Drafts
<1>2. order.kind = "TX" => order.source \in Account
  BY ServiceAssumption
<1>3. NULL \notin Account
  BY ServiceAssumption
<1>4. QED
  BY <1>1, <1>2, <1>3

LEMMA InitSettlement == Init => SettlementInv
<1> SUFFICES ASSUME Init PROVE SettlementInv
  OBVIOUS
<1>1. Stored = {}
  BY DEF Init, ServiceInit, Stored
<1>2. BeliefsHold
  BY DEF Init, ServiceInit, BeliefsHold, Idle, TaskOK, Off
<1>3. QED
  BY <1>1, <1>2 DEF SettlementInv, IdsCountUp, TxPayerKnown, VerifiedSettlement,
                    VerifiedFailure, NoDoubleClaim

LEMMA RequestSettlement ==
    ASSUME TypeOK, TypeOK', SettlementInv, NEW p \in Requests, NEW c \in Caller, UNCHANGED cycle,
           \/ \E order \in Order : Create(p, c, order)
           \/ \E i \in Id :
                 \/ \E patch \in Patch : Update(p, c, i, patch)
                 \/ Remove(p, c, i)
                 \/ \E hash \in Hash \ {""} : Validate(p, c, i, hash)
    PROVE  SafeStep
<1>1. p \in Proc /\ ItemsFollow /\ task \in [Proc -> Task]
  BY SameItemsFollow DEF Proc, TypeOK, ServiceTypeOK
<1>2. ASSUME TasksFollow, LedgerKept, UNCHANGED <<intents, issued, patched>> PROVE SafeStep
  BY <1>1, <1>2, QuietStep
<1>3. ASSUME NEW order \in Order, Create(p, c, order) PROVE SafeStep
  <2>1. CASE Acceptable(order)
    <3>1. PICK draft \in Drafts(c, order) : Goto(p, [step |-> "findByMemo", draft |-> draft])
      BY <1>3, <2>1 DEF Create
    <3>2. /\ draft.status = "PENDING" /\ draft.txHash = NULL
          /\ draft.kind = "TX" => draft.source # NULL
      BY FreshDraft
    <3>3. TaskOK(task[p])'
      BY <1>1, <3>1, <3>2 DEF Goto, TaskOK
    <3>4. TasksFollow
      BY <1>1, <3>1, <3>3, OneTaskFollows
    <3>5. QED
      BY <1>2, <1>3, <3>4 DEF Create, LedgerKept, historyVars
  <2>2. CASE ~Acceptable(order)
    BY <1>2, <1>3, <2>2 DEF Create, TasksFollow, LedgerKept, historyVars
  <2>3. QED
    BY <2>1, <2>2
<1>4. ASSUME NEW i \in Id, NEW patch \in Patch, Update(p, c, i, patch) PROVE SafeStep
  <2>1. TasksFollow
    BY <1>1, <1>4, PlainTaskFollows DEF Update
  <2>2. QED
    BY <1>2, <1>4, <2>1 DEF Update, LedgerKept, dbVars, historyVars
<1>5. ASSUME NEW i \in Id, Remove(p, c, i) PROVE SafeStep
  <2>1. TasksFollow
    BY <1>1, <1>5, PlainTaskFollows DEF Remove
  <2>2. QED
    BY <1>2, <1>5, <2>1 DEF Remove, LedgerKept, dbVars, historyVars
<1>6. ASSUME NEW i \in Id, NEW hash \in Hash, Validate(p, c, i, hash) PROVE SafeStep
  <2>1. UNCHANGED <<intents, issued, patched, ledger>>
    BY <1>6 DEF Validate, dbVars, historyVars
  <2>2. CASE IsPaid(i)
    <3>1. TasksFollow
      BY <1>1, <1>6, <2>2, PlainTaskFollows DEF Validate, Idle
    <3>2. QED
      BY <1>2, <2>1, <3>1 DEF LedgerKept
  <2>3. CASE ~IsPaid(i)
    <3>1. Goto(p, [step |-> "verify", user |-> c.username, id |-> i, hash |-> hash,
                   seen |-> intents[i]])
      BY <1>6, <2>3 DEF Validate
    <3>2. SnapshotFits(i, intents[i])'
      BY <1>6, <2>1 DEF Validate, Owned, SnapshotFits, SameRequest, SettlementInv, IdsCountUp, Stored
    <3>3. task'[p].step = "verify" /\ task'[p].id = i /\ task'[p].seen = intents'[i]
      BY <1>1, <2>1, <3>1 DEF Goto
    <3>4. TaskOK(task[p])'
      BY <3>2, <3>3 DEF TaskOK, SnapshotFits
    <3>5. TasksFollow
      BY <1>1, <3>1, <3>4, OneTaskFollows
    <3>6. QED
      BY <1>2, <2>1, <3>5 DEF LedgerKept
  <2>4. QED
    BY <2>2, <2>3
<1>7. QED
  BY <1>3, <1>4, <1>5, <1>6

LEMMA QuietHandlerSettlement ==
    ASSUME TypeOK, TypeOK', SettlementInv, NEW p \in Proc, UNCHANGED cycle,
           \/ CheckMemo(p) \/ LoadAccount(p) \/ Refind(p) \/ RemoveStatus(p)
           \/ Verify(p) \/ MarkRead(p) \/ Emit(p)
    PROVE  SafeStep
<1>1. /\ ItemsFollow /\ task \in [Proc -> Task] /\ task[p] \in Task /\ TaskOK(task[p])
  BY SameItemsFollow DEF TypeOK, ServiceTypeOK, SettlementInv, BeliefsHold
<1>2. UNCHANGED <<intents, issued, patched, ledger>>
  BY DEF CheckMemo, LoadAccount, Refind, RemoveStatus, Verify, MarkRead, Emit, dbVars, historyVars
<1>3. ASSUME TasksFollow PROVE SafeStep
  BY <1>1, <1>2, <1>3, QuietStep DEF LedgerKept
<1>4. CASE CheckMemo(p)
  <2> DEFINE draft == task[p].draft
             next  == [step |-> IF draft.kind = "TX" THEN "loadAccount" ELSE "insert",
                       draft |-> draft]
  <2>1. Goto(p, Idle) \/ Goto(p, next)
    BY <1>4 DEF CheckMemo
  <2>2. CASE Goto(p, Idle)
    BY <1>1, <1>3, <2>2, PlainTaskFollows DEF Idle
  <2>3. CASE Goto(p, next)
    <3>1. TaskOK(task[p])'
      BY <1>1, <1>4, <2>3 DEF CheckMemo, Goto, TaskOK
    <3>2. QED
      BY <1>1, <1>3, <2>3, <3>1, OneTaskFollows
  <2>4. QED
    BY <2>1, <2>2, <2>3
<1>5. CASE LoadAccount(p)
  <2>1. TaskOK(task[p])'
    BY <1>1, <1>5 DEF LoadAccount, Goto, TaskOK
  <2>2. QED
    BY <1>1, <1>3, <1>5, <2>1, OneTaskFollows DEF LoadAccount
<1>6. CASE Refind(p)
  BY <1>1, <1>3, <1>6, PlainTaskFollows DEF Refind, Idle
<1>7. CASE RemoveStatus(p)
  BY <1>1, <1>3, <1>7, PlainTaskFollows DEF RemoveStatus, Idle
<1>8. CASE Verify(p)
  <2> DEFINE t == task[p]
             v == VerdictByHash(t.seen, t.hash, ledger)
  <2>1. t.id \in Id /\ SnapshotFits(t.id, t.seen)
    BY <1>1, <1>8, VerifyTask DEF Verify, TaskOK
  <2>2. CASE v = "valid"
    <3>1. PICK payer \in PayersByHash(t.seen, t.hash) : Goto(p, Marking(t.user, t.id, t.hash, payer))
      BY <1>8, <2>2 DEF Verify
    <3>2. t.hash \in Landed(ledger) /\ Fulfils(t.hash, t.seen)
      BY <2>2, VerdictSound
    <3>3. /\ t.id <= issued' /\ t.hash \in Landed(ledger')
          /\ t.id \in Stored' => Fulfils(t.hash, intents'[t.id])
      BY <1>2, <2>1, <3>2, FulfilsRequest DEF SnapshotFits, Stored
    <3>4. task'[p].step = "markRead" /\ task'[p].id = t.id /\ task'[p].hash = t.hash
      BY <1>1, <3>1 DEF Goto, Marking
    <3>5. TaskOK(task[p])'
      BY <3>3, <3>4 DEF TaskOK
    <3>6. QED
      BY <1>1, <1>3, <3>1, <3>5, OneTaskFollows
  <2>3. CASE v = "failed"
    <3>1. Goto(p, [step |-> "markFailed", user |-> t.user, id |-> t.id, hash |-> t.hash])
      BY <1>8, <2>3 DEF Verify
    <3>2. /\ t.hash \in Landed(ledger) /\ TxRecord[t.hash].network = t.seen.network
          /\ ~TxRecord[t.hash].successful
      BY <2>3, FailureSound
    <3>3. /\ t.id <= issued' /\ t.hash \in Landed(ledger')
          /\ t.id \in Stored' => TxRecord[t.hash].network = intents'[t.id].network
      BY <1>2, <2>1, <3>2 DEF SnapshotFits, Stored, SameRequest
    <3>4. task'[p].step = "markFailed" /\ task'[p].id = t.id /\ task'[p].hash = t.hash
      BY <1>1, <3>1 DEF Goto
    <3>5. TaskOK(task[p])'
      BY <3>2, <3>3, <3>4 DEF TaskOK
    <3>6. QED
      BY <1>1, <1>3, <3>1, <3>5, OneTaskFollows
  <2>4. CASE v \notin {"valid", "failed"}
    BY <1>1, <1>3, <1>8, <2>4, PlainTaskFollows DEF Verify, Idle
  <2>5. QED
    BY <2>2, <2>3, <2>4
<1>9. CASE MarkRead(p)
  <2> DEFINE t == task[p]
             s == SourceToSet(t.id, t.payer)
  <2>1. /\ t.id \in Id /\ t.id <= issued /\ t.hash \in Landed(ledger)
        /\ t.id \in Stored => Fulfils(t.hash, intents[t.id])
    BY <1>1, <1>9, MarkTask DEF MarkRead, TaskOK
  <2>2. s # NULL /\ t.id \in Stored => intents[t.id].kind # "TX"
    BY DEF SourceToSet, SettlementInv, TxPayerKnown
  <2>3. Goto(p, [step |-> "markWrite", user |-> t.user, id |-> t.id, hash |-> t.hash,
                 payer |-> t.payer, source |-> s])
    BY <1>9 DEF MarkRead
  <2>4. /\ task'[p].step = "markWrite" /\ task'[p].id = t.id /\ task'[p].hash = t.hash
        /\ task'[p].source = s
    BY <1>1, <2>3 DEF Goto
  <2>5. TaskOK(task[p])'
    BY <1>2, <2>1, <2>2, <2>4 DEF TaskOK, Stored
  <2>6. QED
    BY <1>1, <1>3, <2>3, <2>5, OneTaskFollows
<1>10. CASE Emit(p)
  BY <1>1, <1>3, <1>10, PlainTaskFollows DEF Emit, Idle
<1>11. QED
  BY <1>4, <1>5, <1>6, <1>7, <1>8, <1>9, <1>10

-----------------------------------------------------------------------------
(***************************************************************************)
(* The steps that write payment_intent.                                    *)
(***************************************************************************)
LEMMA InsertSettlement ==
    ASSUME TypeOK, TypeOK', SettlementInv, NEW p \in Proc, UNCHANGED cycle, Insert(p)
    PROVE  SafeStep
<1> DEFINE draft == task[p].draft
<1>1. /\ ItemsFollow /\ task \in [Proc -> Task] /\ task[p] \in Task /\ TaskOK(task[p])
  BY SameItemsFollow DEF TypeOK, ServiceTypeOK, SettlementInv, BeliefsHold
<1>2. /\ draft \in Row /\ draft.status = "PENDING" /\ draft.txHash = NULL
      /\ draft.kind = "TX" => draft.source # NULL
  BY <1>1, CreateTask DEF Insert, TaskOK
<1>3. UNCHANGED <<patched, ledger>>
  BY DEF Insert, historyVars
<1>4. CASE MemoTaken(draft)
  <2>1. UNCHANGED <<intents, issued>> /\ Goto(p, [step |-> "refind", draft |-> draft])
    BY <1>4 DEF Insert
  <2>2. TaskOK(task[p])'
    BY <1>1, <1>2, <2>1 DEF Goto, TaskOK
  <2>3. TasksFollow
    BY <1>1, <2>1, <2>2, OneTaskFollows
  <2>4. QED
    BY <1>1, <1>3, <2>1, <2>3, QuietStep DEF LedgerKept
<1>5. CASE ~MemoTaken(draft)
  <2> DEFINE n == issued + 1
  <2>1. /\ issued' = n /\ WriteRow(n, draft) /\ issued < MaxIntents
        /\ Goto(p, Emitting("CREATED", draft.owner, n, draft))
    BY <1>5 DEF Insert
  <2>2. /\ n \in Id /\ issued \in Nat /\ \A i \in Id : i \in Nat
        /\ \A i \in Id : i <= issued => i # n /\ i <= n
    BY <2>1, Bounds DEF TypeOK, ServiceTypeOK, Id
  <2>3. TasksFollow
    BY <1>1, <2>1, PlainTaskFollows DEF Emitting
  <2>4. /\ intents'[n] = draft
        /\ \A i \in Id : i # n => intents'[i] = intents[i]
    BY <2>1, <2>2 DEF WriteRow, TypeOK, ServiceTypeOK
  <2>5. Stored' \subseteq Stored \cup {n}
    BY <2>4 DEF Stored
  <2>6. \A i \in Stored : i # n /\ i <= n /\ intents'[i] = intents[i]
    BY <2>2, <2>4 DEF SettlementInv, IdsCountUp, Stored
  <2>7. RowsKept
    BY <2>1, <2>2, <2>4 DEF RowsKept, SameRequest
  <2>8. BeliefsHold'
    BY <1>1, <1>3, <2>3, <2>7, BeliefsStay DEF SettlementInv, LedgerKept
  <2>9. IdsCountUp'
    BY <2>1, <2>2, <2>5, <2>6 DEF IdsCountUp
  <2>10. TxPayerKnown'
    BY <1>2, <2>4, <2>5, <2>6 DEF TxPayerKnown, SettlementInv
  <2>11. VerifiedSettlement'
    BY <1>2, <1>3, <2>4, <2>5, <2>6 DEF VerifiedSettlement, SettlementInv
  <2>12. VerifiedFailure'
    BY <1>2, <1>3, <2>4, <2>5, <2>6 DEF VerifiedFailure, SettlementInv, OnNetwork
  <2>13. NoDoubleClaim'
    BY <1>2, <2>4, <2>5, <2>6 DEF NoDoubleClaim, SettlementInv
  <2>14. TermsKept
    <3>1. \A i \in 1..issued : i \in Id /\ i # n
      BY <2>2, Bounds DEF TypeOK, ServiceTypeOK, Id
    <3>2. QED
      BY <2>4, <3>1 DEF TermsKept, SameTerms, SameRequest
  <2>15. QED
    BY <2>8, <2>9, <2>10, <2>11, <2>12, <2>13, <2>14 DEF SafeStep, SettlementInv
<1>6. QED
  BY <1>4, <1>5

LEMMA DeleteSettlement ==
    ASSUME TypeOK, TypeOK', SettlementInv, NEW p \in Proc, UNCHANGED cycle, Delete(p)
    PROVE  SafeStep
<1> DEFINE i == task[p].id
<1>1. /\ ItemsFollow /\ task \in [Proc -> Task] /\ task[p] \in Task
      /\ issued \in Nat /\ UNCHANGED <<issued, patched, ledger>>
  BY SameItemsFollow DEF TypeOK, ServiceTypeOK, Delete, historyVars
<1>2. CASE i \in Stored
  <2>1. WriteRow(i, NULL) /\ Goto(p, Emitting("DELETED", task[p].user, i, intents[i]))
    BY <1>2 DEF Delete
  <2>2. TasksFollow
    BY <1>1, <2>1, PlainTaskFollows DEF Emitting
  <2>3. /\ Stored' = Stored \ {i}
        /\ \A j \in Stored' : intents'[j] = intents[j]
    BY <2>1 DEF WriteRow, Stored, TypeOK, ServiceTypeOK
  <2>4. RowsKept
    BY <1>1, <2>3 DEF RowsKept, SameRequest, Stored
  <2>5. BeliefsHold'
    BY <1>1, <2>2, <2>4, BeliefsStay DEF SettlementInv, LedgerKept
  <2>6. IdsCountUp' /\ TxPayerKnown' /\ NoDoubleClaim'
    BY <1>1, <2>3 DEF IdsCountUp, TxPayerKnown, NoDoubleClaim, SettlementInv
  <2>7. VerifiedSettlement' /\ VerifiedFailure'
    BY <1>1, <2>3 DEF VerifiedSettlement, VerifiedFailure, SettlementInv, OnNetwork
  <2>8. ASSUME NEW j \in 1..issued, intents'[j] # NULL
        PROVE  intents[j] # NULL /\ SameTerms(intents[j], intents'[j])
    <3>1. j \in Id
      BY Bounds DEF TypeOK, ServiceTypeOK, Id
    <3>2. QED
      BY <2>3, <2>8, <3>1 DEF Stored, SameTerms, SameRequest
  <2>9. QED
    BY <2>5, <2>6, <2>7, <2>8 DEF SafeStep, TermsKept, SettlementInv
<1>3. CASE i \notin Stored
  <2>1. Goto(p, Idle) /\ UNCHANGED intents
    BY <1>3 DEF Delete
  <2>2. TasksFollow
    BY <1>1, <2>1, PlainTaskFollows DEF Idle
  <2>3. QED
    BY <1>1, <2>1, <2>2, QuietStep DEF LedgerKept
<1>4. QED
  BY <1>2, <1>3

LEMMA PatchSettlement ==
    ASSUME TypeOK, TypeOK', SettlementInv, NEW p \in Proc, UNCHANGED cycle, PatchWrite(p)
    PROVE  SafeStep
<1> DEFINE i    == task[p].id
           new  == task[p].patch
           old  == intents[i]
           row  == [old EXCEPT !.status = IF new.status = NULL THEN @ ELSE new.status,
                               !.txHash = IF new.setsHash THEN new.txHash ELSE @]
           type == IF new.status = NULL THEN "UPDATED" ELSE StatusEvent(new.status)
<1>1. /\ ItemsFollow /\ task \in [Proc -> Task] /\ task[p] \in Task
      /\ UNCHANGED <<issued, ledger>>
  BY SameItemsFollow DEF TypeOK, ServiceTypeOK, PatchWrite
<1>2. new.status \in Optional(Status) /\ new.setsHash \in BOOLEAN /\ new.txHash \in Optional(Hash)
  BY <1>1, PatchTask, ServiceAssumption DEF PatchWrite
<1>3. CASE i \in Stored /\ ~(new.setsHash /\ HashTaken(i, new.txHash))
  <2>1. /\ WriteRow(i, row)
        /\ patched' = IF new.status = NULL /\ ~new.setsHash THEN patched ELSE patched \cup {i}
        /\ Goto(p, Declaring(type, task[p].user, i, row))
    BY <1>3 DEF PatchWrite
  <2>2. old \in Row /\ row \in Row
    BY <1>2, <1>3, PatchedRow DEF TypeOK, ServiceTypeOK, Stored
  <2>3. /\ SameTerms(old, row)
        /\ row.status = IF new.status = NULL THEN old.status ELSE new.status
        /\ row.txHash = IF new.setsHash THEN new.txHash ELSE old.txHash
    <3> DEFINE s == new.status
               b == new.setsHash
               h == new.txHash
    <3>1. s \in Optional(Status) /\ b \in BOOLEAN /\ h \in Optional(Hash) /\ old \in Row
      BY <1>2, <2>2
    <3>2. row = [old EXCEPT !.status = IF s = NULL THEN @ ELSE s,
                            !.txHash = IF b THEN h ELSE @]
      OBVIOUS
    <3> HIDE DEF old, s, b, h, row
    <3>3. /\ SameTerms(old, row)
          /\ row.status = IF s = NULL THEN old.status ELSE s
          /\ row.txHash = IF b THEN h ELSE old.txHash
      BY <3>1, <3>2 DEF Row, SameTerms, SameRequest
    <3> QED
      BY <3>3 DEF s, b, h
  <2> HIDE DEF row, type
  <2>4. TasksFollow
    BY <1>1, <2>1, PlainTaskFollows DEF Declaring, Emitting
  <2>5. i \in patched' \/ Settles(row)
    <3>1. CASE new.status = NULL /\ ~new.setsHash /\ i \notin patched
      BY <1>3, <2>3, <3>1, FulfilsRequest
         DEF Settles, SettlementInv, VerifiedSettlement, VerifiedFailure, OnNetwork,
             SameTerms, SameRequest
    <3>2. CASE ~(new.status = NULL /\ ~new.setsHash /\ i \notin patched)
      BY <2>1, <3>2
    <3>3. QED
      BY <3>1, <3>2
  <2>6. \A j \in Stored \ {i} : row.txHash # NULL => intents[j].txHash # row.txHash
    BY <1>3, <2>3 DEF HashTaken, SettlementInv, NoDoubleClaim
  <2>7. QED
    BY <1>1, <1>3, <2>1, <2>2, <2>3, <2>4, <2>5, <2>6, WriteStep
<1>4. CASE ~(i \in Stored /\ ~(new.setsHash /\ HashTaken(i, new.txHash)))
  <2>1. Goto(p, Idle) /\ UNCHANGED <<intents, patched>>
    BY <1>4 DEF PatchWrite
  <2>2. TasksFollow
    BY <1>1, <2>1, PlainTaskFollows DEF Idle
  <2>3. QED
    BY <1>1, <2>1, <2>2, QuietStep DEF LedgerKept
<1>5. QED
  BY <1>3, <1>4

LEMMA MarkSettlement ==
    ASSUME TypeOK, TypeOK', SettlementInv, NEW p \in Proc, UNCHANGED cycle, MarkWrite(p)
    PROVE  SafeStep
<1> DEFINE t   == task[p]
           i   == t.id
           old == intents[i]
           row == [old EXCEPT !.status = "SUCCEEDED", !.txHash = t.hash,
                              !.source = IF t.source = NULL THEN @ ELSE t.source]
<1>1. /\ ItemsFollow /\ task \in [Proc -> Task] /\ t \in Task /\ TaskOK(t)
      /\ t.step = "markWrite" /\ UNCHANGED <<issued, ledger>>
  BY SameItemsFollow DEF TypeOK, ServiceTypeOK, MarkWrite, SettlementInv, BeliefsHold
<1>2. /\ i \in Id /\ t.hash \in Hash /\ t.source \in Optional(Account)
      /\ t.hash \in Landed(ledger)
      /\ i \in Stored => Fulfils(t.hash, old)
      /\ t.source # NULL /\ i \in Stored => old.kind # "TX"
  BY <1>1, MarkTask DEF TaskOK
<1>3. CASE i \in Stored /\ ~HashTaken(i, t.hash)
  <2>1. /\ WriteRow(i, row) /\ patched' = patched \ {i}
        /\ Goto(p, Settling(t.user, i, row, t.payer))
    BY <1>3 DEF MarkWrite
  <2>2. old \in Row /\ row \in Row
    BY <1>2, <1>3, SettledRow DEF TypeOK, ServiceTypeOK, Stored
  <2>3. SameTerms(old, row) /\ row.status = "SUCCEEDED" /\ row.txHash = t.hash
    <3> DEFINE h == t.hash
               a == t.source
    <3>1. h \in Hash /\ a \in Optional(Account) /\ old \in Row /\ (a # NULL => old.kind # "TX")
      BY <1>2, <1>3, <2>2
    <3>2. row = [old EXCEPT !.status = "SUCCEEDED", !.txHash = h,
                            !.source = IF a = NULL THEN @ ELSE a]
      OBVIOUS
    <3> HIDE DEF old, h, a, row
    <3>3. SameTerms(old, row) /\ row.status = "SUCCEEDED" /\ row.txHash = h
      BY <3>1, <3>2 DEF Row, SameTerms, SameRequest
    <3>4. QED
      BY <3>3 DEF h
  <2> HIDE DEF row
  <2>4. TasksFollow
    BY <1>1, <2>1, PlainTaskFollows DEF Settling, Emitting
  <2>5. Settles(row)
    <3>1. SameRequest(old, row) /\ Fulfils(t.hash, old)
      BY <1>2, <1>3, <2>3 DEF SameTerms
    <3>2. Fulfils(t.hash, row)
      BY <3>1, FulfilsRequest
    <3>3. QED
      BY <1>2, <2>3, <3>2 DEF Settles
  <2>6. \A j \in Stored \ {i} : row.txHash # NULL => intents[j].txHash # row.txHash
    BY <1>3, <2>3 DEF HashTaken
  <2>7. QED
    BY <1>1, <1>3, <2>1, <2>2, <2>3, <2>4, <2>5, <2>6, WriteStep
<1>4. CASE ~(i \in Stored /\ ~HashTaken(i, t.hash))
  <2>1. Goto(p, Idle) /\ UNCHANGED <<intents, patched>>
    BY <1>4 DEF MarkWrite
  <2>2. TasksFollow
    BY <1>1, <2>1, PlainTaskFollows DEF Idle
  <2>3. QED
    BY <1>1, <2>1, <2>2, QuietStep DEF LedgerKept
<1>5. QED
  BY <1>3, <1>4

LEMMA FailSettlement ==
    ASSUME TypeOK, TypeOK', SettlementInv, NEW p \in Proc, UNCHANGED cycle, FailWrite(p)
    PROVE  SafeStep
<1> DEFINE t   == task[p]
           i   == t.id
           old == intents[i]
           row == [old EXCEPT !.status = "FAILED", !.txHash = t.hash]
<1>1. /\ ItemsFollow /\ task \in [Proc -> Task] /\ t \in Task /\ TaskOK(t)
      /\ t.step = "markFailed" /\ UNCHANGED <<issued, ledger>>
  BY SameItemsFollow DEF TypeOK, ServiceTypeOK, FailWrite, SettlementInv, BeliefsHold
<1>2. /\ i \in Id /\ t.hash \in Hash
      /\ t.hash \in Landed(ledger) /\ ~TxRecord[t.hash].successful
      /\ i \in Stored => TxRecord[t.hash].network = old.network
  BY <1>1, FailTask DEF TaskOK
<1>3. CASE i \in Stored /\ ~HashTaken(i, t.hash)
  <2>1. /\ WriteRow(i, row) /\ patched' = patched \ {i}
        /\ Goto(p, Emitting("FAILED", t.user, i, row))
    BY <1>3 DEF FailWrite
  <2>2. old \in Row /\ row \in Row
    BY <1>2, <1>3, FailedRow DEF TypeOK, ServiceTypeOK, Stored
  <2>3. SameTerms(old, row) /\ row.status = "FAILED" /\ row.txHash = t.hash
    <3> DEFINE h == t.hash
    <3>1. h \in Hash /\ old \in Row
      BY <1>2, <2>2
    <3>2. row = [old EXCEPT !.status = "FAILED", !.txHash = h]
      OBVIOUS
    <3> HIDE DEF old, h, row
    <3>3. SameTerms(old, row) /\ row.status = "FAILED" /\ row.txHash = h
      BY <3>1, <3>2 DEF Row, SameTerms, SameRequest
    <3>4. QED
      BY <3>3 DEF h
  <2> HIDE DEF row
  <2>4. TasksFollow
    BY <1>1, <2>1, PlainTaskFollows DEF Emitting
  <2>5. Settles(row)
    BY <1>2, <1>3, <2>3 DEF Settles, SameTerms, SameRequest, OnNetwork
  <2>6. \A j \in Stored \ {i} : row.txHash # NULL => intents[j].txHash # row.txHash
    BY <1>3, <2>3 DEF HashTaken
  <2>7. QED
    BY <1>1, <1>3, <2>1, <2>2, <2>3, <2>4, <2>5, <2>6, WriteStep
<1>4. CASE ~(i \in Stored /\ ~HashTaken(i, t.hash))
  <2>1. Goto(p, Idle) /\ UNCHANGED <<intents, patched>>
    BY <1>4 DEF FailWrite
  <2>2. TasksFollow
    BY <1>1, <2>1, PlainTaskFollows DEF Idle
  <2>3. QED
    BY <1>1, <2>1, <2>2, QuietStep DEF LedgerKept
<1>5. QED
  BY <1>3, <1>4

LEMMA TakenFollows ==
    ASSUME TypeOK, NEW o \in Observers, NEW item, Taken(o, item)
    PROVE  ItemsFollow
BY DEF TypeOK, Taken, ItemsFollow

LEMMA ExpireSettlement ==
    ASSUME TypeOK, TypeOK', SettlementInv, NEW o \in Observers, ExpireNext(o)
    PROVE  SafeStep
<1>1. PICK item \in cycle[o].todo :
        /\ IF item.id \in Stored
           THEN LET row == [intents[item.id] EXCEPT !.status = "EXPIRED"]
                IN  /\ WriteRow(item.id, row)
                    /\ Goto(o, Emitting("UPDATED", item.seen.owner, item.id, row))
           ELSE UNCHANGED <<intents, task>>
        /\ Taken(o, item)
  BY DEF ExpireNext
<1> DEFINE i   == item.id
           old == intents[i]
           row == [old EXCEPT !.status = "EXPIRED"]
<1>2. /\ ItemsFollow /\ task \in [Proc -> Task] /\ o \in Proc
      /\ UNCHANGED <<issued, ledger, patched>>
  BY <1>1, TakenFollows DEF TypeOK, ServiceTypeOK, ExpireNext, historyVars, Proc
<1>3. CASE i \in Stored
  <2>1. WriteRow(i, row) /\ Goto(o, Emitting("UPDATED", item.seen.owner, i, row))
    BY <1>1, <1>3
  <2>2. old \in Row /\ row \in Row
    BY <1>3, ExpiredRow DEF TypeOK, ServiceTypeOK, Stored
  <2>3. SameTerms(old, row) /\ row.status = "EXPIRED" /\ row.txHash = old.txHash
    <3>1. row = [old EXCEPT !.status = "EXPIRED"]
      OBVIOUS
    <3> HIDE DEF old, row
    <3>2. QED
      BY <2>2, <3>1 DEF Row, SameTerms, SameRequest
  <2> HIDE DEF row
  <2>4. TasksFollow
    BY <1>2, <2>1, PlainTaskFollows DEF Emitting
  <2>5. Settles(row)
    BY <2>3 DEF Settles
  <2>6. \A j \in Stored \ {i} : row.txHash # NULL => intents[j].txHash # row.txHash
    BY <1>3, <2>3 DEF SettlementInv, NoDoubleClaim
  <2>7. QED
    BY <1>2, <1>3, <2>1, <2>2, <2>3, <2>4, <2>5, <2>6, WriteStep
<1>4. CASE i \notin Stored
  <2>1. UNCHANGED <<intents, task>>
    BY <1>1, <1>4
  <2>2. QED
    BY <1>2, <2>1, QuietStep DEF LedgerKept, TasksFollow
<1>5. QED
  BY <1>3, <1>4

-----------------------------------------------------------------------------
(***************************************************************************)
(* The other steps of the observer and of the environment.                 *)
(***************************************************************************)
LEMMA EnteredFollows ==
    ASSUME TypeOK, NEW o \in Observers, NEW phase, NEW todo, EnterPhase(o, phase, todo),
           \A item \in todo : SnapshotFits(item.id, item.seen)'
    PROVE  ItemsFollow
BY DEF TypeOK, EnterPhase, ItemsFollow

\* A row as a query reads it fits the row as it is stored.
LEMMA FreshSnapshots ==
    ASSUME SettlementInv, NEW ids \in SUBSET Stored, UNCHANGED <<intents, issued>>,
           NEW item \in Snapshots(ids)
    PROVE  SnapshotFits(item.id, item.seen)'
BY DEF Snapshots, SnapshotFits, SettlementInv, IdsCountUp, Stored, SameRequest

LEMMA CycleSettlement ==
    ASSUME TypeOK, TypeOK', SettlementInv, NEW o \in Observers,
           \/ Tick(o) \/ QueryExpired(o) \/ QueryPending(o) \/ EndCycle(o)
           \/ QueryFails(o) \/ RowFails(o)
    PROVE  SafeStep
<1>1. /\ UNCHANGED <<intents, issued, patched, ledger, task>>
  BY DEF Tick, QueryExpired, QueryPending, EndCycle, QueryFails, RowFails, serviceVars,
         dbVars, historyVars
<1>2. ASSUME ItemsFollow PROVE SafeStep
  BY <1>1, <1>2, QuietStep DEF LedgerKept, TasksFollow
<1>3. CASE Tick(o) \/ EndCycle(o)
  BY <1>2, <1>3, EnteredFollows DEF Tick, EndCycle
<1>4. CASE QueryExpired(o)
  <2>1. PICK ids \in Some({i \in Id : IsExpirable(i)}) : EnterPhase(o, "expiring", Snapshots(ids))
    BY <1>4 DEF QueryExpired
  <2>2. ids \subseteq Stored
    BY DEF Some, IsExpirable
  <2>3. QED
    BY <1>1, <1>2, <2>1, <2>2, FreshSnapshots, EnteredFollows
<1>5. CASE QueryPending(o)
  <2> DEFINE ids == Oldest({i \in Id : IsPending(i)})
  <2>1. EnterPhase(o, "reconciling", Snapshots(ids)) /\ ids \subseteq Stored
    BY <1>5 DEF QueryPending, Oldest, IsPending
  <2> HIDE DEF ids
  <2>2. QED
    BY <1>1, <1>2, <2>1, FreshSnapshots, EnteredFollows
<1>6. CASE QueryFails(o)
  BY <1>2, <1>6 DEF QueryFails, AfterFailure, Off, ItemsFollow, TypeOK
<1>7. CASE RowFails(o)
  BY <1>2, <1>7, TakenFollows DEF RowFails
<1>8. QED
  BY <1>3, <1>4, <1>5, <1>6, <1>7

LEMMA ReconcileSettlement ==
    ASSUME TypeOK, TypeOK', SettlementInv, NEW o \in Observers, ReconcileNext(o)
    PROVE  SafeStep
<1>1. PICK item \in cycle[o].todo :
        /\ Taken(o, item)
        /\ \/ UNCHANGED task
           \/ \E m \in Matches(item.seen) :
                 Goto(o, Marking(item.seen.owner, item.id, m.hash, m.payer))
  BY DEF ReconcileNext
<1>2. /\ ItemsFollow /\ task \in [Proc -> Task] /\ o \in Proc
      /\ UNCHANGED <<intents, issued, ledger, patched>>
  BY <1>1, TakenFollows DEF TypeOK, ServiceTypeOK, ReconcileNext, dbVars, historyVars, Proc
<1>3. ASSUME TasksFollow PROVE SafeStep
  BY <1>2, <1>3, QuietStep DEF LedgerKept
<1>4. CASE UNCHANGED task
  BY <1>3, <1>4 DEF TasksFollow
<1>5. ASSUME NEW m \in Matches(item.seen),
             Goto(o, Marking(item.seen.owner, item.id, m.hash, m.payer))
      PROVE  SafeStep
  <2>1. m.hash \in Landed(ledger) /\ Fulfils(m.hash, item.seen)
    BY MatchSound
  <2>2. item.id <= issued /\ (item.id \in Stored => SameRequest(item.seen, intents[item.id]))
    BY DEF SettlementInv, BeliefsHold, SnapshotFits
  <2>3. item.id \in Stored => Fulfils(m.hash, intents[item.id])
    BY <2>1, <2>2, FulfilsRequest
  <2>4. task'[o].step = "markRead" /\ task'[o].id = item.id /\ task'[o].hash = m.hash
    BY <1>2, <1>5 DEF Goto, Marking
  <2>5. TaskOK(task[o])'
    BY <1>2, <2>1, <2>2, <2>3, <2>4 DEF TaskOK, Stored
  <2>6. QED
    BY <1>2, <1>3, <1>5, <2>5, OneTaskFollows
<1>6. QED
  BY <1>1, <1>4, <1>5

\* The merchant's routes on customers touch nothing that SettlementInv reads.
LEMMA CustomerRouteSettlement ==
    ASSUME TypeOK, TypeOK', SettlementInv, UNCHANGED cycle,
           NEW p \in Requests, NEW c \in Caller, NEW account \in Listed,
           CustomerRoute(p, c, account)
    PROVE  SafeStep
<1>1. UNCHANGED <<intents, issued, patched, ledger, task>>
  BY DEF CustomerRoute, AddCustomer, DropCustomer, EditCustomer, historyVars
<1>2. QED
  BY <1>1, SameItemsFollow, QuietStep DEF LedgerKept, TasksFollow

LEMMA EnvironmentSettlement ==
    ASSUME TypeOK, TypeOK', SettlementInv, UNCHANGED cycle,
           \/ \E key \in CustomerKey : CustomerJob(key) \/ CustomerFails(key)
           \/ \E i \in Id : Lapse(i)
           \/ \E t \in Tx : Land(t)
           \/ \E p \in Proc : CallFails(p)
    PROVE  SafeStep
<1>1. ItemsFollow /\ UNCHANGED <<intents, issued, patched>>
  BY SameItemsFollow
     DEF CustomerJob, CustomerFind, CustomerCreate, CustomerFails, Lapse, Land, CallFails,
         dbVars, historyVars
<1>2. ASSUME LedgerKept, TasksFollow PROVE SafeStep
  BY <1>1, <1>2, QuietStep
<1>3. CASE \E key \in CustomerKey : CustomerJob(key) \/ CustomerFails(key)
  BY <1>2, <1>3
     DEF CustomerJob, CustomerFind, CustomerCreate, CustomerFails, LedgerKept, TasksFollow
<1>4. CASE \E i \in Id : Lapse(i)
  BY <1>2, <1>4 DEF Lapse, LedgerKept, TasksFollow
<1>5. ASSUME NEW t \in Tx, Land(t) PROVE SafeStep
  <2>1. ledger' = Append(ledger, t) /\ ledger \in Seq(Tx) /\ UNCHANGED task
    BY <1>5 DEF Land, TypeOK, ServiceTypeOK
  <2>2. LedgerKept
    BY <2>1 DEF LedgerKept, Landed
  <2>3. QED
    BY <1>2, <2>1, <2>2 DEF TasksFollow
<1>6. ASSUME NEW p \in Proc, CallFails(p) PROVE SafeStep
  <2>1. TasksFollow
    BY <1>6, PlainTaskFollows DEF CallFails, Idle, TypeOK, ServiceTypeOK
  <2>2. QED
    BY <1>2, <1>6, <2>1 DEF CallFails, LedgerKept
<1>7. QED
  BY <1>3, <1>4, <1>5, <1>6

LEMMA CrashSettlement ==
    ASSUME TypeOK, TypeOK', SettlementInv, Crash
    PROVE  SafeStep
<1>1. UNCHANGED <<intents, issued, patched, ledger>>
  BY DEF Crash, dbVars, historyVars
<1>2. TasksFollow
  BY DEF Crash, TasksFollow, TaskOK, Idle
<1>3. ItemsFollow
  BY DEF Crash, ItemsFollow, Off
<1>4. QED
  BY <1>1, <1>2, <1>3, QuietStep DEF LedgerKept

LEMMA SettlementStep == TypeOK /\ TypeOK' /\ SettlementInv /\ [Next]_vars => SafeStep
<1> SUFFICES ASSUME TypeOK, TypeOK', SettlementInv, [Next]_vars PROVE SafeStep
  OBVIOUS
<1>1. CASE ServiceNext /\ UNCHANGED cycle
  <2>1. ASSUME NEW p \in Proc, Continue(p) PROVE SafeStep
    BY <1>1, <2>1, InsertSettlement, PatchSettlement, DeleteSettlement, MarkSettlement,
       FailSettlement, QuietHandlerSettlement DEF Continue
  <2>2. QED
    BY <1>1, <2>1, RequestSettlement, CustomerRouteSettlement, EnvironmentSettlement
       DEF ServiceNext
<1>2. ASSUME NEW o \in Observers, ObserverStep(o) \/ QueryFails(o) \/ RowFails(o)
      PROVE  SafeStep
  BY <1>2, ExpireSettlement, CycleSettlement, ReconcileSettlement DEF ObserverStep
<1>3. CASE Crash
  BY <1>3, CrashSettlement
<1>4. CASE UNCHANGED vars
  <2>1. UNCHANGED <<intents, issued, patched, ledger, task, cycle>>
    BY <1>4 DEF vars, serviceVars
  <2>2. QED
    BY <2>1, SameItemsFollow, QuietStep DEF LedgerKept, TasksFollow
<1>5. QED
  BY <1>1, <1>2, <1>3, <1>4 DEF Next, Step

-----------------------------------------------------------------------------
(***************************************************************************)
(* The theorems.                                                           *)
(***************************************************************************)
\* SettlementInv is an invariant: nothing that a handler or the observer still
\* intends to write has gone out of date, for any number of clients, intents,
\* transactions, observers, failures and crashes.
THEOREM SettlementCorrect == Spec => []SettlementInv
<1>1. Spec => []TypeOK
  BY TypeCorrect
<1>2. QED
  BY <1>1, InitSettlement, SettlementStep, PTL DEF Spec, SafeStep

\* Whatever interleaves, a settlement the client did not write itself is backed
\* by a landed transaction that fulfils the intent as it is stored.
THEOREM SettlementsVerified == Spec => []VerifiedSettlement
<1>1. SettlementInv => VerifiedSettlement
  BY DEF SettlementInv
<1>2. QED
  BY <1>1, SettlementCorrect, PTL

\* A failure the client did not write itself is that of a landed transaction.
THEOREM FailuresVerified == Spec => []VerifiedFailure
<1>1. SettlementInv => VerifiedFailure
  BY DEF SettlementInv
<1>2. QED
  BY <1>1, SettlementCorrect, PTL

\* No transaction settles two intents, whoever claims it first.
THEOREM ClaimsUnique == Spec => []NoDoubleClaim
<1>1. SettlementInv => NoDoubleClaim
  BY DEF SettlementInv
<1>2. QED
  BY <1>1, SettlementCorrect, PTL

\* A stored intent keeps the terms the payer was given, and a deleted one never
\* comes back, in every step of the system.
THEOREM TermsStayFrozen == Spec => TermsFrozen
<1>1. TypeOK /\ TypeOK' /\ SettlementInv /\ [Next]_vars =>
        [\A i \in 1..issued :
            intents'[i] # NULL => intents[i] # NULL /\ SameTerms(intents[i], intents'[i])]_vars
  BY SettlementStep DEF SafeStep, TermsKept
<1>2. QED
  BY <1>1, TypeCorrect, SettlementCorrect, PTL DEF Spec, TermsFrozen
=============================================================================
