------------------------- MODULE StellarObserverProofs -------------------------
(***************************************************************************)
(* Proofs about StellarObserver: the type invariant, and the invariant     *)
(* that makes every settlement a verified one.                             *)
(***************************************************************************)
EXTENDS StellarObserver, TLAPS

LEMMA Bounds == MaxIntents \in Nat /\ MaxRequests \in Nat /\ MaxFaults \in Nat
BY ServiceAssumption

LEMMA Counting ==
    ASSUME NEW max \in Nat, NEW n \in 0..max, n < max
    PROVE  n + 1 \in 0..max
OBVIOUS

-----------------------------------------------------------------------------
(***************************************************************************)
(* What the step of a task says of its other fields.                       *)
(***************************************************************************)
LEMMA CreateTask ==
    ASSUME NEW t \in Task, t.step \in {"findByMemo", "loadAccount", "insert", "refind"}
    PROVE  t.draft \in Row
BY DEF Task, Idle

LEMMA PatchTask ==
    ASSUME NEW t \in Task, t.step = "patch"
    PROVE  t.user \in Username /\ t.id \in Id /\ t.patch \in Patch
BY DEF Task, Idle

LEMMA RemoveTask ==
    ASSUME NEW t \in Task, t.step \in {"removeStatus", "delete"}
    PROVE  t.user \in Username /\ t.id \in Id
BY DEF Task, Idle

LEMMA VerifyTask ==
    ASSUME NEW t \in Task, t.step = "verify"
    PROVE  t.user \in Username /\ t.id \in Id /\ t.hash \in Hash /\ t.seen \in Row
BY DEF Task, Idle

LEMMA MarkTask ==
    ASSUME NEW t \in Task, t.step \in {"markRead", "markWrite"}
    PROVE  /\ t.user \in Username /\ t.id \in Id /\ t.hash \in Hash /\ t.payer \in Account
           /\ t.step = "markWrite" => t.source \in Optional(Account)
BY DEF Task, Idle

LEMMA FailTask ==
    ASSUME NEW t \in Task, t.step = "markFailed"
    PROVE  t.user \in Username /\ t.id \in Id /\ t.hash \in Hash
BY DEF Task, Idle

LEMMA EmitTask ==
    ASSUME NEW t \in Task, t.step = "emit"
    PROVE  t.event \in Event /\ t.payer \in Optional(Account)
BY DEF Task, Idle

LEMMA IdleTask == Idle \in Task
BY DEF Task

(***************************************************************************)
(* The rows that the handlers write, and the tasks they go on to.          *)
(***************************************************************************)
LEMMA PatchedRow ==
    ASSUME NEW old \in Row, NEW s \in Optional(Status), NEW b \in BOOLEAN, NEW h \in Optional(Hash)
    PROVE  [old EXCEPT !.status = IF s = NULL THEN @ ELSE s,
                       !.txHash = IF b THEN h ELSE @] \in Row
BY DEF Row, Optional

LEMMA SettledRow ==
    ASSUME NEW old \in Row, NEW h \in Hash, NEW a \in Optional(Account)
    PROVE  [old EXCEPT !.status = "SUCCEEDED", !.txHash = h,
                       !.source = IF a = NULL THEN @ ELSE a] \in Row
BY DEF Row, Optional, Status

LEMMA FailedRow ==
    ASSUME NEW old \in Row, NEW h \in Hash
    PROVE  [old EXCEPT !.status = "FAILED", !.txHash = h] \in Row
BY DEF Row, Optional, Status

LEMMA ExpiredRow ==
    ASSUME NEW old \in Row
    PROVE  [old EXCEPT !.status = "EXPIRED"] \in Row
BY DEF Row, Status

LEMMA EmittingType ==
    ASSUME NEW type \in EventType, NEW user \in Username, NEW i \in Id, NEW row \in Row
    PROVE  Emitting(type, user, i, row) \in Task
BY DEF Emitting, EventFor, Event, Task, Row, Optional

LEMMA DeclaringType ==
    ASSUME NEW type \in EventType, NEW user \in Username, NEW i \in Id, NEW row \in Row
    PROVE  Declaring(type, user, i, row) \in Task
BY DEF Declaring, Emitting, EventFor, Event, Task, Row, Optional

LEMMA SettlingType ==
    ASSUME NEW user \in Username, NEW i \in Id, NEW row \in Row, NEW payer \in Account
    PROVE  Settling(user, i, row, payer) \in Task
BY DEF Settling, Emitting, EventFor, Event, EventType, Task, Row, Optional

LEMMA MarkingType ==
    ASSUME NEW user \in Username, NEW i \in Id, NEW h \in Hash, NEW payer \in Account
    PROVE  Marking(user, i, h, payer) \in Task
BY DEF Marking, Task

LEMMA DraftType ==
    ASSUME NEW c \in Caller, NEW order \in Order, Acceptable(order), NEW draft \in Drafts(c, order)
    PROVE  draft \in Row
BY ServiceAssumption DEF Drafts, Acceptable, IsNative, ResolveNetwork, Row, Optional, Username, Status, Network

\* Only a landed transaction is found valid, and its payers are accounts.
LEMMA HashPayer ==
    ASSUME NEW row, NEW t, ledger \in Seq(Tx), VerdictByHash(row, t, ledger) = "valid",
           NEW payer \in PayersByHash(row, t)
    PROVE  payer \in Account
<1>1. t \in Tx
  BY DEF VerdictByHash, OnNetwork, Landed
<1>2. PICK k \in DOMAIN TxRecord[t].ops : payer = TxRecord[t].ops[k].from
  BY DEF PayersByHash, MatchingOps, FirstPage
<1>3. QED
  BY <1>1, <1>2, ServiceAssumption

\* What a reconciliation finds: a landed transaction and one of its payers.
LEMMA MatchType ==
    ASSUME ledger \in Seq(Tx), NEW row \in Row, NEW m \in Matches(row)
    PROVE  m.hash \in Hash /\ m.payer \in Account
<1>1. CASE m \in MatchesByHash(row)
  <2>1. VerdictByHash(row, row.txHash, ledger) = "valid" /\ m.hash = row.txHash
        /\ m.payer \in PayersByHash(row, row.txHash)
    BY <1>1 DEF MatchesByHash
  <2>2. row.txHash \in Tx
    BY <2>1 DEF VerdictByHash, OnNetwork, Landed
  <2>3. QED
    BY <2>1, <2>2, HashPayer, ServiceAssumption
<1>2. CASE m \in MatchesByScan(row)
  <2>1. PICK pos \in NewestHit(row, ledger) :
           m = [hash |-> ledger[pos[1]], payer |-> OpAt(pos, ledger).from]
    BY <1>2 DEF MatchesByScan
  <2>2. pos \in AccountOps(row, ledger)
    BY <2>1 DEF NewestHit, ScanHits, ScannedOps
  <2>3. pos[1] \in DOMAIN ledger /\ pos[2] \in DOMAIN TxRecord[ledger[pos[1]]].ops
    BY <2>2 DEF AccountOps
  <2>4. ledger[pos[1]] \in Tx
    BY <2>3
  <2>5. QED
    BY <2>1, <2>3, <2>4, ServiceAssumption DEF OpAt
<1>3. QED
  BY <1>1, <1>2 DEF Matches

\* The counts of a payer's jobs and rows stay natural numbers.
Counts == [finding : Nat, creating : Nat, rows : Nat, removed : BOOLEAN]

LEMMA CountsUpdate ==
    ASSUME NEW c \in Counts, NEW m \in Nat, NEW n \in Nat
    PROVE  /\ [c EXCEPT !.finding = m] \in Counts
           /\ [c EXCEPT !.creating = m] \in Counts
           /\ [c EXCEPT !.finding = m, !.creating = n] \in Counts
           /\ [c EXCEPT !.creating = m, !.rows = n] \in Counts
           /\ [c EXCEPT !.rows = m] \in Counts
           /\ [c EXCEPT !.rows = m, !.removed = TRUE] \in Counts
BY DEF Counts

LEMMA JobStarts == ASSUME NEW c \in Counts PROVE [c EXCEPT !.finding = @ + 1] \in Counts
<1>1. c.finding + 1 \in Nat
  BY DEF Counts
<1>2. QED
  BY <1>1, CountsUpdate

LEMMA JobFinds ==
    ASSUME NEW c \in Counts, c.finding > 0
    PROVE  /\ [c EXCEPT !.finding = @ - 1,
                        !.creating = IF c.rows = 0 THEN @ + 1 ELSE @] \in Counts
           /\ [c EXCEPT !.finding = @ - 1] \in Counts
<1>1. c.finding \in Nat /\ (IF c.rows = 0 THEN c.creating + 1 ELSE c.creating) \in Nat
  BY DEF Counts
<1>2. c.finding - 1 \in Nat
  BY <1>1
<1>3. QED
  BY <1>1, <1>2, CountsUpdate

LEMMA JobCreates ==
    ASSUME NEW c \in Counts, c.creating > 0
    PROVE  /\ [c EXCEPT !.creating = @ - 1, !.rows = @ + 1] \in Counts
           /\ [c EXCEPT !.creating = @ - 1] \in Counts
<1>1. c.creating \in Nat /\ c.rows + 1 \in Nat
  BY DEF Counts
<1>2. c.creating - 1 \in Nat
  BY <1>1
<1>3. QED
  BY <1>1, <1>2, CountsUpdate

LEMMA CountsType ==
    ASSUME customers \in [CustomerKey -> Counts], NEW k \in CustomerKey,
           NEW c \in Counts, customers' = [customers EXCEPT ![k] = c]
    PROVE  customers' \in [CustomerKey -> Counts]
OBVIOUS

\* Merchants add and drop rows, one at a time.
LEMMA RowsChange ==
    ASSUME NEW f \in [CustomerKey -> Counts], NEW k \in CustomerKey
    PROVE  /\ WithRow(f, k) \in [CustomerKey -> Counts]
           /\ f[k].rows > 0 => WithoutRow(f, k) \in [CustomerKey -> Counts]
<1>1. f[k] \in Counts /\ f[k].rows \in Nat
  BY DEF Counts
<1>2. f[k].rows + 1 \in Nat /\ (f[k].rows > 0 => f[k].rows - 1 \in Nat)
  BY <1>1
<1>3. WithRow(f, k) = [f EXCEPT ![k] = [f[k] EXCEPT !.rows = f[k].rows + 1]]
  BY DEF WithRow
<1>4. WithoutRow(f, k) =
         [f EXCEPT ![k] = [f[k] EXCEPT !.rows = f[k].rows - 1, !.removed = TRUE]]
  BY DEF WithoutRow
<1>5. [f[k] EXCEPT !.rows = f[k].rows + 1] \in Counts
  BY <1>1, <1>2, CountsUpdate
<1>6. f[k].rows > 0 => [f[k] EXCEPT !.rows = f[k].rows - 1, !.removed = TRUE] \in Counts
  BY <1>1, <1>2, CountsUpdate
<1>7. QED
  BY <1>3, <1>4, <1>5, <1>6

LEMMA GotoType ==
    ASSUME task \in [Proc -> Task], NEW p \in Proc, NEW t \in Task, Goto(p, t)
    PROVE  task' \in [Proc -> Task]
BY DEF Goto

LEMMA WriteRowType ==
    ASSUME intents \in [Id -> Row \cup {NULL}], NEW i \in Id,
           NEW row \in Row \cup {NULL}, WriteRow(i, row)
    PROVE  intents' \in [Id -> Row \cup {NULL}]
BY DEF WriteRow

-----------------------------------------------------------------------------
(***************************************************************************)
(* Type correctness: one lemma for every actor of Next.                    *)
(***************************************************************************)
LEMMA InitType == Init => TypeOK
<1> SUFFICES ASSUME Init PROVE TypeOK
  OBVIOUS
<1>1. task \in [Proc -> Task]
  BY IdleTask DEF Init, ServiceInit
<1>2. ledger \in Seq(Tx)
  BY DEF Init, ServiceInit
<1>3. /\ issued \in 0..MaxIntents /\ received \in 0..MaxRequests /\ faults \in 0..MaxFaults
  BY Bounds DEF Init, ServiceInit
<1>4. customers \in [CustomerKey -> [finding : Nat, creating : Nat, rows : Nat,
                                     removed : BOOLEAN]]
  BY DEF Init, ServiceInit
<1>5. cycle \in [Observers -> [phase : Phase, todo : SUBSET Snapshot]]
  BY DEF Init, Off, Phase
<1>6. QED
  BY <1>1, <1>2, <1>3, <1>4, <1>5 DEF Init, ServiceInit, TypeOK, ServiceTypeOK

LEMMA RequestType ==
    ASSUME TypeOK, NEW p \in Requests, NEW c \in Caller, UNCHANGED cycle,
           \/ \E order \in Order : Create(p, c, order)
           \/ \E i \in Id :
                 \/ \E patch \in Patch : Update(p, c, i, patch)
                 \/ Remove(p, c, i)
                 \/ \E hash \in Hash \ {""} : Validate(p, c, i, hash)
    PROVE  TypeOK'
<1> USE DEF TypeOK, ServiceTypeOK, dbVars, historyVars
<1>1. c.username \in Username /\ p \in Proc
  BY DEF Username, Proc
<1>2. ASSUME NEW route, Receive(p, route) PROVE received' \in 0..MaxRequests
  BY <1>2, Bounds, Counting DEF Receive
<1>3. ASSUME NEW order \in Order, Create(p, c, order) PROVE TypeOK'
  <2>1. CASE Acceptable(order)
    <3>1. PICK draft \in Drafts(c, order) : Goto(p, [step |-> "findByMemo", draft |-> draft])
      BY <1>3, <2>1 DEF Create
    <3>2. [step |-> "findByMemo", draft |-> draft] \in Task
      BY <2>1, DraftType DEF Task
    <3>3. task' \in [Proc -> Task]
      BY <1>1, <3>1, <3>2, GotoType
    <3>4. QED
      BY <1>1, <1>2, <1>3, <3>3 DEF Create
  <2>2. CASE ~Acceptable(order)
    BY <1>1, <1>2, <1>3, <2>2 DEF Create
  <2>3. QED
    BY <2>1, <2>2
<1>4. ASSUME NEW i \in Id, NEW patch \in Patch, Update(p, c, i, patch) PROVE TypeOK'
  <2>1. [step |-> "patch", user |-> c.username, id |-> i, patch |-> patch] \in Task
    BY <1>1 DEF Task
  <2>2. task' \in [Proc -> Task]
    BY <1>1, <1>4, <2>1, GotoType DEF Update
  <2>3. QED
    BY <1>2, <1>4, <2>2 DEF Update
<1>5. ASSUME NEW i \in Id, Remove(p, c, i) PROVE TypeOK'
  <2>1. [step |-> "removeStatus", user |-> c.username, id |-> i] \in Task
    BY <1>1 DEF Task
  <2>2. task' \in [Proc -> Task]
    BY <1>1, <1>5, <2>1, GotoType DEF Remove
  <2>3. QED
    BY <1>2, <1>5, <2>2 DEF Remove
<1>6. ASSUME NEW i \in Id, NEW hash \in Hash, Validate(p, c, i, hash) PROVE TypeOK'
  <2>1. intents[i] \in Row
    BY <1>6 DEF Validate, Owned, Stored
  <2>2. [step |-> "verify", user |-> c.username, id |-> i, hash |-> hash,
         seen |-> intents[i]] \in Task
    BY <1>1, <2>1 DEF Task
  <2>3. task' \in [Proc -> Task]
    BY <1>1, <1>6, <2>2, IdleTask, GotoType DEF Validate
  <2>4. QED
    BY <1>2, <1>6, <2>3 DEF Validate
<1>7. QED
  BY <1>3, <1>4, <1>5, <1>6

LEMMA CustomerRouteType ==
    ASSUME TypeOK, NEW p \in Requests, NEW c \in Caller, NEW account \in Listed,
           CustomerRoute(p, c, account), UNCHANGED cycle
    PROVE  TypeOK'
<1> USE DEF TypeOK, ServiceTypeOK, historyVars
<1> DEFINE Kept == customers' \in [CustomerKey -> Counts]
<1>1. c.username \in Username
  BY DEF Username
<1>2. ASSUME NEW a \in Listed PROVE <<c.username, a>> \in CustomerKey
  BY <1>1, ServiceAssumption DEF CustomerKey
<1>3. customers \in [CustomerKey -> Counts]
  BY DEF Counts
<1>4. ASSUME Receive(p, "customers") PROVE received' \in 0..MaxRequests
  BY <1>4, Bounds, Counting DEF Receive
<1>5. CASE AddCustomer(p, c, account)
  <2>1. Kept
    BY <1>2, <1>3, <1>5, RowsChange DEF AddCustomer
  <2>2. QED
    BY <1>1, <1>4, <1>5, <2>1 DEF AddCustomer, Counts
<1>6. CASE DropCustomer(p, c, account)
  <2>1. Kept
    BY <1>2, <1>3, <1>6, RowsChange DEF DropCustomer, HasCustomer
  <2>2. QED
    BY <1>1, <1>4, <1>6, <2>1 DEF DropCustomer, Counts
<1>7. ASSUME NEW new \in Listed, EditCustomer(p, c, account, new) PROVE TypeOK'
  <2>1. Kept
    <3>1. CASE HasCustomer(c, account)
      <4> DEFINE less == WithoutRow(customers, <<c.username, account>>)
      <4>1. less \in [CustomerKey -> Counts]
        BY <1>2, <1>3, <3>1, RowsChange DEF HasCustomer
      <4>2. customers' = WithRow(less, <<c.username, new>>)
        BY <1>7, <3>1 DEF EditCustomer
      <4> HIDE DEF less
      <4>3. WithRow(less, <<c.username, new>>) \in [CustomerKey -> Counts]
        BY <1>2, <4>1, RowsChange
      <4>4. QED
        BY <4>2, <4>3
    <3>2. CASE ~HasCustomer(c, account)
      BY <1>3, <1>7, <3>2 DEF EditCustomer
    <3>3. QED
      BY <3>1, <3>2
  <2>2. QED
    BY <1>1, <1>4, <1>7, <2>1 DEF EditCustomer, Counts
<1>8. QED
  BY <1>5, <1>6, <1>7 DEF CustomerRoute

LEMMA HandlerType ==
    ASSUME TypeOK, NEW p \in Proc, Continue(p), UNCHANGED cycle
    PROVE  TypeOK'
<1> USE DEF TypeOK, ServiceTypeOK, dbVars, historyVars
<1>a. task[p] \in Task
  OBVIOUS
<1>b. \A i \in Stored : intents[i] \in Row /\ i \in Id
  BY DEF Stored
<1>1. CASE CheckMemo(p)
  <2>1. task[p].draft \in Row
    BY <1>a, <1>1, CreateTask DEF CheckMemo
  <2>2. [step |-> IF task[p].draft.kind = "TX" THEN "loadAccount" ELSE "insert",
         draft |-> task[p].draft] \in Task
    BY <2>1 DEF Task
  <2>3. task' \in [Proc -> Task]
    BY <1>1, <2>2, IdleTask, GotoType DEF CheckMemo
  <2>4. answers' \subseteq [user : Username, memo : Memo, id : Id]
    BY <1>1, <2>1 DEF CheckMemo, Answer, FindByMemo, Stored, Row
  <2>5. QED
    BY <1>1, <2>3, <2>4 DEF CheckMemo
<1>2. CASE LoadAccount(p)
  <2>1. [step |-> "insert", draft |-> task[p].draft] \in Task
    BY <1>a, <1>2, CreateTask DEF LoadAccount, Task
  <2>2. task' \in [Proc -> Task]
    BY <1>2, <2>1, GotoType DEF LoadAccount
  <2>3. QED
    BY <1>2, <2>2 DEF LoadAccount
<1>3. CASE Insert(p)
  <2>1. task[p].draft \in Row
    BY <1>a, <1>3, CreateTask DEF Insert
  <2>2. CASE MemoTaken(task[p].draft)
    <3>1. [step |-> "refind", draft |-> task[p].draft] \in Task
      BY <2>1 DEF Task
    <3>2. task' \in [Proc -> Task]
      BY <1>3, <2>2, <3>1, GotoType DEF Insert
    <3>3. QED
      BY <1>3, <2>2, <3>2 DEF Insert
  <2>3. CASE ~MemoTaken(task[p].draft)
    <3>1. issued + 1 \in 0..MaxIntents /\ issued + 1 \in Id
      BY <1>3, <2>3, Bounds DEF Insert, Id
    <3>2. intents' \in [Id -> Row \cup {NULL}]
      BY <1>3, <2>1, <2>3, <3>1, WriteRowType DEF Insert
    <3>3. Emitting("CREATED", task[p].draft.owner, issued + 1, task[p].draft) \in Task
      BY <2>1, <3>1, EmittingType DEF Row, EventType
    <3>4. task' \in [Proc -> Task]
      BY <1>3, <2>3, <3>3, GotoType DEF Insert
    <3>5. QED
      BY <1>3, <2>3, <3>1, <3>2, <3>4 DEF Insert
  <2>4. QED
    BY <2>2, <2>3
<1>4. CASE Refind(p)
  <2>1. task[p].draft \in Row
    BY <1>a, <1>4, CreateTask DEF Refind
  <2>2. task' \in [Proc -> Task]
    BY <1>4, IdleTask, GotoType DEF Refind
  <2>3. answers' \subseteq [user : Username, memo : Memo, id : Id]
    BY <1>4, <2>1 DEF Refind, Answer, FindByMemo, Stored, Row
  <2>4. QED
    BY <1>4, <2>2, <2>3 DEF Refind
<1>5. CASE PatchWrite(p)
  <2> DEFINE i    == task[p].id
             new  == task[p].patch
             row  == [intents[i] EXCEPT
                         !.status = IF new.status = NULL THEN @ ELSE new.status,
                         !.txHash = IF new.setsHash THEN new.txHash ELSE @]
             type == IF new.status = NULL THEN "UPDATED" ELSE StatusEvent(new.status)
  <2>1. task[p].user \in Username /\ i \in Id /\ new \in Patch
    BY <1>a, <1>5, PatchTask DEF PatchWrite
  <2>2. CASE i \in Stored /\ ~(new.setsHash /\ HashTaken(i, new.txHash))
    <3>1. new.status \in Optional(Status) /\ new.setsHash \in BOOLEAN /\ new.txHash \in Optional(Hash)
      BY <2>1, ServiceAssumption
    <3>2. row \in Row
      BY <1>b, <2>2, <3>1, PatchedRow
    <3>3. type \in EventType
      BY DEF StatusEvent, EventType
    <3>4. Declaring(type, task[p].user, i, row) \in Task
      BY <2>1, <3>2, <3>3, DeclaringType
    <3>5. /\ WriteRow(i, row)
          /\ patched' \subseteq patched \cup {i}
          /\ Goto(p, Declaring(type, task[p].user, i, row))
      BY <1>5, <2>2 DEF PatchWrite
    <3>6. intents' \in [Id -> Row \cup {NULL}] /\ task' \in [Proc -> Task]
      <4> HIDE DEF row, type
      <4>1. QED
        BY <2>1, <3>2, <3>4, <3>5, WriteRowType, GotoType
    <3>7. QED
      <4> HIDE DEF row, type
      <4>1. QED
        BY <1>5, <2>1, <3>5, <3>6 DEF PatchWrite
  <2>3. CASE ~(i \in Stored /\ ~(new.setsHash /\ HashTaken(i, new.txHash)))
    <3>1. Goto(p, Idle) /\ UNCHANGED <<intents, patched>>
      BY <1>5, <2>3 DEF PatchWrite
    <3>2. task' \in [Proc -> Task]
      BY <3>1, IdleTask, GotoType
    <3>3. QED
      BY <1>5, <3>1, <3>2 DEF PatchWrite
  <2>4. QED
    BY <2>2, <2>3
<1>6. CASE RemoveStatus(p)
  <2>1. [step |-> "delete", user |-> task[p].user, id |-> task[p].id] \in Task
    BY <1>a, <1>6, RemoveTask DEF RemoveStatus, Task
  <2>2. task' \in [Proc -> Task]
    BY <1>6, <2>1, IdleTask, GotoType DEF RemoveStatus
  <2>3. QED
    BY <1>6, <2>2 DEF RemoveStatus
<1>7. CASE Delete(p)
  <2>1. task[p].user \in Username /\ task[p].id \in Id
    BY <1>a, <1>7, RemoveTask DEF Delete
  <2>2. task[p].id \in Stored => Emitting("DELETED", task[p].user, task[p].id, intents[task[p].id]) \in Task
    BY <1>b, <2>1, EmittingType DEF EventType
  <2>3. task' \in [Proc -> Task]
    BY <1>7, <2>2, IdleTask, GotoType DEF Delete
  <2>4. intents' \in [Id -> Row \cup {NULL}]
    BY <1>7, <2>1, WriteRowType DEF Delete
  <2>5. QED
    BY <1>7, <2>3, <2>4 DEF Delete
<1>8. CASE Verify(p)
  <2>1. task[p].user \in Username /\ task[p].id \in Id /\ task[p].hash \in Hash
    BY <1>a, <1>8, VerifyTask DEF Verify
  <2>2. [step |-> "markFailed", user |-> task[p].user, id |-> task[p].id,
         hash |-> task[p].hash] \in Task
    BY <2>1 DEF Task
  <2>3. ASSUME VerdictByHash(task[p].seen, task[p].hash, ledger) = "valid",
               NEW payer \in PayersByHash(task[p].seen, task[p].hash)
        PROVE  Marking(task[p].user, task[p].id, task[p].hash, payer) \in Task
    BY <2>1, <2>3, HashPayer, MarkingType
  <2>4. task' \in [Proc -> Task]
    BY <1>8, <2>2, <2>3, IdleTask, GotoType DEF Verify
  <2>5. QED
    BY <1>8, <2>4 DEF Verify
<1>9. CASE MarkRead(p)
  <2>1. task[p].user \in Username /\ task[p].id \in Id /\ task[p].hash \in Hash
        /\ task[p].payer \in Account
    BY <1>a, <1>9, MarkTask DEF MarkRead
  <2>2. [step |-> "markWrite", user |-> task[p].user, id |-> task[p].id,
         hash |-> task[p].hash, payer |-> task[p].payer,
         source |-> SourceToSet(task[p].id, task[p].payer)] \in Task
    BY <2>1 DEF SourceToSet, Task, Optional
  <2>3. task' \in [Proc -> Task]
    BY <1>9, <2>2, GotoType DEF MarkRead
  <2>4. QED
    BY <1>9, <2>3 DEF MarkRead
<1>10. CASE MarkWrite(p)
  <2> DEFINE t   == task[p]
             row == [intents[t.id] EXCEPT
                        !.status = "SUCCEEDED", !.txHash = t.hash,
                        !.source = IF t.source = NULL THEN @ ELSE t.source]
  <2>1. /\ t.user \in Username /\ t.id \in Id /\ t.hash \in Hash /\ t.payer \in Account
        /\ t.source \in Optional(Account)
    BY <1>a, <1>10, MarkTask DEF MarkWrite
  <2>2. CASE t.id \in Stored /\ ~HashTaken(t.id, t.hash)
    <3>1. row \in Row
      BY <1>b, <2>1, <2>2, SettledRow
    <3>2. Settling(t.user, t.id, row, t.payer) \in Task
      BY <2>1, <3>1, SettlingType
    <3>3. WriteRow(t.id, row) /\ patched' = patched \ {t.id}
          /\ Goto(p, Settling(t.user, t.id, row, t.payer))
      BY <1>10, <2>2 DEF MarkWrite
    <3>4. intents' \in [Id -> Row \cup {NULL}] /\ task' \in [Proc -> Task]
      <4> HIDE DEF row
      <4>1. QED
        BY <2>1, <3>1, <3>2, <3>3, WriteRowType, GotoType
    <3>5. QED
      <4> HIDE DEF row
      <4>1. QED
        BY <1>10, <3>3, <3>4 DEF MarkWrite
  <2>3. CASE ~(t.id \in Stored /\ ~HashTaken(t.id, t.hash))
    <3>1. Goto(p, Idle) /\ UNCHANGED <<intents, patched>>
      BY <1>10, <2>3 DEF MarkWrite
    <3>2. task' \in [Proc -> Task]
      BY <3>1, IdleTask, GotoType
    <3>3. QED
      BY <1>10, <3>1, <3>2 DEF MarkWrite
  <2>4. QED
    BY <2>2, <2>3
<1>11. CASE FailWrite(p)
  <2> DEFINE t   == task[p]
             row == [intents[t.id] EXCEPT !.status = "FAILED", !.txHash = t.hash]
  <2>1. t.user \in Username /\ t.id \in Id /\ t.hash \in Hash
    BY <1>a, <1>11, FailTask DEF FailWrite
  <2>2. CASE t.id \in Stored /\ ~HashTaken(t.id, t.hash)
    <3>1. row \in Row
      BY <1>b, <2>1, <2>2, FailedRow
    <3>2. Emitting("FAILED", t.user, t.id, row) \in Task
      BY <2>1, <3>1, EmittingType DEF EventType
    <3>3. WriteRow(t.id, row) /\ patched' = patched \ {t.id}
          /\ Goto(p, Emitting("FAILED", t.user, t.id, row))
      BY <1>11, <2>2 DEF FailWrite
    <3>4. intents' \in [Id -> Row \cup {NULL}] /\ task' \in [Proc -> Task]
      <4> HIDE DEF row
      <4>1. QED
        BY <2>1, <3>1, <3>2, <3>3, WriteRowType, GotoType
    <3>5. QED
      <4> HIDE DEF row
      <4>1. QED
        BY <1>11, <3>3, <3>4 DEF FailWrite
  <2>3. CASE ~(t.id \in Stored /\ ~HashTaken(t.id, t.hash))
    <3>1. Goto(p, Idle) /\ UNCHANGED <<intents, patched>>
      BY <1>11, <2>3 DEF FailWrite
    <3>2. task' \in [Proc -> Task]
      BY <3>1, IdleTask, GotoType
    <3>3. QED
      BY <1>11, <3>1, <3>2 DEF FailWrite
  <2>4. QED
    BY <2>2, <2>3
<1>12. CASE Emit(p)
  <2>1. task[p].event \in Event /\ task[p].payer \in Optional(Account)
    BY <1>a, <1>12, EmitTask DEF Emit
  <2>2. task' \in [Proc -> Task]
    BY <1>12, IdleTask, GotoType DEF Emit
  <2>3. events' \subseteq Event
    BY <1>12, <2>1 DEF Emit
  <2>4. answers' \subseteq [user : Username, memo : Memo, id : Id]
    BY <1>12, <2>1 DEF Emit, Event
  <2>5. customers' \in [CustomerKey -> Counts]
    <3>1. CASE task[p].payer = NULL
      BY <1>12, <3>1 DEF Emit, Counts
    <3>2. CASE task[p].payer # NULL
      <4>1. <<task[p].event.owner, task[p].payer>> \in CustomerKey
        BY <2>1, <3>2 DEF Event, Optional, CustomerKey
      <4> DEFINE k == <<task[p].event.owner, task[p].payer>>
      <4>2. [customers[k] EXCEPT !.finding = @ + 1] \in Counts
        <5>1. customers[k] \in Counts
          BY <4>1 DEF Counts
        <5>2. QED
          BY <5>1, JobStarts
      <4>3. customers' = [customers EXCEPT ![k] = [customers[k] EXCEPT !.finding = @ + 1]]
        BY <1>12, <3>2 DEF Emit
      <4>4. QED
        BY <4>1, <4>2, <4>3, CountsType DEF Counts
    <3>3. QED
      BY <3>1, <3>2
  <2>6. QED
    BY <1>12, <2>2, <2>3, <2>4, <2>5 DEF Emit, Counts
<1>13. QED
  BY <1>1, <1>2, <1>3, <1>4, <1>5, <1>6, <1>7, <1>8, <1>9, <1>10, <1>11, <1>12 DEF Continue

LEMMA EnvironmentType ==
    ASSUME TypeOK, UNCHANGED cycle,
           \/ \E key \in CustomerKey : CustomerJob(key) \/ CustomerFails(key)
           \/ \E i \in Id : Lapse(i)
           \/ \E t \in Tx : Land(t)
           \/ \E p \in Proc : CallFails(p)
    PROVE  TypeOK'
<1> USE DEF TypeOK, ServiceTypeOK, dbVars, historyVars
<1>1. ASSUME Fault PROVE faults' \in 0..MaxFaults
  BY <1>1, Bounds, Counting DEF Fault
<1>2. ASSUME NEW key \in CustomerKey, CustomerFind(key) PROVE TypeOK'
  <2> DEFINE c == [customers[key] EXCEPT
                      !.finding = @ - 1,
                      !.creating = IF customers[key].rows = 0 THEN @ + 1 ELSE @]
  <2>1. c \in Counts
    <3>1. customers[key] \in Counts /\ customers[key].finding > 0
      BY <1>2 DEF CustomerFind, Counts
    <3>2. QED
      BY <3>1, JobFinds
  <2>2. customers' = [customers EXCEPT ![key] = c]
    BY <1>2 DEF CustomerFind
  <2>3. QED
    BY <1>2, <2>1, <2>2, CountsType DEF CustomerFind, Counts
<1>3. ASSUME NEW key \in CustomerKey, CustomerCreate(key) PROVE TypeOK'
  <2> DEFINE c == [customers[key] EXCEPT !.creating = @ - 1, !.rows = @ + 1]
  <2>1. c \in Counts
    <3>1. customers[key] \in Counts /\ customers[key].creating > 0
      BY <1>3 DEF CustomerCreate, Counts
    <3>2. QED
      BY <3>1, JobCreates
  <2>2. customers' = [customers EXCEPT ![key] = c]
    BY <1>3 DEF CustomerCreate
  <2>3. QED
    BY <1>3, <2>1, <2>2, CountsType DEF CustomerCreate, Counts
<1>4. ASSUME NEW key \in CustomerKey, CustomerFails(key) PROVE TypeOK'
  <2> DEFINE f == [customers[key] EXCEPT !.finding = @ - 1]
             c == [customers[key] EXCEPT !.creating = @ - 1]
  <2>a. customers[key] \in Counts
    BY DEF Counts
  <2>1. CASE customers[key].finding > 0 /\ customers' = [customers EXCEPT ![key] = f]
    <3>1. f \in Counts
      BY <2>a, <2>1, JobFinds
    <3>2. QED
      BY <1>1, <1>4, <2>1, <3>1, CountsType DEF CustomerFails, Counts
  <2>2. CASE customers[key].creating > 0 /\ customers' = [customers EXCEPT ![key] = c]
    <3>1. c \in Counts
      BY <2>a, <2>2, JobCreates
    <3>2. QED
      BY <1>1, <1>4, <2>2, <3>1, CountsType DEF CustomerFails, Counts
  <2>3. QED
    BY <1>4, <2>1, <2>2 DEF CustomerFails
<1>5. ASSUME NEW i \in Id, Lapse(i) PROVE TypeOK'
  BY <1>5 DEF Lapse
<1>6. ASSUME NEW t \in Tx, Land(t) PROVE TypeOK'
  BY <1>6 DEF Land
<1>7. ASSUME NEW p \in Proc, CallFails(p) PROVE TypeOK'
  <2>1. task' \in [Proc -> Task]
    BY <1>7, IdleTask, GotoType DEF CallFails
  <2>2. QED
    BY <1>1, <1>7, <2>1 DEF CallFails
<1>8. QED
  BY <1>2, <1>3, <1>4, <1>5, <1>6, <1>7 DEF CustomerJob

LEMMA ObserverType ==
    ASSUME TypeOK, NEW o \in Observers, ObserverStep(o) \/ QueryFails(o) \/ RowFails(o)
    PROVE  TypeOK'
<1> USE DEF TypeOK, ServiceTypeOK, serviceVars, dbVars, historyVars
<1> DEFINE Cycles == [Observers -> [phase : Phase, todo : SUBSET Snapshot]]
<1>1. ASSUME NEW phase \in Phase, NEW todo \in SUBSET Snapshot, EnterPhase(o, phase, todo)
      PROVE  cycle' \in Cycles
  BY <1>1 DEF EnterPhase
<1>2. ASSUME NEW item, Taken(o, item) PROVE cycle' \in Cycles
  BY <1>2 DEF Taken
<1>3. ASSUME NEW ids \in SUBSET Stored PROVE Snapshots(ids) \in SUBSET Snapshot
  BY <1>3 DEF Snapshots, Snapshot, Stored
<1>4. ASSUME Fault PROVE faults' \in 0..MaxFaults
  BY <1>4, Bounds, Counting DEF Fault
<1>5. o \in Proc
  BY DEF Proc
<1>6. CASE Tick(o)
  BY <1>1, <1>6 DEF Tick, Phase
<1>7. CASE QueryExpired(o)
  <2>1. PICK ids \in Some({i \in Id : IsExpirable(i)}) : EnterPhase(o, "expiring", Snapshots(ids))
    BY <1>7 DEF QueryExpired
  <2>2. ids \in SUBSET Stored
    BY <2>1 DEF Some, IsExpirable
  <2>3. cycle' \in Cycles
    BY <1>1, <1>3, <2>1, <2>2 DEF Phase
  <2>4. QED
    BY <1>7, <2>3 DEF QueryExpired
<1>8. CASE ExpireNext(o)
  <2>1. PICK item \in cycle[o].todo :
           /\ IF item.id \in Stored
              THEN /\ WriteRow(item.id, [intents[item.id] EXCEPT !.status = "EXPIRED"])
                   /\ Goto(o, Emitting("UPDATED", item.seen.owner, item.id,
                                       [intents[item.id] EXCEPT !.status = "EXPIRED"]))
              ELSE UNCHANGED <<intents, task>>
           /\ Taken(o, item)
    BY <1>8 DEF ExpireNext
  <2> DEFINE row == [intents[item.id] EXCEPT !.status = "EXPIRED"]
  <2>2. item.id \in Id /\ item.seen.owner \in Username
    BY <2>1 DEF Snapshot, Row
  <2>3. CASE item.id \in Stored
    <3>1. row \in Row
      BY <2>2, <2>3, ExpiredRow DEF Stored
    <3>2. Emitting("UPDATED", item.seen.owner, item.id, row) \in Task
      BY <2>2, <3>1, EmittingType DEF EventType
    <3>3. WriteRow(item.id, row) /\ Goto(o, Emitting("UPDATED", item.seen.owner, item.id, row))
      BY <2>1, <2>3
    <3>4. intents' \in [Id -> Row \cup {NULL}] /\ task' \in [Proc -> Task]
      <4> HIDE DEF row
      <4>1. QED
        BY <1>5, <2>2, <3>1, <3>2, <3>3, WriteRowType, GotoType
    <3>5. QED
      BY <1>2, <1>8, <2>1, <3>4 DEF ExpireNext
  <2>4. CASE item.id \notin Stored
    BY <1>2, <1>8, <2>1, <2>4 DEF ExpireNext
  <2>5. QED
    BY <2>3, <2>4
<1>9. CASE QueryPending(o)
  <2>1. Oldest({i \in Id : IsPending(i)}) \in SUBSET Stored
    BY DEF Oldest, IsPending
  <2>2. cycle' \in Cycles
    BY <1>1, <1>3, <1>9, <2>1 DEF QueryPending, Phase
  <2>3. QED
    BY <1>9, <2>2 DEF QueryPending
<1>10. CASE ReconcileNext(o)
  <2>1. PICK item \in cycle[o].todo :
           /\ Taken(o, item)
           /\ \/ UNCHANGED task
              \/ \E m \in Matches(item.seen) :
                    Goto(o, Marking(item.seen.owner, item.id, m.hash, m.payer))
    BY <1>10 DEF ReconcileNext
  <2>2. item.id \in Id /\ item.seen \in Row /\ item.seen.owner \in Username
    BY <2>1 DEF Snapshot, Row
  <2>3. ASSUME NEW m \in Matches(item.seen)
        PROVE  Marking(item.seen.owner, item.id, m.hash, m.payer) \in Task
    BY <2>2, MatchType, MarkingType
  <2>4. task' \in [Proc -> Task]
    BY <1>5, <2>1, <2>3, GotoType
  <2>5. QED
    BY <1>2, <1>10, <2>1, <2>4 DEF ReconcileNext
<1>11. CASE EndCycle(o)
  BY <1>1, <1>11 DEF EndCycle, Phase
<1>12. CASE QueryFails(o)
  <2>1. cycle' \in Cycles
    BY <1>12 DEF QueryFails, AfterFailure, Off, Phase
  <2>2. QED
    BY <1>4, <1>12, <2>1 DEF QueryFails
<1>13. CASE RowFails(o)
  BY <1>2, <1>4, <1>13 DEF RowFails
<1>14. QED
  BY <1>6, <1>7, <1>8, <1>9, <1>10, <1>11, <1>12, <1>13 DEF ObserverStep

LEMMA CrashType == TypeOK /\ Crash => TypeOK'
<1> SUFFICES ASSUME TypeOK, Crash PROVE TypeOK'
  OBVIOUS
<1> USE DEF TypeOK, ServiceTypeOK, dbVars, historyVars
<1>1. faults' \in 0..MaxFaults
  BY Bounds, Counting DEF Crash, Fault
<1>2. task' \in [Proc -> Task]
  BY IdleTask DEF Crash
<1>3. customers' \in [CustomerKey -> [finding : Nat, creating : Nat, rows : Nat,
                                      removed : BOOLEAN]]
  BY DEF Crash
<1>4. cycle' \in [Observers -> [phase : Phase, todo : SUBSET Snapshot]]
  BY DEF Crash, Off, Phase
<1>5. QED
  BY <1>1, <1>2, <1>3, <1>4 DEF Crash

LEMMA TypeStep == TypeOK /\ [Next]_vars => TypeOK'
<1> SUFFICES ASSUME TypeOK, [Next]_vars PROVE TypeOK'
  OBVIOUS
<1>1. CASE ServiceNext /\ UNCHANGED cycle
  BY <1>1, RequestType, CustomerRouteType, HandlerType, EnvironmentType DEF ServiceNext
<1>2. CASE \E o \in Observers : ObserverStep(o) \/ QueryFails(o) \/ RowFails(o)
  BY <1>2, ObserverType
<1>3. CASE Crash
  BY <1>3, CrashType
<1>4. CASE UNCHANGED vars
  BY <1>4 DEF vars, serviceVars, TypeOK, ServiceTypeOK
<1>5. QED
  BY <1>1, <1>2, <1>3, <1>4 DEF Next, Step

\* Every variable keeps the shape of the data it stands for, whatever the
\* handlers, the observers, the failures and the network do.
THEOREM TypeCorrect == Spec => []TypeOK
  BY InitType, TypeStep, PTL DEF Spec
=============================================================================
