---------------------------- MODULE LifecycleProofs ----------------------------
(***************************************************************************)
(* Proof of what SettlementInv leaves open about an intent's life: memos   *)
(* stay unique, answers and events go to the owner, the recorded payer did *)
(* pay, and nothing expires early.  The argument is that of                *)
(* SettlementProofs: a handler's reading stays true while rows keep what   *)
(* was asked for, ids count up, and what has landed or lapsed stays so.    *)
(***************************************************************************)
EXTENDS RefinementProofs

\* A source, once it is known, is never forgotten.
SourcesKept ==
    \A i \in Id :
        i <= issued /\ intents'[i] # NULL /\ intents[i].source # NULL => intents'[i].source # NULL

RowsTrue == MemosUnique /\ SourcesPaid /\ SettledHasSource /\ ExpiredOnTime

TaskTrue(t) == ActsForOwner(t) /\ KnowsPayer(t)

\* What a step has to show of the tasks, answers and events that are new.
TasksHold == \A q \in Proc : task'[q] = task[q] \/ TaskTrue(task[q])'

AnswersHold == \A a \in answers' : a \in answers \/ Names(a.user, a.memo, a.id)'

EventsHold == \A e \in events' : e \in events \/ e.user = e.owner

LifeStep == RowsTrue' /\ SourcesKept /\ TasksHold /\ AnswersHold /\ EventsHold

TimeKept == issued <= issued' /\ overdue \subseteq overdue' /\ LedgerKept

-----------------------------------------------------------------------------
(***************************************************************************)
(* What stays true while others act.                                       *)
(***************************************************************************)
LEMMA NamesStay ==
    ASSUME TypeOK, TypeOK', RowsKept, NEW user, NEW memo, NEW i \in Id, Names(user, memo, i)
    PROVE  Names(user, memo, i)'
<1>1. issued \in Nat /\ issued' \in Nat /\ i \in Nat
  BY Bounds DEF TypeOK, ServiceTypeOK, Id
<1>2. i <= issued'
  BY <1>1 DEF RowsKept, Names
<1>3. QED
  BY <1>2 DEF Names, RowsKept, SameRequest, Stored

LEMMA ActsStays ==
    ASSUME TypeOK, TypeOK', RowsKept, NEW t \in Task, ActsForOwner(t)
    PROVE  ActsForOwner(t)'
<1>1. issued \in Nat /\ issued' \in Nat /\ Id \subseteq Nat /\ issued <= issued'
  BY Bounds DEF TypeOK, ServiceTypeOK, Id, RowsKept
<1>2. CASE t.step \in {"patch", "removeStatus", "delete", "verify", "markRead", "markWrite", "markFailed"}
  <2>1. t.id \in Id
    BY <1>2, PatchTask, RemoveTask, VerifyTask, MarkTask, FailTask
  <2>2. t.id \in Nat /\ t.id <= issued
    BY <1>1, <1>2, <2>1 DEF ActsForOwner
  <2>3. t.id <= issued'
    BY <1>1, <2>2, LeqTransitive
  <2>4. intents'[t.id] # NULL => intents'[t.id].owner = t.user
    BY <1>2, <2>1, <2>2 DEF ActsForOwner, RowsKept, SameRequest, Stored
  <2>5. QED
    BY <1>2, <2>3, <2>4 DEF ActsForOwner, Stored
<1>3. CASE t.step = "emit"
  <2>1. t.event.id \in Id
    BY <1>3, EmitTask DEF Event
  <2>2. Names(t.event.user, t.event.memo, t.event.id)'
    BY <1>3, <2>1, NamesStay DEF ActsForOwner
  <2>3. QED
    BY <1>3, <2>2 DEF ActsForOwner
<1>4. CASE t.step \notin {"patch", "removeStatus", "delete", "verify", "markRead", "markWrite",
                          "markFailed", "emit"}
  BY <1>4 DEF ActsForOwner
<1>5. QED
  BY <1>2, <1>3, <1>4

LEMMA KnowsStays ==
    ASSUME TypeOK, TypeOK', RowsKept, SourcesKept, NEW t \in Task, TaskOK(t), KnowsPayer(t)
    PROVE  KnowsPayer(t)'
<1>1. CASE t.step = "markWrite"
  <2>1. t.id \in Id /\ t.id <= issued
    BY <1>1, MarkTask DEF TaskOK
  <2>2. t.source = NULL /\ intents'[t.id] # NULL => intents'[t.id].source # NULL
    BY <1>1, <2>1 DEF KnowsPayer, RowsKept, SourcesKept, Stored
  <2>3. QED
    BY <1>1, <2>2 DEF KnowsPayer, Stored
<1>2. CASE t.step # "markWrite"
  BY <1>2 DEF KnowsPayer
<1>3. QED
  BY <1>1, <1>2

\* What a step shows of the new is all that is left to show.
LEMMA LifecycleStays ==
    ASSUME TypeOK, TypeOK', SettlementInv, LifecycleInv, RowsKept, LifeStep, DueItems'
    PROVE  LifecycleInv'
<1>1. ASSUME NEW q \in Proc PROVE TaskTrue(task[q])'
  <2>1. CASE task'[q] = task[q]
    <3>1. task[q] \in Task /\ TaskOK(task[q]) /\ TaskTrue(task[q])
      BY DEF TypeOK, ServiceTypeOK, SettlementInv, BeliefsHold, LifecycleInv, TaskTrue
    <3>2. \A t \in Task : TaskOK(t) /\ TaskTrue(t) => TaskTrue(t)'
      BY ActsStays, KnowsStays DEF TaskTrue, LifeStep
    <3> DEFINE t == task[q]
    <3>3. QED
      BY <2>1, <3>1, <3>2 DEF TaskTrue, ActsForOwner, KnowsPayer, Names
  <2>2. QED
    BY <2>1 DEF LifeStep, TasksHold
<1>2. ASSUME NEW a \in answers' PROVE Names(a.user, a.memo, a.id)'
  <2>1. CASE a \in answers
    <3>1. a.id \in Id /\ Names(a.user, a.memo, a.id)
      BY <2>1 DEF TypeOK, ServiceTypeOK, LifecycleInv
    <3>2. QED
      BY <3>1, NamesStay
  <2>2. QED
    BY <2>1 DEF LifeStep, AnswersHold
<1>3. OwnerScoped'
  BY DEF LifeStep, EventsHold, LifecycleInv, OwnerScoped
<1>4. QED
  BY <1>1, <1>2, <1>3 DEF LifecycleInv, LifeStep, RowsTrue, TaskTrue

-----------------------------------------------------------------------------
(***************************************************************************)
(* Steps that leave payment_intent alone, and steps that rewrite a row.    *)
(***************************************************************************)
LEMMA RowsStay ==
    ASSUME LifecycleInv, TimeKept, UNCHANGED <<intents, issued, patched>>
    PROVE  RowsTrue' /\ SourcesKept
<1>1. MemosUnique' /\ SettledHasSource' /\ SourcesKept
  BY DEF LifecycleInv, MemosUnique, SettledHasSource, SourcesKept, Stored
<1>2. SourcesPaid'
  BY DEF LifecycleInv, SourcesPaid, Stored, TimeKept, LedgerKept
<1>3. ExpiredOnTime'
  BY DEF LifecycleInv, ExpiredOnTime, Stored, TimeKept
<1>4. QED
  BY <1>1, <1>2, <1>3 DEF RowsTrue

\* What must hold of a row that is written over row i.
Justified(i, row) ==
    /\ SameRequest(intents[i], row)
    /\ intents[i].source # NULL => row.source # NULL
    /\ row.kind = "PAY" /\ row.source # NULL =>
          \/ row.source = intents[i].source
          \/ \E t \in Landed(ledger) : Fulfils(t, row) /\ PaidFrom(t, row.source)

LEMMA RowWritten ==
    ASSUME TypeOK, LifecycleInv, UNCHANGED <<issued, ledger, overdue>>,
           NEW i \in Stored, NEW row \in Row, WriteRow(i, row), Justified(i, row),
           patched \ {i} \subseteq patched',
           i \in patched' \/ /\ row.status = "SUCCEEDED" => row.source # NULL
                             /\ row.status = "EXPIRED" => i \in overdue
    PROVE  RowsTrue' /\ SourcesKept
<1>1. /\ i \in Id /\ row # NULL /\ intents'[i] = row
      /\ \A j \in Id : j # i => intents'[j] = intents[j]
      /\ Stored' = Stored
  BY RowNotNull DEF TypeOK, ServiceTypeOK, WriteRow, Stored
<1>2. MemosUnique'
  BY <1>1 DEF LifecycleInv, MemosUnique, Justified, SameRequest, Stored
<1>3. SettledHasSource'
  BY <1>1 DEF LifecycleInv, SettledHasSource, Stored
<1>4. ExpiredOnTime'
  BY <1>1 DEF LifecycleInv, ExpiredOnTime, Stored
<1>5. SourcesKept
  BY <1>1 DEF SourcesKept, Justified
<1>6. ASSUME NEW j \in Stored', intents'[j].kind = "PAY", intents'[j].source # NULL
      PROVE  \E t \in Landed(ledger) : Fulfils(t, intents'[j]) /\ PaidFrom(t, intents'[j].source)
  <2>1. CASE j # i
    BY <1>1, <1>6, <2>1 DEF LifecycleInv, SourcesPaid, Stored
  <2>2. CASE j = i /\ row.source # intents[i].source
    BY <1>1, <1>6, <2>2 DEF Justified
  <2>3. CASE j = i /\ row.source = intents[i].source
    <3>1. SameRequest(intents[i], row) /\ intents[i].kind = "PAY" /\ intents[i].source # NULL
      BY <1>1, <1>6, <2>3 DEF Justified, SameRequest
    <3>2. PICK t \in Landed(ledger) : Fulfils(t, intents[i]) /\ PaidFrom(t, intents[i].source)
      BY <3>1 DEF LifecycleInv, SourcesPaid
    <3>3. Fulfils(t, row)
      BY <3>1, <3>2, FulfilsRequest
    <3>4. QED
      BY <1>1, <2>3, <3>2, <3>3
  <2>4. QED
    BY <2>1, <2>2, <2>3
<1>7. SourcesPaid'
  BY <1>6 DEF SourcesPaid
<1>8. QED
  BY <1>2, <1>3, <1>4, <1>5, <1>7 DEF RowsTrue

-----------------------------------------------------------------------------
(***************************************************************************)
(* Tasks, answers and events of a step.                                    *)
(***************************************************************************)
LEMMA OneTaskHolds ==
    ASSUME task \in [Proc -> Task], NEW p \in Proc, NEW t, Goto(p, t), TaskTrue(task[p])'
    PROVE  TasksHold
BY DEF Goto, TasksHold

LEMMA IdleHolds ==
    ASSUME task \in [Proc -> Task], NEW p \in Proc, Goto(p, Idle)
    PROVE  TasksHold
<1>1. TaskTrue(task[p])'
  BY DEF Goto, Idle, TaskTrue, ActsForOwner, KnowsPayer
<1>2. QED
  BY <1>1, OneTaskHolds

\* A handler for an intent of its user that knows no payer yet.
LEMMA ActingHolds ==
    ASSUME task \in [Proc -> Task], NEW p \in Proc, NEW t, Goto(p, t),
           t.step \in {"patch", "removeStatus", "delete", "verify", "markFailed"},
           t.id <= issued', t.id \in Stored' => intents'[t.id].owner = t.user
    PROVE  TasksHold
<1>1. task'[p] = t
  BY DEF Goto
<1>2. TaskTrue(task[p])'
  BY <1>1 DEF TaskTrue, ActsForOwner, KnowsPayer
<1>3. QED
  BY <1>2, OneTaskHolds

LEMMA DraftHolds ==
    ASSUME task \in [Proc -> Task], NEW p \in Proc, NEW t, Goto(p, t),
           t.step \in {"findByMemo", "loadAccount", "insert", "refind"},
           t.draft.kind = "PAY" => t.draft.source = NULL
    PROVE  TasksHold
<1>1. task'[p] = t
  BY DEF Goto
<1>2. TaskTrue(task[p])'
  BY <1>1 DEF TaskTrue, ActsForOwner, KnowsPayer
<1>3. QED
  BY <1>2, OneTaskHolds

\* What the event of a write says of row i.
IsAbout(e, user, i, row) ==
    e.user = user /\ e.owner = row.owner /\ e.memo = row.memo /\ e.id = i

LEMMA EmitHolds ==
    ASSUME task \in [Proc -> Task], NEW p \in Proc, NEW t, Goto(p, t),
           NEW i, NEW row,
           t.step = "emit", IsAbout(t.event, row.owner, i, row),
           i <= issued',
           i \in Stored' => intents'[i].owner = row.owner /\ intents'[i].memo = row.memo
    PROVE  TasksHold
<1>1. task'[p] = t
  BY DEF Goto
<1>2. /\ t.event.user = row.owner /\ t.event.owner = row.owner
      /\ t.event.memo = row.memo /\ t.event.id = i
  BY DEF IsAbout
<1>3. TaskTrue(task[p])'
  BY <1>1, <1>2 DEF TaskTrue, ActsForOwner, KnowsPayer, Names
<1>4. QED
  BY <1>3, OneTaskHolds

LEMMA SameTasksHold == ASSUME UNCHANGED task PROVE TasksHold
BY DEF TasksHold

\* A step that writes no row, answers nothing and emits nothing.
LEMMA QuietLife ==
    ASSUME LifecycleInv, TimeKept, TasksHold,
           UNCHANGED <<intents, issued, patched, answers, events>>
    PROVE  LifeStep
BY RowsStay DEF LifeStep, AnswersHold, EventsHold

-----------------------------------------------------------------------------
(***************************************************************************)
(* The requests.                                                           *)
(***************************************************************************)
LEMMA DraftOfPay ==
    ASSUME NEW c \in Caller, NEW order \in Order, NEW draft \in Drafts(c, order)
    PROVE  draft.kind = "PAY" => draft.source = NULL
<1>1. draft.kind = order.kind /\ draft.source = order.source
  BY DEF Drafts
<1>2. order.kind = "PAY" => order.source = NULL
  BY ServiceAssumption
<1>3. QED
  BY <1>1, <1>2

LEMMA RequestLife ==
    ASSUME TypeOK, SettlementInv, LifecycleInv, TimeKept, NEW p \in Requests, NEW c \in Caller,
           \/ \E order \in Order : Create(p, c, order)
           \/ \E i \in Id :
                 \/ \E patch \in Patch : Update(p, c, i, patch)
                 \/ Remove(p, c, i)
                 \/ \E hash \in Hash \ {""} : Validate(p, c, i, hash)
           \/ \E account \in Listed : CustomerRoute(p, c, account)
    PROVE  LifeStep
<1>1. /\ p \in Proc /\ task \in [Proc -> Task]
      /\ UNCHANGED <<intents, issued, patched, answers, events>>
  BY DEF Proc, TypeOK, ServiceTypeOK, Create, Update, Remove, Validate, CustomerRoute, AddCustomer,
         DropCustomer, EditCustomer, dbVars, historyVars
<1>2. SUFFICES TasksHold
  BY <1>1, QuietLife
<1>a. ASSUME NEW i \in Id, Owned(c, i)
      PROVE  i <= issued' /\ (i \in Stored' => intents'[i].owner = c.username)
  BY <1>1, <1>a DEF Owned, SettlementInv, IdsCountUp, Stored
<1>3. ASSUME NEW order \in Order, Create(p, c, order) PROVE TasksHold
  <2>1. CASE Acceptable(order)
    <3>1. PICK draft \in Drafts(c, order) : Goto(p, [step |-> "findByMemo", draft |-> draft])
      BY <1>3, <2>1 DEF Create
    <3>2. QED
      BY <1>1, <3>1, DraftOfPay, DraftHolds
  <2>2. QED
    BY <1>3, <2>1, SameTasksHold DEF Create
<1>4. ASSUME NEW i \in Id, NEW patch \in Patch, Update(p, c, i, patch) PROVE TasksHold
  BY <1>1, <1>a, <1>4, ActingHolds DEF Update
<1>5. ASSUME NEW i \in Id, Remove(p, c, i) PROVE TasksHold
  BY <1>1, <1>a, <1>5, ActingHolds DEF Remove
<1>6. ASSUME NEW i \in Id, NEW hash \in Hash, Validate(p, c, i, hash) PROVE TasksHold
  BY <1>1, <1>a, <1>6, ActingHolds, IdleHolds DEF Validate
<1>7. ASSUME NEW account \in Listed, CustomerRoute(p, c, account) PROVE TasksHold
  BY <1>7, SameTasksHold DEF CustomerRoute, AddCustomer, DropCustomer, EditCustomer
<1>8. QED
  BY <1>3, <1>4, <1>5, <1>6, <1>7

-----------------------------------------------------------------------------
(***************************************************************************)
(* The handlers' steps that write no intent.                               *)
(***************************************************************************)
\* A request is answered with an intent of its user that has its memo.
LEMMA FoundIsNamed ==
    ASSUME SettlementInv, UNCHANGED <<intents, issued>>, NEW draft,
           NEW i \in FindByMemo(draft.owner, draft.memo)
    PROVE  i <= issued' /\ intents'[i].owner = draft.owner /\ intents'[i].memo = draft.memo
BY DEF FindByMemo, SettlementInv, IdsCountUp

LEMMA AnswerHolds ==
    ASSUME SettlementInv, UNCHANGED <<intents, issued>>, NEW p,
           \/ UNCHANGED answers
           \/ \E i \in FindByMemo(task[p].draft.owner, task[p].draft.memo) : Answer(task[p].draft, i)
    PROVE  AnswersHold
<1>1. CASE UNCHANGED answers
  BY <1>1 DEF AnswersHold
<1>2. ASSUME NEW i \in FindByMemo(task[p].draft.owner, task[p].draft.memo), Answer(task[p].draft, i)
      PROVE  AnswersHold
  <2> DEFINE a == [user |-> task[p].draft.owner, memo |-> task[p].draft.memo, id |-> i]
  <2>1. answers' = answers \cup {a}
    BY <1>2 DEF Answer
  <2>2. i <= issued' /\ intents'[i].owner = a.user /\ intents'[i].memo = a.memo /\ a.id = i
    BY FoundIsNamed
  <2> HIDE DEF a
  <2>3. \A x \in answers' : x \in answers \/ Names(x.user, x.memo, x.id)'
    BY <2>1, <2>2 DEF Names
  <2>4. QED
    BY <2>3 DEF AnswersHold
<1>3. QED
  BY <1>1, <1>2

LEMMA CreatingLife ==
    ASSUME TypeOK, SettlementInv, LifecycleInv, TimeKept, NEW p \in Proc,
           CheckMemo(p) \/ LoadAccount(p) \/ Refind(p)
    PROVE  LifeStep
<1> DEFINE draft == task[p].draft
<1>1. /\ task \in [Proc -> Task] /\ TaskTrue(task[p])
      /\ UNCHANGED <<intents, issued, patched, events>>
  BY DEF TypeOK, ServiceTypeOK, LifecycleInv, TaskTrue, CheckMemo, LoadAccount, Refind, dbVars, historyVars
<1>2. draft.kind = "PAY" => draft.source = NULL
  BY <1>1 DEF TaskTrue, KnowsPayer, CheckMemo, LoadAccount, Refind
<1>3. AnswersHold
  BY <1>1, AnswerHolds DEF CheckMemo, LoadAccount, Refind, historyVars
<1>4. TasksHold
  <2> DEFINE next == [step |-> IF draft.kind = "TX" THEN "loadAccount" ELSE "insert", draft |-> draft]
             last == [step |-> "insert", draft |-> draft]
  <2>1. Goto(p, Idle) \/ Goto(p, next) \/ Goto(p, last)
    BY DEF CheckMemo, LoadAccount, Refind
  <2>2. /\ next.step \in {"loadAccount", "insert"} /\ next.draft = draft
        /\ last.step = "insert" /\ last.draft = draft
    OBVIOUS
  <2> HIDE DEF next, last
  <2>3. QED
    BY <1>1, <1>2, <2>1, <2>2, IdleHolds, DraftHolds
<1>5. QED
  BY <1>1, <1>3, <1>4, RowsStay DEF LifeStep, EventsHold

\* The payer that verifyByHash or a scan reports did send one of the payments.
LEMMA PayerPaid ==
    ASSUME NEW row, NEW t, NEW payer \in PayersByHash(row, t)
    PROVE  PaidFrom(t, payer)
BY DEF PayersByHash, MatchingOps, FirstPage, PaidFrom

LEMMA MatchPaid ==
    ASSUME NEW row, NEW m \in Matches(row)
    PROVE  PaidFrom(m.hash, m.payer)
<1>1. CASE m \in MatchesByHash(row)
  BY <1>1, PayerPaid DEF MatchesByHash
<1>2. CASE m \in MatchesByScan(row)
  <2>1. PICK pos \in NewestHit(row, ledger) : m = [hash |-> ledger[pos[1]], payer |-> OpAt(pos, ledger).from]
    BY <1>2 DEF MatchesByScan
  <2>2. pos[2] \in DOMAIN TxRecord[ledger[pos[1]]].ops
    BY DEF NewestHit, ScanHits, ScannedOps, AccountOps
  <2>3. QED
    BY <2>1, <2>2 DEF OpAt, PaidFrom
<1>3. QED
  BY <1>1, <1>2 DEF Matches

LEMMA MarkingHolds ==
    ASSUME task \in [Proc -> Task], NEW p \in Proc, NEW user, NEW i, NEW hash, NEW payer,
           Goto(p, Marking(user, i, hash, payer)), PaidFrom(hash, payer),
           i <= issued', i \in Stored' => intents'[i].owner = user
    PROVE  TasksHold
<1>1. task'[p] = Marking(user, i, hash, payer)
  BY DEF Goto
<1>2. TaskTrue(task[p])'
  BY <1>1 DEF Marking, TaskTrue, ActsForOwner, KnowsPayer
<1>3. QED
  BY <1>2, OneTaskHolds

LEMMA VerifyingLife ==
    ASSUME TypeOK, SettlementInv, LifecycleInv, TimeKept, NEW p \in Proc,
           RemoveStatus(p) \/ Verify(p) \/ MarkRead(p)
    PROVE  LifeStep
<1> DEFINE t == task[p]
<1>1. /\ task \in [Proc -> Task] /\ TaskTrue(t)
      /\ UNCHANGED <<intents, issued, patched, events, answers>>
  BY DEF TypeOK, ServiceTypeOK, LifecycleInv, TaskTrue, RemoveStatus, Verify, MarkRead, dbVars, historyVars
<1>2. t.id <= issued' /\ (t.id \in Stored' => intents'[t.id].owner = t.user)
  BY <1>1 DEF TaskTrue, ActsForOwner, RemoveStatus, Verify, MarkRead, Stored
<1>3. SUFFICES TasksHold
  BY <1>1, QuietLife
<1>4. CASE RemoveStatus(p)
  <2> DEFINE next == [step |-> "delete", user |-> t.user, id |-> t.id]
  <2>1. Goto(p, Idle) \/ Goto(p, next)
    BY <1>4 DEF RemoveStatus
  <2>2. next.step = "delete" /\ next.id = t.id /\ next.user = t.user
    OBVIOUS
  <2> HIDE DEF next, t
  <2>3. QED
    BY <1>1, <1>2, <2>1, <2>2, IdleHolds, ActingHolds
<1>5. CASE Verify(p)
  <2> DEFINE failed == [step |-> "markFailed", user |-> t.user, id |-> t.id, hash |-> t.hash]
  <2>1. \/ Goto(p, Idle) \/ Goto(p, failed)
        \/ \E payer \in PayersByHash(t.seen, t.hash) : Goto(p, Marking(t.user, t.id, t.hash, payer))
    BY <1>5 DEF Verify
  <2>2. failed.step = "markFailed" /\ failed.id = t.id /\ failed.user = t.user
    OBVIOUS
  <2> HIDE DEF failed, t
  <2>3. QED
    BY <1>1, <1>2, <2>1, <2>2, IdleHolds, ActingHolds, PayerPaid, MarkingHolds
<1>6. CASE MarkRead(p)
  <2> DEFINE s == SourceToSet(t.id, t.payer)
  <2>1. Goto(p, [step |-> "markWrite", user |-> t.user, id |-> t.id, hash |-> t.hash,
                 payer |-> t.payer, source |-> s])
    BY <1>6 DEF MarkRead
  <2>2. PaidFrom(t.hash, t.payer) /\ t.payer \in Account
    BY <1>1, <1>6, MarkTask DEF MarkRead, TaskTrue, KnowsPayer
  <2>3. IF s # NULL THEN PaidFrom(t.hash, s) ELSE t.id \in Stored' => intents'[t.id].source # NULL
    BY <1>1, <2>2, ServiceAssumption DEF SourceToSet, Stored
  <2>4. /\ task'[p].step = "markWrite" /\ task'[p].id = t.id /\ task'[p].hash = t.hash
        /\ task'[p].source = s /\ task'[p].user = t.user
    BY <1>1, <2>1 DEF Goto
  <2> HIDE DEF s, t
  <2>5. TaskTrue(task[p])'
    BY <1>2, <2>3, <2>4 DEF TaskTrue, ActsForOwner, KnowsPayer
  <2>6. QED
    BY <1>1, <2>1, <2>5, OneTaskHolds
<1>7. QED
  BY <1>4, <1>5, <1>6

LEMMA EmitLife ==
    ASSUME TypeOK, LifecycleInv, TimeKept, NEW p \in Proc, Emit(p)
    PROVE  LifeStep
<1> DEFINE e == task[p].event
<1>1. /\ task \in [Proc -> Task] /\ Goto(p, Idle) /\ UNCHANGED <<intents, issued, patched>>
      /\ events' = events \cup {e}
      /\ \/ UNCHANGED answers
         \/ answers' = answers \cup {[user |-> e.user, memo |-> e.memo, id |-> e.id]}
  BY DEF TypeOK, ServiceTypeOK, Emit, dbVars
<1>2. e.user = e.owner /\ Names(e.user, e.memo, e.id)
  BY DEF Emit, LifecycleInv, ActsForOwner
<1> HIDE DEF e
<1>3. AnswersHold
  BY <1>1, <1>2 DEF AnswersHold, Names, Stored
<1>4. EventsHold
  BY <1>1, <1>2 DEF EventsHold
<1>5. QED
  BY <1>1, <1>3, <1>4, IdleHolds, RowsStay DEF LifeStep

-----------------------------------------------------------------------------
(***************************************************************************)
(* The handlers' steps that write one.                                     *)
(***************************************************************************)
LEMMA InsertLife ==
    ASSUME TypeOK, SettlementInv, LifecycleInv, TimeKept, NEW p \in Proc, Insert(p)
    PROVE  LifeStep
<1> DEFINE draft == task[p].draft
           n     == issued + 1
<1>1. /\ task \in [Proc -> Task] /\ TaskTrue(task[p]) /\ TaskOK(task[p]) /\ draft \in Row
      /\ UNCHANGED <<overdue, ledger, patched, answers, events>>
  BY CreateTask DEF TypeOK, ServiceTypeOK, LifecycleInv, TaskTrue, SettlementInv, BeliefsHold, Insert, historyVars
<1>2. /\ draft.status = "PENDING" /\ draft # NULL
      /\ draft.kind = "PAY" => draft.source = NULL
  BY <1>1, RowNotNull DEF Insert, TaskTrue, KnowsPayer, TaskOK
<1>3. CASE MemoTaken(draft)
  <2> DEFINE next == [step |-> "refind", draft |-> draft]
  <2>1. Goto(p, next) /\ UNCHANGED <<intents, issued>>
    BY <1>3 DEF Insert
  <2>2. next.step = "refind" /\ next.draft = draft
    OBVIOUS
  <2> HIDE DEF next
  <2>3. QED
    BY <1>1, <1>2, <2>1, <2>2, DraftHolds, QuietLife
<1>4. CASE ~MemoTaken(draft)
  <2>1. issued' = n /\ WriteRow(n, draft) /\ issued < MaxIntents
        /\ Goto(p, Emitting("CREATED", draft.owner, n, draft))
    BY <1>4 DEF Insert
  <2>2. /\ n \in Id /\ n \notin Stored /\ \A i \in Id : i <= issued => i # n
        /\ n <= issued'
    BY <2>1, Bounds DEF TypeOK, ServiceTypeOK, Id, SettlementInv, IdsCountUp
  <2>3. /\ Stored' = Stored \cup {n} /\ intents'[n] = draft
        /\ \A j \in Id : j # n => intents'[j] = intents[j]
    BY <1>2, <2>1, <2>2 DEF WriteRow, Stored, TypeOK, ServiceTypeOK
  <2>4. MemosUnique'
    BY <1>4, <2>2, <2>3 DEF MemoTaken, FindByMemo, LifecycleInv, MemosUnique, Stored
  <2>5. SourcesPaid'
    BY <1>1, <1>2, <2>2, <2>3 DEF LifecycleInv, SourcesPaid, Stored
  <2>6. SettledHasSource' /\ ExpiredOnTime'
    BY <1>1, <1>2, <2>2, <2>3 DEF LifecycleInv, SettledHasSource, ExpiredOnTime, Stored
  <2>7. SourcesKept
    BY <2>2, <2>3 DEF SourcesKept
  <2> DEFINE t == Emitting("CREATED", draft.owner, n, draft)
  <2>8. t.step = "emit" /\ IsAbout(t.event, draft.owner, n, draft)
    BY DEF Emitting, EventFor, IsAbout
  <2>9. intents'[n].owner = draft.owner /\ intents'[n].memo = draft.memo
    BY <2>3
  <2> HIDE DEF t, draft, n
  <2>10. TasksHold
    BY <1>1, <2>1, <2>2, <2>8, <2>9, EmitHolds DEF t
  <2>11. QED
    BY <1>1, <2>4, <2>5, <2>6, <2>7, <2>10 DEF LifeStep, RowsTrue, AnswersHold, EventsHold
<1>5. QED
  BY <1>3, <1>4

LEMMA DeleteLife ==
    ASSUME TypeOK, LifecycleInv, TimeKept, NEW p \in Proc, Delete(p)
    PROVE  LifeStep
<1> DEFINE i   == task[p].id
           old == intents[i]
<1>1. /\ task \in [Proc -> Task] /\ ActsForOwner(task[p])
      /\ UNCHANGED <<issued, overdue, ledger, patched, answers, events>>
  BY DEF TypeOK, ServiceTypeOK, LifecycleInv, Delete, historyVars
<1>2. CASE i \in Stored
  <2>1. WriteRow(i, NULL) /\ Goto(p, Emitting("DELETED", task[p].user, i, old))
    BY <1>2 DEF Delete
  <2>2. /\ Stored' = Stored \ {i} /\ \A j \in Stored' : intents'[j] = intents[j]
        /\ \A j \in Id : intents'[j] # NULL => intents'[j] = intents[j]
    BY <2>1 DEF WriteRow, Stored, TypeOK, ServiceTypeOK
  <2>3. task[p].user = old.owner /\ i <= issued'
    BY <1>1, <1>2 DEF ActsForOwner, Delete
  <2>4. RowsTrue' /\ SourcesKept
    BY <1>1, <2>2 DEF RowsTrue, SourcesKept, LifecycleInv, MemosUnique, SourcesPaid,
                      SettledHasSource, ExpiredOnTime
  <2> DEFINE t == Emitting("DELETED", old.owner, i, old)
  <2>5. t.step = "emit" /\ IsAbout(t.event, old.owner, i, old)
    BY DEF Emitting, EventFor, IsAbout
  <2>6. i \notin Stored' /\ Goto(p, t)
    BY <2>1, <2>2, <2>3
  <2> HIDE DEF t, old, i
  <2>7. TasksHold
    BY <1>1, <2>3, <2>5, <2>6, EmitHolds
  <2>8. QED
    BY <1>1, <2>4, <2>7 DEF LifeStep, AnswersHold, EventsHold
<1>3. CASE i \notin Stored
  BY <1>1, <1>3, IdleHolds, QuietLife DEF Delete
<1>4. QED
  BY <1>2, <1>3

\* A handler rewrites row i and goes on to tell the owner.
LEMMA WriteLife ==
    ASSUME TypeOK, SettlementInv, LifecycleInv,
           UNCHANGED <<issued, ledger, overdue, answers, events>>,
           NEW p \in Proc, NEW i \in Stored, NEW row \in Row, WriteRow(i, row), Justified(i, row),
           patched \ {i} \subseteq patched',
           i \in patched' \/ /\ row.status = "SUCCEEDED" => row.source # NULL
                             /\ row.status = "EXPIRED" => i \in overdue,
           NEW t, Goto(p, t), t.step = "emit",
           IsAbout(t.event, intents[i].owner, i, row)
    PROVE  LifeStep
<1>1. RowsTrue' /\ SourcesKept
  BY RowWritten
<1>2. /\ i \in Id /\ intents'[i] = row /\ i <= issued' /\ task \in [Proc -> Task]
      /\ row.owner = intents[i].owner
  BY DEF TypeOK, ServiceTypeOK, WriteRow, Stored, SettlementInv, IdsCountUp, Justified, SameRequest
<1>3. TasksHold
  BY <1>2, EmitHolds
<1>4. QED
  BY <1>1, <1>3 DEF LifeStep, AnswersHold, EventsHold

LEMMA PatchLife ==
    ASSUME TypeOK, SettlementInv, LifecycleInv, TimeKept, NEW p \in Proc, PatchWrite(p)
    PROVE  LifeStep
<1> DEFINE i    == task[p].id
           new  == task[p].patch
           old  == intents[i]
           row  == [old EXCEPT !.status = IF new.status = NULL THEN @ ELSE new.status,
                               !.txHash = IF new.setsHash THEN new.txHash ELSE @]
           type == IF new.status = NULL THEN "UPDATED" ELSE StatusEvent(new.status)
           next == Declaring(type, task[p].user, i, row)
<1>1. /\ task \in [Proc -> Task] /\ task[p] \in Task /\ ActsForOwner(task[p])
      /\ UNCHANGED <<issued, overdue, ledger, answers, events>>
  BY DEF TypeOK, ServiceTypeOK, LifecycleInv, PatchWrite
<1>2. new.status \in Optional(Status) /\ new.setsHash \in BOOLEAN /\ new.txHash \in Optional(Hash)
  BY <1>1, PatchTask, ServiceAssumption DEF PatchWrite
<1>3. CASE i \in Stored /\ ~(new.setsHash /\ HashTaken(i, new.txHash))
  <2>1. /\ WriteRow(i, row) /\ Goto(p, next)
        /\ patched' = IF new.status = NULL /\ ~new.setsHash THEN patched ELSE patched \cup {i}
    BY <1>3 DEF PatchWrite
  <2>2. old \in Row /\ row \in Row /\ task[p].user = old.owner
    BY <1>1, <1>2, <1>3, PatchedRow DEF TypeOK, ServiceTypeOK, Stored, ActsForOwner, PatchWrite
  <2>3. /\ SameRequest(old, row) /\ row.source = old.source
        /\ row.status = IF new.status = NULL THEN old.status ELSE new.status
    <3> DEFINE s == new.status
               b == new.setsHash
               h == new.txHash
    <3>1. row = [old EXCEPT !.status = IF s = NULL THEN @ ELSE s,
                            !.txHash = IF b THEN h ELSE @]
      OBVIOUS
    <3> HIDE DEF old, s, b, h, row
    <3>2. /\ SameRequest(old, row) /\ row.source = old.source
          /\ row.status = IF s = NULL THEN old.status ELSE s
      BY <2>2, <3>1 DEF Row, SameRequest
    <3>3. QED
      BY <3>2 DEF s
  <2>4. next.step = "emit" /\ IsAbout(next.event, old.owner, i, row)
    BY <2>2 DEF Declaring, Emitting, EventFor, IsAbout
  <2>5. \/ i \in patched'
        \/ /\ row.status = "SUCCEEDED" => row.source # NULL
           /\ row.status = "EXPIRED" => i \in overdue
    BY <1>3, <2>1, <2>3 DEF LifecycleInv, SettledHasSource, ExpiredOnTime
  <2>6. Justified(i, row) /\ patched \ {i} \subseteq patched'
    BY <2>1, <2>3 DEF Justified
  <2> HIDE DEF row, type, next
  <2>7. QED
    BY <1>1, <1>3, <2>1, <2>2, <2>4, <2>5, <2>6, WriteLife
<1>4. CASE ~(i \in Stored /\ ~(new.setsHash /\ HashTaken(i, new.txHash)))
  BY <1>1, <1>4, IdleHolds, QuietLife DEF PatchWrite
<1>5. QED
  BY <1>3, <1>4

LEMMA MarkLife ==
    ASSUME TypeOK, SettlementInv, LifecycleInv, TimeKept, NEW p \in Proc, MarkWrite(p)
    PROVE  LifeStep
<1> DEFINE t    == task[p]
           i    == t.id
           old  == intents[i]
           row  == [old EXCEPT !.status = "SUCCEEDED", !.txHash = t.hash,
                               !.source = IF t.source = NULL THEN @ ELSE t.source]
           next == Settling(t.user, i, row, t.payer)
<1>1. /\ task \in [Proc -> Task] /\ t \in Task /\ TaskTrue(t) /\ TaskOK(t) /\ t.step = "markWrite"
      /\ UNCHANGED <<issued, overdue, ledger, answers, events>>
  BY DEF TypeOK, ServiceTypeOK, LifecycleInv, TaskTrue, SettlementInv, BeliefsHold, MarkWrite
<1>2. /\ t.hash \in Hash /\ t.source \in Optional(Account) /\ t.hash \in Landed(ledger)
      /\ i \in Stored => Fulfils(t.hash, old) /\ old.owner = t.user
      /\ IF t.source # NULL THEN PaidFrom(t.hash, t.source) ELSE i \in Stored => old.source # NULL
  BY <1>1, MarkTask DEF TaskOK, TaskTrue, ActsForOwner, KnowsPayer
<1>3. CASE i \in Stored /\ ~HashTaken(i, t.hash)
  <2>1. WriteRow(i, row) /\ patched' = patched \ {i} /\ Goto(p, next)
    BY <1>3 DEF MarkWrite
  <2>2. old \in Row /\ row \in Row
    BY <1>2, <1>3, SettledRow DEF TypeOK, ServiceTypeOK, Stored
  <2>3. /\ SameRequest(old, row) /\ row.status = "SUCCEEDED"
        /\ row.source = IF t.source = NULL THEN old.source ELSE t.source
    <3> DEFINE h == t.hash
               a == t.source
    <3>1. row = [old EXCEPT !.status = "SUCCEEDED", !.txHash = h,
                            !.source = IF a = NULL THEN @ ELSE a]
      OBVIOUS
    <3> HIDE DEF old, h, a, row
    <3>2. /\ SameRequest(old, row) /\ row.status = "SUCCEEDED"
          /\ row.source = IF a = NULL THEN old.source ELSE a
      BY <2>2, <3>1 DEF Row, SameRequest
    <3>3. QED
      BY <3>2 DEF a
  <2>4. next.step = "emit" /\ IsAbout(next.event, old.owner, i, row)
    BY <1>2, <1>3 DEF Settling, Emitting, EventFor, IsAbout
  <2>5. Fulfils(t.hash, row) /\ row.source # NULL
    BY <1>2, <1>3, <2>3, FulfilsRequest
  <2>6. Justified(i, row)
    BY <1>2, <2>3, <2>5 DEF Justified
  <2> HIDE DEF row, next
  <2>7. QED
    BY <1>1, <1>3, <2>1, <2>2, <2>3, <2>4, <2>5, <2>6, WriteLife
<1>4. CASE ~(i \in Stored /\ ~HashTaken(i, t.hash))
  BY <1>1, <1>4, IdleHolds, QuietLife DEF MarkWrite
<1>5. QED
  BY <1>3, <1>4

LEMMA FailLife ==
    ASSUME TypeOK, SettlementInv, LifecycleInv, TimeKept, NEW p \in Proc, FailWrite(p)
    PROVE  LifeStep
<1> DEFINE t    == task[p]
           i    == t.id
           old  == intents[i]
           row  == [old EXCEPT !.status = "FAILED", !.txHash = t.hash]
           next == Emitting("FAILED", t.user, i, row)
<1>1. /\ task \in [Proc -> Task] /\ t \in Task /\ ActsForOwner(t) /\ t.step = "markFailed"
      /\ UNCHANGED <<issued, overdue, ledger, answers, events>>
  BY DEF TypeOK, ServiceTypeOK, LifecycleInv, FailWrite
<1>2. t.hash \in Hash /\ (i \in Stored => old.owner = t.user)
  BY <1>1, FailTask DEF ActsForOwner
<1>3. CASE i \in Stored /\ ~HashTaken(i, t.hash)
  <2>1. WriteRow(i, row) /\ patched' = patched \ {i} /\ Goto(p, next)
    BY <1>3 DEF FailWrite
  <2>2. old \in Row /\ row \in Row
    BY <1>2, <1>3, FailedRow DEF TypeOK, ServiceTypeOK, Stored
  <2>3. SameRequest(old, row) /\ row.status = "FAILED" /\ row.source = old.source
    <3> DEFINE h == t.hash
    <3>1. row = [old EXCEPT !.status = "FAILED", !.txHash = h]
      OBVIOUS
    <3> HIDE DEF old, h, row
    <3>2. QED
      BY <2>2, <3>1 DEF Row, SameRequest
  <2>4. next.step = "emit" /\ IsAbout(next.event, old.owner, i, row)
    BY <1>2, <1>3 DEF Emitting, EventFor, IsAbout
  <2>5. Justified(i, row)
    BY <2>3 DEF Justified
  <2> HIDE DEF row, next
  <2>6. QED
    BY <1>1, <1>3, <2>1, <2>2, <2>3, <2>4, <2>5, WriteLife
<1>4. CASE ~(i \in Stored /\ ~HashTaken(i, t.hash))
  BY <1>1, <1>4, IdleHolds, QuietLife DEF FailWrite
<1>5. QED
  BY <1>3, <1>4

-----------------------------------------------------------------------------
(***************************************************************************)
(* The observer.                                                           *)
(***************************************************************************)
LEMMA ExpireLife ==
    ASSUME TypeOK, SettlementInv, LifecycleInv, TimeKept, NEW o \in Observers, ExpireNext(o)
    PROVE  LifeStep
<1>1. PICK item \in cycle[o].todo :
        IF item.id \in Stored
        THEN LET row == [intents[item.id] EXCEPT !.status = "EXPIRED"]
             IN  /\ WriteRow(item.id, row)
                 /\ Goto(o, Emitting("UPDATED", item.seen.owner, item.id, row))
        ELSE UNCHANGED <<intents, task>>
  BY DEF ExpireNext
<1> DEFINE i    == item.id
           old  == intents[i]
           row  == [old EXCEPT !.status = "EXPIRED"]
           next == Emitting("UPDATED", item.seen.owner, i, row)
<1>2. /\ o \in Proc /\ i \in overdue /\ (i \in Stored => item.seen.owner = old.owner)
      /\ UNCHANGED <<issued, overdue, ledger, patched, answers, events>>
  BY DEF Proc, ExpireNext, InPhase, LifecycleInv, DueItems, SettlementInv, BeliefsHold, SnapshotFits,
         SameRequest, historyVars
<1>3. CASE i \in Stored
  <2>1. WriteRow(i, row) /\ Goto(o, next)
    BY <1>1, <1>3
  <2>2. old \in Row /\ row \in Row
    BY <1>3, ExpiredRow DEF TypeOK, ServiceTypeOK, Stored
  <2>3. SameRequest(old, row) /\ row.status = "EXPIRED" /\ row.source = old.source
    <3>1. row = [old EXCEPT !.status = "EXPIRED"]
      OBVIOUS
    <3> HIDE DEF old, row
    <3>2. QED
      BY <2>2, <3>1 DEF Row, SameRequest
  <2>4. next.step = "emit" /\ IsAbout(next.event, old.owner, i, row)
    BY <1>2, <1>3 DEF Emitting, EventFor, IsAbout
  <2>5. Justified(i, row)
    BY <2>3 DEF Justified
  <2> HIDE DEF row, next
  <2>6. QED
    BY <1>2, <1>3, <2>1, <2>2, <2>3, <2>4, <2>5, WriteLife
<1>4. CASE i \notin Stored
  BY <1>1, <1>2, <1>4, SameTasksHold, QuietLife
<1>5. QED
  BY <1>3, <1>4

LEMMA ReconcileLife ==
    ASSUME TypeOK, SettlementInv, LifecycleInv, TimeKept, NEW o \in Observers, ReconcileNext(o)
    PROVE  LifeStep
<1>1. PICK item \in cycle[o].todo :
        \/ UNCHANGED task
        \/ \E m \in Matches(item.seen) :
              Goto(o, Marking(item.seen.owner, item.id, m.hash, m.payer))
  BY DEF ReconcileNext
<1>2. /\ o \in Proc /\ task \in [Proc -> Task]
      /\ UNCHANGED <<intents, issued, patched, answers, events>>
  BY DEF Proc, TypeOK, ServiceTypeOK, ReconcileNext, dbVars, historyVars
<1>3. /\ item.id <= issued'
      /\ item.id \in Stored' => intents'[item.id].owner = item.seen.owner
  BY <1>2 DEF SettlementInv, BeliefsHold, SnapshotFits, SameRequest, Stored
<1>4. TasksHold
  BY <1>1, <1>2, <1>3, SameTasksHold, MatchPaid, MarkingHolds
<1>5. QED
  BY <1>2, <1>4, QuietLife

-----------------------------------------------------------------------------
(***************************************************************************)
(* Every step.                                                             *)
(***************************************************************************)
LEMMA TimePasses == TypeOK /\ [Next]_vars => TimeKept
<1> SUFFICES ASSUME TypeOK, [Next]_vars PROVE TimeKept
  OBVIOUS
<1>1. issued \in Nat /\ ledger \in Seq(Tx)
  BY DEF TypeOK, ServiceTypeOK
<1>2. ASSUME UNCHANGED <<issued, overdue, ledger>> PROVE TimeKept
  BY <1>1, <1>2 DEF TimeKept, LedgerKept
<1>3. ASSUME NEW p \in Proc, Continue(p) \/ CallFails(p) PROVE TimeKept
  <2>1. CASE Insert(p)
    BY <1>1, <2>1 DEF Insert, TimeKept, LedgerKept
  <2>2. CASE ~Insert(p)
    BY <1>2, <1>3, <2>2
       DEF Continue, CallFails, CheckMemo, LoadAccount, Refind, PatchWrite, RemoveStatus, Delete,
           Verify, MarkRead, MarkWrite, FailWrite, Emit, dbVars
  <2>3. QED
    BY <2>1, <2>2
<1>4. ASSUME NEW p \in Requests, NEW c \in Caller,
             \/ \E order \in Order : Create(p, c, order)
             \/ \E i \in Id :
                   \/ \E patch \in Patch : Update(p, c, i, patch)
                   \/ Remove(p, c, i)
                   \/ \E hash \in Hash \ {""} : Validate(p, c, i, hash)
             \/ \E account \in Listed : CustomerRoute(p, c, account)
      PROVE  TimeKept
  BY <1>2, <1>4 DEF Create, Update, Remove, Validate, CustomerRoute, AddCustomer, DropCustomer,
                    EditCustomer, dbVars
<1>5. ASSUME NEW key \in CustomerKey, CustomerJob(key) \/ CustomerFails(key) PROVE TimeKept
  BY <1>2, <1>5 DEF CustomerJob, CustomerFind, CustomerCreate, CustomerFails, dbVars
<1>6. ASSUME NEW i \in Id, Lapse(i) PROVE TimeKept
  BY <1>1, <1>6 DEF Lapse, dbVars, TimeKept, LedgerKept
<1>7. ASSUME NEW t \in Tx, Land(t) PROVE TimeKept
  BY <1>1, <1>7 DEF Land, dbVars, TimeKept, LedgerKept, Landed
<1>8. ASSUME NEW o \in Observers, ObserverStep(o) \/ QueryFails(o) \/ RowFails(o) PROVE TimeKept
  BY <1>2, <1>8 DEF ObserverStep, Tick, QueryExpired, ExpireNext, QueryPending, ReconcileNext,
                    EndCycle, QueryFails, RowFails, serviceVars, dbVars
<1>9. CASE Crash \/ UNCHANGED vars
  BY <1>2, <1>9 DEF Crash, vars, serviceVars, dbVars
<1>10. QED
  BY <1>3, <1>4, <1>5, <1>6, <1>7, <1>8, <1>9 DEF Next, Step, ServiceNext

LEMMA EveryLife ==
    ASSUME TypeOK, SettlementInv, LifecycleInv, TimeKept, [Next]_vars
    PROVE  LifeStep
<1>1. ASSUME TasksHold, UNCHANGED <<intents, issued, patched, answers, events>> PROVE LifeStep
  BY <1>1, QuietLife
<1>2. ASSUME NEW p \in Proc, Continue(p) \/ CallFails(p) PROVE LifeStep
  <2>1. CASE CallFails(p)
    BY <1>1, <2>1, IdleHolds DEF CallFails, TypeOK, ServiceTypeOK, dbVars, historyVars
  <2>2. QED
    BY <1>2, <2>1, CreatingLife, InsertLife, PatchLife, DeleteLife, VerifyingLife, MarkLife,
       FailLife, EmitLife DEF Continue
<1>3. ASSUME \/ \E key \in CustomerKey : CustomerJob(key) \/ CustomerFails(key)
             \/ \E i \in Id : Lapse(i)
             \/ \E t \in Tx : Land(t)
      PROVE  LifeStep
  BY <1>1, <1>3, SameTasksHold DEF CustomerJob, CustomerFind, CustomerCreate, CustomerFails, Lapse, Land,
                                   dbVars, historyVars
<1>4. ASSUME NEW o \in Observers, ObserverStep(o) \/ QueryFails(o) \/ RowFails(o) PROVE LifeStep
  <2>1. CASE \/ Tick(o) \/ QueryExpired(o) \/ QueryPending(o) \/ EndCycle(o)
             \/ QueryFails(o) \/ RowFails(o)
    BY <1>1, <2>1, SameTasksHold DEF Tick, QueryExpired, QueryPending, EndCycle, QueryFails, RowFails,
                                     serviceVars, dbVars, historyVars
  <2>2. QED
    BY <1>4, <2>1, ExpireLife, ReconcileLife DEF ObserverStep
<1>5. CASE Crash
  <2>1. TasksHold
    BY <1>5 DEF Crash, TasksHold, TaskTrue, ActsForOwner, KnowsPayer, Idle
  <2>2. QED
    BY <1>1, <1>5, <2>1 DEF Crash, dbVars, historyVars
<1>6. CASE UNCHANGED vars
  BY <1>1, <1>6, SameTasksHold DEF vars, serviceVars, historyVars
<1>7. QED
  BY <1>2, <1>3, <1>4, <1>5, <1>6, RequestLife DEF Next, Step, ServiceNext

LEMMA InitLifecycle == Init => LifecycleInv
<1> SUFFICES ASSUME Init PROVE LifecycleInv
  OBVIOUS
<1>1. Stored = {} /\ events = {} /\ answers = {}
  BY DEF Init, ServiceInit, Stored
<1>2. \A p \in Proc : ActsForOwner(task[p]) /\ KnowsPayer(task[p])
  BY DEF Init, ServiceInit, Idle, ActsForOwner, KnowsPayer
<1>3. DueItems
  BY DEF Init, DueItems, Off
<1>4. QED
  BY <1>1, <1>2, <1>3 DEF LifecycleInv, MemosUnique, SourcesPaid, SettledHasSource,
                          OwnerScoped, ExpiredOnTime

LEMMA LifecycleStep ==
    TypeOK /\ TypeOK' /\ SettlementInv /\ LifecycleInv /\ [Next]_vars => LifecycleInv'
<1> SUFFICES ASSUME TypeOK, TypeOK', SettlementInv, LifecycleInv, [Next]_vars
             PROVE  LifecycleInv'
  OBVIOUS
<1>1. TimeKept /\ LifeStep
  BY TimePasses, EveryLife
<1>2. TermsKept
  BY SettlementStep DEF SafeStep
<1>3. RowsKept
  <2>1. \A i \in Id : i <= issued => i \in 1..issued
    BY Bounds DEF Id, TypeOK, ServiceTypeOK
  <2>2. QED
    BY <1>1, <1>2, <2>1 DEF RowsKept, TermsKept, SameTerms, TimeKept
<1>4. DueItems'
  BY DueItemsStep DEF LifecycleInv
<1>5. QED
  BY <1>1, <1>3, <1>4, LifecycleStays

-----------------------------------------------------------------------------
(***************************************************************************)
(* The theorems.                                                           *)
(***************************************************************************)
\* LifecycleInv is an invariant: whatever a handler read before its calls, it
\* acts for the owner of the intent and on a payment that was made for it.
THEOREM LifecycleCorrect == Spec => []LifecycleInv
<1>1. Spec => []TypeOK
  BY TypeCorrect
<1>2. QED
  BY <1>1, InitLifecycle, LifecycleStep, SettlementCorrect, PTL DEF Spec

\* Requests with the same memo are answered with the same intent while it
\* exists, though create looks the memo up in one call and inserts in another.
THEOREM CreateIdempotent == Spec => []IdempotentCreate
<1>1. LifecycleInv => IdempotentCreate
  BY DEF LifecycleInv, MemosUnique, IdempotentCreate, Names
<1>2. QED
  BY <1>1, LifecycleCorrect, PTL

\* Events go to the owner of the intent they are about, from every route, from
\* the finalizers and from the observer's readings.
THEOREM EventsToOwner == Spec => []OwnerScoped
<1>1. LifecycleInv => OwnerScoped
  BY DEF LifecycleInv
<1>2. QED
  BY <1>1, LifecycleCorrect, PTL

\* The payer recorded for a PAY intent sent a payment that fulfils it, also
\* when two settlements by different payers overlap.
THEOREM SourcesVerified == Spec => []SourcePaidIt
<1>1. LifecycleInv => SourcePaidIt
  <2> SUFFICES ASSUME LifecycleInv, NEW i \in Stored \ patched,
                      intents[i].status = "SUCCEEDED", intents[i].kind = "PAY"
               PROVE  \E t \in Landed(ledger) :
                         /\ Fulfils(t, intents[i])
                         /\ \E k \in DOMAIN TxRecord[t].ops :
                               TxRecord[t].ops[k].from = intents[i].source
    BY DEF SourcePaidIt
  <2>1. intents[i].source # NULL
    BY DEF LifecycleInv, SettledHasSource
  <2>2. QED
    BY <2>1 DEF LifecycleInv, SourcesPaid, PaidFrom
<1>2. QED
  BY <1>1, LifecycleCorrect, PTL

\* An intent expires only after its time, though the observer's list of what
\* to expire is older than its writes.
THEOREM ExpiryOnTime == Spec => []ExpiredOnTime
<1>1. LifecycleInv => ExpiredOnTime
  BY DEF LifecycleInv
<1>2. QED
  BY <1>1, LifecycleCorrect, PTL
=============================================================================
