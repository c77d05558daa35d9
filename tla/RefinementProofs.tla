--------------------------- MODULE RefinementProofs ---------------------------
(***************************************************************************)
(* Proof that the service with its observer implements the book of         *)
(* Settlement: a handler's write is one step of the book, and every other  *)
(* step of the service leaves the book as it is.  The reasons that the     *)
(* book demands at the moment of a write are what SettlementInv says that  *)
(* a suspended handler still believes truly.                               *)
(***************************************************************************)
EXTENDS SettlementProofs, SettlementRefinement

-----------------------------------------------------------------------------
(***************************************************************************)
(* The verification rule of the book is the one of the service, and looks  *)
(* at the terms of an intent only.                                         *)
(***************************************************************************)
LEMMA SameNumber == ASSUME NEW a PROVE S!Number(a) = Number(a)
BY DEF S!Number, Number, S!Ulp, Ulp, S!Fits, Fits, S!Scaled, Scaled, S!Fine, Fine,
       S!Reaches, Reaches

LEMMA FulfilsTerms ==
    ASSUME NEW t, NEW row, Fulfils(t, row)
    PROVE  S!Fulfils(t, TermsOf(row))
<1>1. Fulfils(t, TermsOf(row))
  BY DEF Fulfils, TermsOf
<1>2. QED
  BY <1>1, SameNumber DEF Fulfils, S!Fulfils

LEMMA SameTermsOf ==
    ASSUME NEW old, NEW new, SameRequest(old, new)
    PROVE  TermsOf(old) = TermsOf(new)
BY DEF SameRequest, TermsOf

-----------------------------------------------------------------------------
(***************************************************************************)
(* Rows and entries.                                                       *)
(***************************************************************************)
LEMMA BookEntry ==
    ASSUME NEW i \in Stored
    PROVE  /\ i \in S!Kept /\ Book[i].terms = TermsOf(intents[i])
           /\ Book[i].status = intents[i].status /\ Book[i].hash = intents[i].txHash
BY DEF S!Kept, Book, Entry

LEMMA FreeHash ==
    ASSUME NEW i \in Stored, NEW hash, ~HashTaken(i, hash)
    PROVE  S!Free(i, hash)
BY DEF HashTaken, S!Free, S!Kept, Book, Entry

\* A write of a row that keeps its terms is a change of its entry.
LEMMA RowBecomes ==
    ASSUME TypeOK, NEW i \in Stored, NEW row \in Row, WriteRow(i, row),
           SameRequest(intents[i], row), ~HashTaken(i, row.txHash),
           UNCHANGED <<issued, overdue, ledger>>
    PROVE  S!Become(i, row.status, row.txHash)
<1>1. /\ Stored' = Stored /\ intents'[i] = row
      /\ \A j \in Stored : j # i => intents'[j] = intents[j]
  BY RowNotNull DEF WriteRow, TypeOK, ServiceTypeOK, Stored
<1>2. Entry(row) = [terms |-> Book[i].terms, status |-> row.status, hash |-> row.txHash]
  BY BookEntry, SameTermsOf DEF Entry
<1>3. Book' = [j \in Stored |-> IF j = i THEN Entry(row) ELSE Book[j]]
  BY <1>1 DEF Book
<1>4. Book' = [Book EXCEPT ![i] = [terms |-> @.terms, status |-> row.status, hash |-> row.txHash]]
  BY <1>2, <1>3 DEF Book
<1>5. QED
  BY <1>4, FreeHash DEF S!Become

-----------------------------------------------------------------------------
(***************************************************************************)
(* The rows that the service writes keep the terms.                        *)
(***************************************************************************)
LEMMA ExpiryKeepsTerms ==
    ASSUME NEW old \in Row, NEW row, row = [old EXCEPT !.status = "EXPIRED"]
    PROVE  SameRequest(old, row) /\ row.status = "EXPIRED" /\ row.txHash = old.txHash
BY DEF Row, SameRequest

-----------------------------------------------------------------------------
(***************************************************************************)
(* The writes, each a step of the book.                                    *)
(***************************************************************************)
BookStep == [S!Next]_(S!bookVars)

LEMMA SameBook ==
    ASSUME UNCHANGED <<intents, issued, overdue, ledger>>
    PROVE  BookStep
BY DEF BookStep, S!bookVars, Book, Stored

LEMMA InsertRefines ==
    ASSUME TypeOK, SettlementInv, DraftsAsked, NEW p \in Proc, Insert(p)
    PROVE  BookStep
<1> DEFINE draft == task[p].draft
           n     == issued + 1
<1>1. /\ task[p] \in Task /\ draft \in Row /\ draft.status = "PENDING" /\ draft.txHash = NULL
      /\ TermsOf(draft) \in AskedFor /\ UNCHANGED <<overdue, ledger>>
  BY CreateTask DEF Insert, TypeOK, ServiceTypeOK, SettlementInv, BeliefsHold, TaskOK, DraftsAsked
<1>2. CASE MemoTaken(draft)
  BY <1>1, <1>2, SameBook DEF Insert
<1>3. CASE ~MemoTaken(draft)
  <2>1. issued' = n /\ WriteRow(n, draft) /\ issued < MaxIntents
    BY <1>3 DEF Insert
  <2>2. n \in Id /\ n \notin Stored /\ draft # NULL
    BY <1>1, <2>1, Bounds, RowNotNull
       DEF TypeOK, ServiceTypeOK, Id, SettlementInv, IdsCountUp
  <2>3. Stored' = Stored \cup {n} /\ intents'[n] = draft
        /\ \A j \in Stored : intents'[j] = intents[j]
    BY <2>1, <2>2 DEF WriteRow, Stored, TypeOK, ServiceTypeOK
  <2>4. Book' = [i \in S!Kept \cup {issued'} |->
                   IF i = issued' THEN [terms |-> TermsOf(draft), status |-> "PENDING", hash |-> NULL]
                   ELSE Book[i]]
    BY <1>1, <2>1, <2>2, <2>3 DEF Book, S!Kept, Entry
  <2>5. S!MemoFree(TermsOf(draft))
    BY <1>3 DEF MemoTaken, FindByMemo, S!MemoFree, S!Kept, Book, Entry, TermsOf
  <2>6. S!Open(TermsOf(draft))
    BY <1>1, <2>1, <2>4, <2>5 DEF S!Open
  <2>7. QED
    BY <1>1, <2>6 DEF BookStep, S!Next
<1>4. QED
  BY <1>2, <1>3

LEMMA DeleteRefines ==
    ASSUME TypeOK, NEW p \in Proc, Delete(p)
    PROVE  BookStep
<1> DEFINE i == task[p].id
<1>1. CASE i \in Stored
  <2>1. WriteRow(i, NULL) /\ UNCHANGED <<issued, overdue, ledger>>
    BY <1>1 DEF Delete
  <2>2. Stored' = Stored \ {i} /\ \A j \in Stored' : intents'[j] = intents[j]
    BY <2>1 DEF WriteRow, Stored, TypeOK, ServiceTypeOK
  <2>3. Book' = [j \in S!Kept \ {i} |-> Book[j]]
    BY <2>2 DEF Book, S!Kept
  <2>4. QED
    BY <1>1, <2>1, <2>3, BookEntry DEF BookStep, S!Next, S!Withdraw
<1>2. CASE i \notin Stored
  BY <1>2, SameBook DEF Delete
<1>3. QED
  BY <1>1, <1>2

LEMMA MarkRefines ==
    ASSUME TypeOK, SettlementInv, NEW p \in Proc, MarkWrite(p)
    PROVE  BookStep
<1> DEFINE t   == task[p]
           i   == t.id
           old == intents[i]
           src == IF t.source = NULL THEN old.source ELSE t.source
           row == [old EXCEPT !.status = "SUCCEEDED", !.txHash = t.hash, !.source = src]
<1>1. /\ t \in Task /\ t.step = "markWrite" /\ TaskOK(t)
      /\ UNCHANGED <<issued, overdue, ledger>>
  BY DEF MarkWrite, TypeOK, ServiceTypeOK, SettlementInv, BeliefsHold
<1>2. /\ t.hash \in Hash /\ t.source \in Optional(Account) /\ t.hash \in Landed(ledger)
      /\ i \in Stored => Fulfils(t.hash, old)
  BY <1>1, MarkTask DEF TaskOK
<1>3. CASE i \in Stored /\ ~HashTaken(i, t.hash)
  <2>1. WriteRow(i, row)
    BY <1>3 DEF MarkWrite
  <2>2. old \in Row /\ row \in Row
    BY <1>2, <1>3, SettledRow DEF TypeOK, ServiceTypeOK, Stored
  <2>3. SameRequest(old, row) /\ row.status = "SUCCEEDED" /\ row.txHash = t.hash
    <3> DEFINE h == t.hash
    <3>1. row = [old EXCEPT !.status = "SUCCEEDED", !.txHash = h, !.source = src]
      OBVIOUS
    <3> HIDE DEF old, h, src, row
    <3>2. SameRequest(old, row) /\ row.status = "SUCCEEDED" /\ row.txHash = h
      BY <2>2, <3>1 DEF Row, SameRequest
    <3>3. QED
      BY <3>2 DEF h
  <2> HIDE DEF row
  <2>4. S!Become(i, "SUCCEEDED", t.hash)
    BY <1>1, <1>3, <2>1, <2>2, <2>3, RowBecomes
  <2>5. S!Fulfils(t.hash, Book[i].terms) /\ t.hash \in S!Landed(ledger)
    BY <1>2, <1>3, BookEntry, FulfilsTerms DEF Landed, S!Landed
  <2>6. t.hash \in Tx
    BY <1>2 DEF Landed, TypeOK, ServiceTypeOK
  <2>7. QED
    BY <1>3, <2>4, <2>5, <2>6, BookEntry DEF BookStep, S!Next, S!Settle
<1>4. CASE ~(i \in Stored /\ ~HashTaken(i, t.hash))
  BY <1>1, <1>4, SameBook DEF MarkWrite
<1>5. QED
  BY <1>3, <1>4

LEMMA FailRefines ==
    ASSUME TypeOK, SettlementInv, NEW p \in Proc, FailWrite(p)
    PROVE  BookStep
<1> DEFINE t   == task[p]
           i   == t.id
           old == intents[i]
           row == [old EXCEPT !.status = "FAILED", !.txHash = t.hash]
<1>1. /\ t \in Task /\ t.step = "markFailed" /\ TaskOK(t)
      /\ UNCHANGED <<issued, overdue, ledger>>
  BY DEF FailWrite, TypeOK, ServiceTypeOK, SettlementInv, BeliefsHold
<1>2. /\ t.hash \in Hash /\ t.hash \in Landed(ledger) /\ ~TxRecord[t.hash].successful
      /\ i \in Stored => TxRecord[t.hash].network = old.network
  BY <1>1, FailTask DEF TaskOK
<1>3. CASE i \in Stored /\ ~HashTaken(i, t.hash)
  <2>1. WriteRow(i, row)
    BY <1>3 DEF FailWrite
  <2>2. old \in Row /\ row \in Row
    BY <1>2, <1>3, FailedRow DEF TypeOK, ServiceTypeOK, Stored
  <2>3. SameRequest(old, row) /\ row.status = "FAILED" /\ row.txHash = t.hash
    <3> DEFINE h == t.hash
    <3>1. row = [old EXCEPT !.status = "FAILED", !.txHash = h]
      OBVIOUS
    <3> HIDE DEF old, h, row
    <3>2. SameRequest(old, row) /\ row.status = "FAILED" /\ row.txHash = h
      BY <2>2, <3>1 DEF Row, SameRequest
    <3>3. QED
      BY <3>2 DEF h
  <2> HIDE DEF row
  <2>4. S!Become(i, "FAILED", t.hash)
    BY <1>1, <1>3, <2>1, <2>2, <2>3, RowBecomes
  <2>5. t.hash \in S!OnNetwork(Book[i].terms, ledger)
    <3> HIDE DEF i
    <3>1. Book[i].terms.network = intents[i].network
      <4>1. Book[i].terms = TermsOf(intents[i])
        BY <1>3, BookEntry
      <4>2. TermsOf(intents[i]).network = intents[i].network
        BY DEF TermsOf
      <4>3. QED
        BY <4>1, <4>2
    <3>2. QED
      BY <1>2, <1>3, <3>1 DEF S!OnNetwork, S!Landed, Landed
  <2>6. t.hash \in Tx
    BY <1>2 DEF Landed, TypeOK, ServiceTypeOK
  <2>7. QED
    BY <1>2, <1>3, <2>4, <2>5, <2>6, BookEntry DEF BookStep, S!Next, S!Fail
<1>4. CASE ~(i \in Stored /\ ~HashTaken(i, t.hash))
  BY <1>1, <1>4, SameBook DEF FailWrite
<1>5. QED
  BY <1>3, <1>4

LEMMA PatchRefines ==
    ASSUME TypeOK, SettlementInv, NEW p \in Proc, PatchWrite(p)
    PROVE  BookStep
<1> DEFINE i      == task[p].id
           patch  == task[p].patch
           old    == intents[i]
           status == IF patch.status = NULL THEN old.status ELSE patch.status
           hash   == IF patch.setsHash THEN patch.txHash ELSE old.txHash
           row    == [old EXCEPT !.status = status, !.txHash = hash]
<1>1. task[p] \in Task /\ task[p].step = "patch" /\ UNCHANGED <<issued, overdue, ledger>>
  BY DEF PatchWrite, TypeOK, ServiceTypeOK
<1>2. /\ patch \in Patch /\ patch.status \in Optional(Status) /\ patch.setsHash \in BOOLEAN
      /\ patch.txHash \in Optional(Hash)
  BY <1>1, PatchTask, ServiceAssumption
<1>3. CASE i \in Stored /\ ~(patch.setsHash /\ HashTaken(i, patch.txHash))
  <2>1. WriteRow(i, row)
    BY <1>3 DEF PatchWrite
  <2>2. old \in Row /\ row \in Row
    BY <1>2, <1>3, PatchedRow DEF TypeOK, ServiceTypeOK, Stored
  <2>3. SameRequest(old, row) /\ row.status = status /\ row.txHash = hash
    <3>1. row = [old EXCEPT !.status = status, !.txHash = hash]
      OBVIOUS
    <3> HIDE DEF old, status, hash, row
    <3>2. QED
      BY <2>2, <3>1 DEF Row, SameRequest
  <2>4. ~HashTaken(i, hash)
    BY <1>3 DEF HashTaken, SettlementInv, NoDoubleClaim
  <2>5. S!Become(i, status, hash)
    <3> HIDE DEF row, status, hash
    <3> QED
      BY <1>1, <1>3, <2>1, <2>2, <2>3, <2>4, RowBecomes
  <2>6. S!Revise(i, patch)
    BY <1>3, <2>5, BookEntry DEF S!Revise
  <2>7. QED
    BY <1>2, <1>3, <2>6, BookEntry DEF BookStep, S!Next
<1>4. CASE ~(i \in Stored /\ ~(patch.setsHash /\ HashTaken(i, patch.txHash)))
  BY <1>1, <1>4, SameBook DEF PatchWrite
<1>5. QED
  BY <1>3, <1>4

LEMMA ExpireRefines ==
    ASSUME TypeOK, SettlementInv, DueItems, NEW o \in Observers, ExpireNext(o)
    PROVE  BookStep
<1>1. PICK item \in cycle[o].todo :
        IF item.id \in Stored
        THEN WriteRow(item.id, [intents[item.id] EXCEPT !.status = "EXPIRED"])
        ELSE UNCHANGED intents
  BY DEF ExpireNext
<1> DEFINE i   == item.id
           old == intents[i]
           row == [old EXCEPT !.status = "EXPIRED"]
<1>2. i \in overdue /\ UNCHANGED <<issued, overdue, ledger>>
  BY DEF ExpireNext, InPhase, DueItems
<1>3. CASE i \in Stored
  <2>1. old \in Row /\ row \in Row
    BY <1>3, ExpiredRow DEF TypeOK, ServiceTypeOK, Stored
  <2>2. SameRequest(old, row) /\ row.status = "EXPIRED" /\ row.txHash = old.txHash
    BY <2>1, ExpiryKeepsTerms
  <2>3. ~HashTaken(i, old.txHash)
    BY <1>3 DEF HashTaken, SettlementInv, NoDoubleClaim
  <2>4. WriteRow(i, row)
    BY <1>1, <1>3
  <2> HIDE DEF row
  <2>5. S!Become(i, "EXPIRED", Book[i].hash)
    BY <1>2, <1>3, <2>1, <2>2, <2>3, <2>4, RowBecomes, BookEntry
  <2>6. QED
    BY <1>2, <1>3, <2>5, BookEntry DEF BookStep, S!Next, S!Expire
<1>4. CASE i \notin Stored
  BY <1>1, <1>2, <1>4, SameBook
<1>5. QED
  BY <1>3, <1>4

-----------------------------------------------------------------------------
(***************************************************************************)
(* RefinementInv: drafts are what was asked for, items that expire are due.*)
(***************************************************************************)
DraftOK(t) ==
    t.step \in {"findByMemo", "loadAccount", "insert", "refind"} => TermsOf(t.draft) \in AskedFor

LEMMA GotoDrafts ==
    ASSUME TypeOK, DraftsAsked, NEW p \in Proc, NEW t, Goto(p, t), DraftOK(t)
    PROVE  DraftsAsked'
BY DEF TypeOK, ServiceTypeOK, DraftsAsked, Goto, DraftOK

LEMMA PlainDrafts ==
    ASSUME TypeOK, DraftsAsked, NEW p \in Proc, NEW t, Goto(p, t),
           t.step \notin {"findByMemo", "loadAccount", "insert", "refind"}
    PROVE  DraftsAsked'
BY GotoDrafts DEF DraftOK

LEMMA SameDrafts == ASSUME DraftsAsked, UNCHANGED task PROVE DraftsAsked'
BY DEF DraftsAsked

LEMMA RequestDrafts ==
    ASSUME TypeOK, DraftsAsked, NEW p \in Requests, NEW c \in Caller,
           \/ \E order \in Order : Create(p, c, order)
           \/ \E i \in Id :
                 \/ \E patch \in Patch : Update(p, c, i, patch)
                 \/ Remove(p, c, i)
                 \/ \E hash \in Hash \ {""} : Validate(p, c, i, hash)
           \/ \E account \in Listed : CustomerRoute(p, c, account)
    PROVE  DraftsAsked'
<1>1. p \in Proc
  BY DEF Proc
<1>2. ASSUME NEW order \in Order, Create(p, c, order) PROVE DraftsAsked'
  <2>1. CASE Acceptable(order)
    <3>1. PICK draft \in Drafts(c, order) : Goto(p, [step |-> "findByMemo", draft |-> draft])
      BY <1>2, <2>1 DEF Create
    <3>2. TermsOf(draft) \in AskedFor
      <4>1. TermsOf(draft) \in AskedBy(c, order)
        BY <2>1 DEF AskedBy
      <4>2. TermsOf(draft) \in UNION {AskedBy(c, o) : o \in Order}
        BY <4>1, Zenon
      <4>3. QED
        BY <4>2, Zenon DEF AskedFor
    <3>3. QED
      BY <1>1, <3>1, <3>2, GotoDrafts DEF DraftOK
  <2>2. CASE ~Acceptable(order)
    BY <1>2, <2>2, SameDrafts DEF Create
  <2>3. QED
    BY <2>1, <2>2
<1>3. ASSUME NEW i \in Id, NEW patch \in Patch, Update(p, c, i, patch) PROVE DraftsAsked'
  BY <1>1, <1>3, PlainDrafts DEF Update
<1>4. ASSUME NEW i \in Id, Remove(p, c, i) PROVE DraftsAsked'
  BY <1>1, <1>4, PlainDrafts DEF Remove
<1>5. ASSUME NEW i \in Id, NEW hash \in Hash, Validate(p, c, i, hash) PROVE DraftsAsked'
  BY <1>1, <1>5, PlainDrafts DEF Validate, Idle
<1>6. ASSUME NEW account \in Listed, CustomerRoute(p, c, account) PROVE DraftsAsked'
  BY <1>6, SameDrafts DEF CustomerRoute, AddCustomer, DropCustomer, EditCustomer
<1>7. QED
  BY <1>2, <1>3, <1>4, <1>5, <1>6

LEMMA HandlerDrafts ==
    ASSUME TypeOK, DraftsAsked, NEW p \in Proc, Continue(p) \/ CallFails(p)
    PROVE  DraftsAsked'
<1>1. DraftOK(task[p])
  BY DEF DraftsAsked, DraftOK
<1>2. CASE CheckMemo(p)
  <2> DEFINE next == [step |-> IF task[p].draft.kind = "TX" THEN "loadAccount" ELSE "insert",
                      draft |-> task[p].draft]
  <2>1. Goto(p, Idle) \/ Goto(p, next)
    BY <1>2 DEF CheckMemo
  <2>2. DraftOK(Idle) /\ DraftOK(next)
    BY <1>1, <1>2 DEF CheckMemo, DraftOK, Idle
  <2> HIDE DEF next
  <2>3. QED
    BY <2>1, <2>2, GotoDrafts
<1>3. CASE LoadAccount(p)
  <2>1. DraftOK([step |-> "insert", draft |-> task[p].draft])
    BY <1>1, <1>3 DEF LoadAccount, DraftOK
  <2>2. QED
    BY <1>3, <2>1, GotoDrafts DEF LoadAccount
<1>4. CASE Insert(p)
  <2> DEFINE again == [step |-> "refind", draft |-> task[p].draft]
             done  == Emitting("CREATED", task[p].draft.owner, issued + 1, task[p].draft)
  <2>1. Goto(p, again) \/ Goto(p, done)
    BY <1>4 DEF Insert
  <2>2. DraftOK(again) /\ DraftOK(done)
    BY <1>1, <1>4 DEF Insert, DraftOK, Emitting
  <2> HIDE DEF again, done
  <2>3. QED
    BY <2>1, <2>2, GotoDrafts
<1>5. CASE Refind(p) \/ RemoveStatus(p) \/ Delete(p) \/ Emit(p) \/ CallFails(p)
  BY <1>5, PlainDrafts DEF Refind, RemoveStatus, Delete, Emit, CallFails, Emitting, Idle
<1>6. CASE PatchWrite(p)
  BY <1>6, PlainDrafts DEF PatchWrite, Declaring, Emitting, Idle
<1>7. CASE Verify(p) \/ MarkRead(p)
  BY <1>7, PlainDrafts DEF Verify, MarkRead, Marking, Idle
<1>8. CASE MarkWrite(p)
  BY <1>8, PlainDrafts DEF MarkWrite, Settling, Emitting, Idle
<1>9. CASE FailWrite(p)
  BY <1>9, PlainDrafts DEF FailWrite, Emitting, Idle
<1>10. QED
  BY <1>2, <1>3, <1>4, <1>5, <1>6, <1>7, <1>8, <1>9 DEF Continue

LEMMA DraftsStep == TypeOK /\ DraftsAsked /\ [Next]_vars => DraftsAsked'
<1> SUFFICES ASSUME TypeOK, DraftsAsked, [Next]_vars PROVE DraftsAsked'
  OBVIOUS
<1>1. ASSUME ServiceNext PROVE DraftsAsked'
  <2>1. ASSUME NEW key \in CustomerKey, CustomerJob(key) \/ CustomerFails(key) PROVE DraftsAsked'
    BY <2>1, SameDrafts DEF CustomerJob, CustomerFind, CustomerCreate, CustomerFails
  <2>2. CASE (\E i \in Id : Lapse(i)) \/ (\E t \in Tx : Land(t))
    BY <2>2, SameDrafts DEF Lapse, Land
  <2>3. QED
    BY <1>1, <2>1, <2>2, RequestDrafts, HandlerDrafts DEF ServiceNext
<1>2. ASSUME NEW o \in Observers, ObserverStep(o) \/ QueryFails(o) \/ RowFails(o)
      PROVE  DraftsAsked'
  <2>1. o \in Proc
    BY DEF Proc
  <2>2. CASE \/ Tick(o) \/ QueryExpired(o) \/ QueryPending(o) \/ EndCycle(o)
             \/ QueryFails(o) \/ RowFails(o)
    BY <2>2, SameDrafts DEF Tick, QueryExpired, QueryPending, EndCycle, QueryFails, RowFails, serviceVars
  <2>3. CASE ExpireNext(o)
    BY <2>1, <2>3, PlainDrafts, SameDrafts DEF ExpireNext, Emitting
  <2>4. CASE ReconcileNext(o)
    BY <2>1, <2>4, PlainDrafts, SameDrafts DEF ReconcileNext, Marking
  <2>5. QED
    BY <1>2, <2>2, <2>3, <2>4 DEF ObserverStep
<1>3. CASE Crash
  BY <1>3 DEF Crash, DraftsAsked, Idle
<1>4. CASE UNCHANGED vars
  BY <1>4, SameDrafts DEF vars, serviceVars
<1>5. QED
  BY <1>1, <1>2, <1>3, <1>4 DEF Next, Step

\* An id once overdue stays so, and a cycle's list only gets shorter.
LEMMA DueItemsStay ==
    ASSUME DueItems, overdue \subseteq overdue',
           \A o \in Observers :
              cycle'[o].phase = "expiring" =>
                  \/ cycle[o].phase = "expiring" /\ cycle'[o].todo \subseteq cycle[o].todo
                  \/ \A item \in cycle'[o].todo : item.id \in overdue
    PROVE  DueItems'
BY DEF DueItems

LEMMA DueItemsStep == TypeOK /\ DueItems /\ [Next]_vars => DueItems'
<1> SUFFICES ASSUME TypeOK, DueItems, [Next]_vars PROVE DueItems'
  OBVIOUS
<1>1. ASSUME overdue \subseteq overdue', UNCHANGED cycle PROVE DueItems'
  BY <1>1, DueItemsStay
<1>2. CASE ServiceNext /\ UNCHANGED cycle
  <2>1. overdue \subseteq overdue'
    <3>1. ASSUME NEW p \in Proc, Continue(p) \/ CallFails(p) PROVE UNCHANGED overdue
      BY <3>1 DEF Continue, CallFails, CheckMemo, LoadAccount, Insert, Refind, PatchWrite, RemoveStatus,
                  Delete, Verify, MarkRead, MarkWrite, FailWrite, Emit
    <3>2. ASSUME NEW p \in Requests, NEW c \in Caller,
                 \/ \E order \in Order : Create(p, c, order)
                 \/ \E i \in Id :
                       \/ \E patch \in Patch : Update(p, c, i, patch)
                       \/ Remove(p, c, i)
                       \/ \E hash \in Hash \ {""} : Validate(p, c, i, hash)
                 \/ \E account \in Listed : CustomerRoute(p, c, account)
          PROVE  UNCHANGED overdue
      BY <3>2 DEF Create, Update, Remove, Validate, CustomerRoute, AddCustomer, DropCustomer, EditCustomer
    <3>3. ASSUME NEW key \in CustomerKey, CustomerJob(key) \/ CustomerFails(key)
          PROVE  UNCHANGED overdue
      BY <3>3 DEF CustomerJob, CustomerFind, CustomerCreate, CustomerFails
    <3>4. CASE (\E i \in Id : Lapse(i)) \/ (\E t \in Tx : Land(t))
      BY <3>4 DEF Lapse, Land
    <3>5. QED
      BY <1>2, <3>1, <3>2, <3>3, <3>4 DEF ServiceNext
  <2>2. QED
    BY <1>1, <1>2, <2>1
<1>3. ASSUME NEW o \in Observers, ObserverStep(o) \/ QueryFails(o) \/ RowFails(o)
      PROVE  DueItems'
  <2>1. UNCHANGED overdue /\ cycle \in [Observers -> [phase : Phase, todo : SUBSET Snapshot]]
    BY <1>3 DEF ObserverStep, Tick, QueryExpired, ExpireNext, QueryPending, ReconcileNext, EndCycle,
                QueryFails, RowFails, serviceVars, TypeOK
  <2>2. CASE QueryExpired(o)
    <3>1. PICK ids \in Some({i \in Id : IsExpirable(i)}) : EnterPhase(o, "expiring", Snapshots(ids))
      BY <2>2 DEF QueryExpired
    <3>2. \A item \in Snapshots(ids) : item.id \in overdue
      BY DEF Some, IsExpirable, Snapshots
    <3>3. QED
      BY <2>1, <3>1, <3>2, DueItemsStay DEF EnterPhase
  <2>3. CASE \E item \in cycle[o].todo : Taken(o, item)
    BY <2>1, <2>3, DueItemsStay DEF Taken
  <2>4. CASE Tick(o) \/ QueryPending(o) \/ EndCycle(o) \/ QueryFails(o)
    BY <2>1, <2>4, DueItemsStay DEF Tick, QueryPending, EndCycle, QueryFails, EnterPhase, AfterFailure, Off
  <2>5. QED
    BY <1>3, <2>2, <2>3, <2>4 DEF ObserverStep, ExpireNext, ReconcileNext, RowFails
<1>4. CASE Crash
  BY <1>4 DEF Crash, DueItems, Off
<1>5. CASE UNCHANGED vars
  BY <1>1, <1>5 DEF vars, serviceVars
<1>6. QED
  BY <1>2, <1>3, <1>4, <1>5 DEF Next, Step

LEMMA RefinementInvariant == Spec => []RefinementInv
<1>1. Init => RefinementInv
  BY DEF Init, ServiceInit, RefinementInv, DraftsAsked, DueItems, Idle, Off
<1>2. TypeOK /\ RefinementInv /\ [Next]_vars => RefinementInv'
  BY DraftsStep, DueItemsStep DEF RefinementInv
<1>3. QED
  BY <1>1, <1>2, TypeCorrect, PTL DEF Spec

-----------------------------------------------------------------------------
(***************************************************************************)
(* Every step of the service is a step of the book.                        *)
(***************************************************************************)
LEMMA InitRefines == Init => S!Init
<1> SUFFICES ASSUME Init PROVE S!Init
  OBVIOUS
<1>1. Stored = {}
  BY DEF Init, ServiceInit, Stored
<1>2. Book = <<>>
  BY <1>1 DEF Book
<1>3. QED
  BY <1>2 DEF Init, ServiceInit, S!Init

LEMMA HandlerRefines ==
    ASSUME TypeOK, SettlementInv, DraftsAsked, NEW p \in Proc, Continue(p) \/ CallFails(p)
    PROVE  BookStep
<1>1. CASE \/ CheckMemo(p) \/ LoadAccount(p) \/ Refind(p) \/ RemoveStatus(p)
           \/ Verify(p) \/ MarkRead(p) \/ Emit(p) \/ CallFails(p)
  BY <1>1, SameBook
     DEF CheckMemo, LoadAccount, Refind, RemoveStatus, Verify, MarkRead, Emit, CallFails, dbVars
<1>2. QED
  BY <1>1, InsertRefines, DeleteRefines, MarkRefines, FailRefines, PatchRefines DEF Continue

LEMMA EnvironmentRefines ==
    ASSUME TypeOK,
           \/ \E key \in CustomerKey : CustomerJob(key) \/ CustomerFails(key)
           \/ \E i \in Id : Lapse(i)
           \/ \E t \in Tx : Land(t)
    PROVE  BookStep
<1>1. ASSUME NEW key \in CustomerKey, CustomerJob(key) \/ CustomerFails(key) PROVE BookStep
  BY <1>1, SameBook DEF CustomerJob, CustomerFind, CustomerCreate, CustomerFails, dbVars
<1>2. ASSUME NEW i \in Id, Lapse(i) PROVE BookStep
  <2>1. i \in S!Kept /\ UNCHANGED <<intents, issued, ledger>> /\ overdue' = overdue \cup {i}
    BY <1>2, BookEntry DEF Lapse, dbVars
  <2>2. S!GrowLate(i)
    BY <2>1 DEF S!GrowLate, Book, Stored
  <2>3. QED
    BY <2>1, <2>2 DEF BookStep, S!Next
<1>3. ASSUME NEW t \in Tx, Land(t) PROVE BookStep
  <2>1. UNCHANGED <<intents, issued, overdue>> /\ ledger' = Append(ledger, t) /\ t \notin Landed(ledger)
    BY <1>3 DEF Land, dbVars
  <2>2. S!Close(t)
    BY <2>1 DEF S!Close, S!Landed, Landed, Book, Stored
  <2>3. QED
    BY <2>2 DEF BookStep, S!Next
<1>4. QED
  BY <1>1, <1>2, <1>3

LEMMA RequestRefines ==
    ASSUME NEW p \in Requests, NEW c \in Caller,
           \/ \E order \in Order : Create(p, c, order)
           \/ \E i \in Id :
                 \/ \E patch \in Patch : Update(p, c, i, patch)
                 \/ Remove(p, c, i)
                 \/ \E hash \in Hash \ {""} : Validate(p, c, i, hash)
           \/ \E account \in Listed : CustomerRoute(p, c, account)
    PROVE  BookStep
BY SameBook DEF Create, Update, Remove, Validate, CustomerRoute, AddCustomer, DropCustomer,
                EditCustomer, dbVars

LEMMA StepRefines == TypeOK /\ SettlementInv /\ RefinementInv /\ [Next]_vars => BookStep
<1> SUFFICES ASSUME TypeOK, SettlementInv, DraftsAsked, DueItems, [Next]_vars PROVE BookStep
  BY DEF RefinementInv
<1>1. CASE ServiceNext
  BY <1>1, RequestRefines, HandlerRefines, EnvironmentRefines DEF ServiceNext
<1>2. ASSUME NEW o \in Observers, ObserverStep(o) \/ QueryFails(o) \/ RowFails(o) PROVE BookStep
  <2>1. CASE ExpireNext(o)
    BY <2>1, ExpireRefines
  <2>2. CASE ~ExpireNext(o)
    BY <1>2, <2>2, SameBook
       DEF ObserverStep, Tick, QueryExpired, QueryPending, ReconcileNext, EndCycle, QueryFails,
           RowFails, serviceVars, dbVars
  <2>3. QED
    BY <2>1, <2>2
<1>3. CASE Crash
  BY <1>3, SameBook DEF Crash, dbVars
<1>4. CASE UNCHANGED vars
  BY <1>4, SameBook DEF vars, serviceVars
<1>5. QED
  BY <1>1, <1>2, <1>3, <1>4 DEF Next, Step

\* The service and its observer, for any number of clients, intents, requests in
\* progress, observers, failures and crashes, implement the book: whatever was
\* read several calls earlier, every row they write is a step that the book
\* allows at the moment of the write.
THEOREM Refines == Spec => ImplementsSettlement
<1>1. TypeOK /\ SettlementInv /\ RefinementInv /\ [Next]_vars => [S!Next]_(S!bookVars)
  BY StepRefines DEF BookStep
<1>2. QED
  BY <1>1, InitRefines, TypeCorrect, SettlementCorrect, RefinementInvariant, PTL
     DEF Spec, S!Spec, ImplementsSettlement
=============================================================================
