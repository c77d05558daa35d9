---------------------------- MODULE PaymentIntents ----------------------------
(***************************************************************************)
(* The payment intent service                                              *)
(* (src/payment-intents/payment-intents.service.ts): the handlers of the   *)
(* REST routes and the finalizers it shares with the observer, over the    *)
(* payment_intent, consumer and customer tables (prisma/schema.prisma).    *)
(*                                                                         *)
(* A handler is a task that awaits one database statement or Horizon call  *)
(* at a time, so every action below is one such call together with the     *)
(* code that runs until the next one; any other task may run in between.   *)
(* task[p].step names the call that p awaits, and the other fields are the *)
(* locals that the rest of the handler still uses.  "emit" is the point    *)
(* between a committed write and the code after its await.                 *)
(***************************************************************************)
EXTENDS StellarVerifier

CONSTANTS
    Caller,         \* gateway identities: [username, environment]
    DefaultNetwork, \* STELLAR_NETWORK, for callers without an environment
    Account,        \* Stellar accounts
    AssetCode,      \* asset codes other than the native one
    Memo,           \* the valid MEMO_IDs, as the strings clients send
    Hash,           \* what a client may report as a transaction hash
    Order,          \* bodies of the create routes
    Patch,          \* bodies of the update route
    Listed,         \* accounts (or none) that merchants give to customers
    Route,          \* the routes that clients call
    Requests,       \* slots for requests in progress
    Observers,      \* observer loops, which run the finalizers too
    MaxIntents,     \* bound: intents ever created
    MaxRequests,    \* bound: requests ever received
    MaxFaults       \* bound: failed calls and crashes

Id       == 1..MaxIntents
Proc     == Requests \cup Observers
Username == {c.username : c \in Caller}
Status   == {"PENDING", "SUBMITTED", "SUCCEEDED", "FAILED", "CANCELLED", "EXPIRED"}
Optional(S) == S \cup {NULL}

(***************************************************************************)
(* A row of payment_intent.  A consumer id and its APISIX username map one *)
(* to one, so owner stands for both.  Ids count up in order of creation.   *)
(***************************************************************************)
Row == [owner : Username, memo : Memo, network : Network, kind : {"TX", "PAY"},
        destination : Account, asset : AssetCode \cup {"native"},
        assetIssuer : Optional(Account), amount : Optional(Nat),
        source : Optional(Account), status : Status, txHash : Optional(Hash)]

EventType == {"CREATED", "UPDATED", "SUCCEEDED", "FAILED", "CANCELLED", "DELETED"}

\* declared is history: the status is the client's own word, by a PATCH.
Event == [type : EventType, user : Username, id : Id, owner : Username, memo : Memo,
          declared : BOOLEAN]

\* Rows of customer are counted per owner and account, as are the jobs that
\* create them; removed is history: the merchant took a row away.
CustomerKey == Username \X Optional(Account)

Idle == [step |-> "idle"]

Task ==
    {Idle}
    \cup [step : {"findByMemo", "loadAccount", "insert", "refind"}, draft : Row]
    \cup [step : {"patch"}, user : Username, id : Id, patch : Patch]
    \cup [step : {"removeStatus", "delete"}, user : Username, id : Id]
    \cup [step : {"verify"}, user : Username, id : Id, hash : Hash, seen : Row]
    \cup [step : {"markRead"}, user : Username, id : Id, hash : Hash, payer : Account]
    \cup [step : {"markWrite"}, user : Username, id : Id, hash : Hash,
          payer : Account, source : Optional(Account)]
    \cup [step : {"markFailed"}, user : Username, id : Id, hash : Hash]
    \cup [step : {"emit"}, event : Event, payer : Optional(Account)]

ASSUME ServiceAssumption ==
    /\ Listed \subseteq Optional(Account)
    /\ NULL \notin Account \cup Hash /\ NULL \notin Row
    /\ Tx \subseteq Hash
    /\ MaxIntents \in Nat /\ MaxRequests \in Nat /\ MaxFaults \in Nat
    /\ Requests \cap Observers = {}
    /\ DefaultNetwork \in Network
    /\ Caller \subseteq [username : Username, environment : {"prod", "dev", NULL}]
    /\ Patch \subseteq [status : Optional(Status), setsHash : BOOLEAN, txHash : Optional(Hash)]
    /\ \A order \in Order :
          /\ order.kind \in {"TX", "PAY"}
          /\ order.source \in IF order.kind = "TX" THEN Account ELSE {NULL}
          /\ order.destination \in Account
          /\ order.assetCode \in AssetCode \cup {NULL, "XLM", "native"}
          /\ order.assetIssuer \in Optional(Account)
          /\ order.amount \in Optional(Nat)
    /\ \A t \in Tx : \A k \in DOMAIN TxRecord[t].ops :
          TxRecord[t].ops[k].from \in Account

VARIABLES
    intents,    \* payment_intent: a row, or NULL, for every id
    issued,     \* how many ids were given out
    overdue,    \* ids whose expiresAt lies in the past
    consumers,  \* consumer: usernames that have a row
    customers,  \* customer: rows, and jobs creating them, per owner and account
    ledger,     \* transactions in the order the networks closed them
    task,       \* what each handler in progress awaits
    events,     \* every WEBHOOK_EVENT put on the event bus
    received,   \* requests received so far
    faults,     \* failures so far
    answers,    \* history: the intent each create request was answered with
    patched     \* history: ids whose status or hash the client wrote last

dbVars      == <<intents, issued, consumers>>
historyVars == <<answers, patched>>
serviceVars == <<intents, issued, overdue, consumers, customers, ledger, task,
                 events, received, faults, answers, patched>>

ServiceInit ==
    /\ intents = [i \in Id |-> NULL]
    /\ issued = 0
    /\ overdue = {}
    /\ consumers = {}
    /\ customers = [k \in CustomerKey |-> [finding |-> 0, creating |-> 0, rows |-> 0,
                                        removed |-> FALSE]]
    /\ ledger = <<>>
    /\ task = [p \in Proc |-> Idle]
    /\ events = {}
    /\ received = 0
    /\ faults = 0
    /\ answers = {}
    /\ patched = {}

Stored == {i \in Id : intents[i] # NULL}

-----------------------------------------------------------------------------
(***************************************************************************)
(* Helpers of the service.                                                 *)
(***************************************************************************)
ResolveNetwork(c) ==
    IF c.environment = "prod" THEN "public"
    ELSE IF c.environment = "dev" THEN "testnet"
    ELSE DefaultNetwork

IsNative(order) == order.assetCode \in {NULL, "XLM", "native"}

\* resolveAsset and resolveMemo throw on anything else.
Acceptable(order) ==
    /\ ~IsNative(order) => order.assetIssuer # NULL
    /\ order.memo \in Optional(Memo)

\* The row an order asks for; a memo is generated when the order has none.
Drafts(c, order) ==
    {[owner |-> c.username, memo |-> m, network |-> ResolveNetwork(c),
      kind |-> order.kind, destination |-> order.destination,
      asset |-> IF IsNative(order) THEN "native" ELSE order.assetCode,
      assetIssuer |-> IF IsNative(order) THEN NULL ELSE order.assetIssuer,
      amount |-> order.amount, source |-> order.source,
      status |-> "PENDING", txHash |-> NULL] :
        m \in IF order.memo = NULL THEN Memo ELSE {order.memo}}

FindByMemo(owner, memo) ==
    {i \in Stored : intents[i].owner = owner /\ intents[i].memo = memo}

\* The unique constraint on (consumerId, memo) refuses an insert.
MemoTaken_NoConstraint(draft) == FALSE

MemoTaken(draft) == FindByMemo(draft.owner, draft.memo) # {}

\* The unique constraint on txHash refuses an update of row i.
HashTaken_NoConstraint(i, hash) == FALSE

HashTaken(i, hash) ==
    hash # NULL /\ \E j \in Stored \ {i} : intents[j].txHash = hash

Owned_AnyConsumer(c, i) == i \in Stored

Owned(c, i) == i \in Stored /\ intents[i].owner = c.username

StatusEvent_SameName(status) == status

StatusEvent(status) ==
    IF status \in {"SUCCEEDED", "FAILED", "CANCELLED"} THEN status ELSE "UPDATED"

EventFor(type, user, i, row) ==
    [type |-> type, user |-> user, id |-> i, owner |-> row.owner,
     memo |-> row.memo, declared |-> FALSE]

Emitting(type, user, i, row) ==
    [step |-> "emit", event |-> EventFor(type, user, i, row), payer |-> NULL]

\* The client itself is the source of what a PATCH announces.
Declaring(type, user, i, row) ==
    [Emitting(type, user, i, row) EXCEPT !.event.declared = TRUE]

\* markSucceeded also starts the job that records the payer as a customer.
Settling_Generic(user, i, row, payer) ==
    [Emitting("UPDATED", user, i, row) EXCEPT !.payer = payer]

Settling_NoCustomer(user, i, row, payer) == Emitting("SUCCEEDED", user, i, row)

Settling(user, i, row, payer) ==
    [Emitting("SUCCEEDED", user, i, row) EXCEPT !.payer = payer]

Goto(p, t) == task' = [task EXCEPT ![p] = t]

WriteRow(i, row) == intents' = [intents EXCEPT ![i] = row]

Receive(p, route) ==
    /\ p \in Requests /\ task[p] = Idle
    /\ route \in Route
    /\ received < MaxRequests
    /\ received' = received + 1

-----------------------------------------------------------------------------
(***************************************************************************)
(* POST /payment-intents/tx and /pay: createTx, createPay and persist.     *)
(***************************************************************************)
Create(p, c, order) ==
    /\ Receive(p, "create")
    /\ consumers' = consumers \cup {c.username}
    /\ IF Acceptable(order)
       THEN \E draft \in Drafts(c, order) :
               Goto(p, [step |-> "findByMemo", draft |-> draft])
       ELSE task' = task
    /\ UNCHANGED <<intents, issued, overdue, customers, ledger, events, faults, historyVars>>

Answer(draft, i) == answers' = answers \cup {[user |-> draft.owner, memo |-> draft.memo, id |-> i]}

CheckMemo(p) ==
    /\ task[p].step = "findByMemo"
    /\ LET draft == task[p].draft
           found == FindByMemo(draft.owner, draft.memo)
       IN  IF found = {}
           THEN /\ Goto(p, [step |-> IF draft.kind = "TX" THEN "loadAccount" ELSE "insert",
                            draft |-> draft])
                /\ UNCHANGED answers
           ELSE /\ \E i \in found : Answer(draft, i)
                /\ Goto(p, Idle)
    /\ UNCHANGED <<dbVars, overdue, customers, ledger, events, received, faults, patched>>

LoadAccount(p) ==
    /\ task[p].step = "loadAccount"
    /\ Goto(p, [step |-> "insert", draft |-> task[p].draft])
    /\ UNCHANGED <<dbVars, overdue, customers, ledger, events, received, faults, historyVars>>

Insert(p) ==
    /\ task[p].step = "insert"
    /\ LET draft == task[p].draft
       IN  IF MemoTaken(draft)
           THEN /\ Goto(p, [step |-> "refind", draft |-> draft])
                /\ UNCHANGED <<intents, issued>>
           ELSE /\ issued < MaxIntents
                /\ issued' = issued + 1
                /\ WriteRow(issued + 1, draft)
                /\ Goto(p, Emitting("CREATED", draft.owner, issued + 1, draft))
    /\ UNCHANGED <<overdue, consumers, customers, ledger, events, received, faults, historyVars>>

\* The fallback after a refused insert; a row that is gone again is an error.
Refind(p) ==
    /\ task[p].step = "refind"
    /\ LET draft == task[p].draft
           found == FindByMemo(draft.owner, draft.memo)
       IN  IF found = {} THEN UNCHANGED answers ELSE \E i \in found : Answer(draft, i)
    /\ Goto(p, Idle)
    /\ UNCHANGED <<dbVars, overdue, customers, ledger, events, received, faults, patched>>

-----------------------------------------------------------------------------
(***************************************************************************)
(* PATCH /payment-intents/:id: update.  A patch need not carry a status; a *)
(* hash that it sets may be null.  A patch of the reference only rewrites  *)
(* nothing modelled here.                                                  *)
(***************************************************************************)
Update(p, c, i, patch) ==
    /\ Receive(p, "update")
    /\ Owned(c, i)
    /\ Goto(p, [step |-> "patch", user |-> c.username, id |-> i, patch |-> patch])
    /\ UNCHANGED <<dbVars, overdue, customers, ledger, events, faults, historyVars>>

PatchWrite(p) ==
    /\ task[p].step = "patch"
    /\ LET i     == task[p].id
           patch == task[p].patch
           row   == [intents[i] EXCEPT
                        !.status = IF patch.status = NULL THEN @ ELSE patch.status,
                        !.txHash = IF patch.setsHash THEN patch.txHash ELSE @]
           type  == IF patch.status = NULL THEN "UPDATED" ELSE StatusEvent(patch.status)
       IN  IF i \in Stored /\ ~(patch.setsHash /\ HashTaken(i, patch.txHash))
           THEN /\ WriteRow(i, row)
                /\ patched' = IF patch.status = NULL /\ ~patch.setsHash
                              THEN patched ELSE patched \cup {i}
                /\ Goto(p, Declaring(type, task[p].user, i, row))
           ELSE Goto(p, Idle) /\ UNCHANGED <<intents, patched>>
    /\ UNCHANGED <<issued, overdue, consumers, customers, ledger, events, received, faults, answers>>

(***************************************************************************)
(* DELETE /payment-intents/:id: remove.                                    *)
(***************************************************************************)
Remove(p, c, i) ==
    /\ Receive(p, "remove")
    /\ Owned(c, i)
    /\ Goto(p, [step |-> "removeStatus", user |-> c.username, id |-> i])
    /\ UNCHANGED <<dbVars, overdue, customers, ledger, events, faults, historyVars>>

IsPaid(i) == i \in Stored /\ intents[i].status = "SUCCEEDED"

RemoveStatus(p) ==
    /\ task[p].step = "removeStatus"
    /\ Goto(p, IF IsPaid(task[p].id) THEN Idle
               ELSE [step |-> "delete", user |-> task[p].user, id |-> task[p].id])
    /\ UNCHANGED <<dbVars, overdue, customers, ledger, events, received, faults, historyVars>>

Delete(p) ==
    /\ task[p].step = "delete"
    /\ LET i == task[p].id
       IN  IF i \in Stored
           THEN /\ WriteRow(i, NULL)
                /\ Goto(p, Emitting("DELETED", task[p].user, i, intents[i]))
           ELSE Goto(p, Idle) /\ UNCHANGED intents
    /\ UNCHANGED <<issued, overdue, consumers, customers, ledger, events, received, faults, historyVars>>

-----------------------------------------------------------------------------
(***************************************************************************)
(* POST /payment-intents/:id/validate: validate.  A settled intent is      *)
(* returned as it is.                                                      *)
(***************************************************************************)
Validate(p, c, i, hash) ==
    /\ Receive(p, "validate")
    /\ Owned(c, i)
    /\ Goto(p, IF IsPaid(i) THEN Idle
               ELSE [step |-> "verify", user |-> c.username, id |-> i,
                     hash |-> hash, seen |-> intents[i]])
    /\ UNCHANGED <<dbVars, overdue, customers, ledger, events, faults, historyVars>>

Marking(user, i, hash, payer) ==
    [step |-> "markRead", user |-> user, id |-> i, hash |-> hash, payer |-> payer]

Verify(p) ==
    /\ task[p].step = "verify"
    /\ LET t       == task[p]
           verdict == VerdictByHash(t.seen, t.hash, ledger)
       IN  \/ /\ verdict = "valid"
              /\ \E payer \in PayersByHash(t.seen, t.hash) :
                    Goto(p, Marking(t.user, t.id, t.hash, payer))
           \/ /\ verdict = "failed"
              /\ Goto(p, [step |-> "markFailed", user |-> t.user, id |-> t.id, hash |-> t.hash])
           \/ /\ verdict \notin {"valid", "failed"}
              /\ Goto(p, Idle)
    /\ UNCHANGED <<dbVars, overdue, customers, ledger, events, received, faults, historyVars>>

(***************************************************************************)
(* markSucceeded (validate and the observer) and markFailed (validate).    *)
(* A row that is gone, or a hash another row holds, is a database error.   *)
(***************************************************************************)
SourceToSet_Always(i, payer) == payer

SourceToSet_Never(i, payer) == NULL

\* setSource: the payer, unless the row has a source already.
SourceToSet(i, payer) ==
    IF i \in Stored /\ intents[i].source # NULL THEN NULL ELSE payer

MarkRead(p) ==
    /\ task[p].step = "markRead"
    /\ LET t == task[p]
       IN  Goto(p, [step |-> "markWrite", user |-> t.user, id |-> t.id, hash |-> t.hash,
                    payer |-> t.payer, source |-> SourceToSet(t.id, t.payer)])
    /\ UNCHANGED <<dbVars, overdue, customers, ledger, events, received, faults, historyVars>>

MarkWrite(p) ==
    /\ task[p].step = "markWrite"
    /\ LET t   == task[p]
           row == [intents[t.id] EXCEPT
                      !.status = "SUCCEEDED", !.txHash = t.hash,
                      !.source = IF t.source = NULL THEN @ ELSE t.source]
       IN  IF t.id \in Stored /\ ~HashTaken(t.id, t.hash)
           THEN /\ WriteRow(t.id, row)
                /\ patched' = patched \ {t.id}
                /\ Goto(p, Settling(t.user, t.id, row, t.payer))
           ELSE Goto(p, Idle) /\ UNCHANGED <<intents, patched>>
    /\ UNCHANGED <<issued, overdue, consumers, customers, ledger, events, received, faults, answers>>

FailWrite(p) ==
    /\ task[p].step = "markFailed"
    /\ LET t   == task[p]
           row == [intents[t.id] EXCEPT !.status = "FAILED", !.txHash = t.hash]
       IN  IF t.id \in Stored /\ ~HashTaken(t.id, t.hash)
           THEN /\ WriteRow(t.id, row)
                /\ patched' = patched \ {t.id}
                /\ Goto(p, Emitting("FAILED", t.user, t.id, row))
           ELSE Goto(p, Idle) /\ UNCHANGED <<intents, patched>>
    /\ UNCHANGED <<issued, overdue, consumers, customers, ledger, events, received, faults, answers>>

-----------------------------------------------------------------------------
(***************************************************************************)
(* The code after a write: emit, then the answer and, for a settlement,    *)
(* the fire-and-forget upsertCustomerFromPayment.  Jobs of one owner and   *)
(* account differ in nothing but how far they are, so they are counted.    *)
(***************************************************************************)
Emit(p) ==
    /\ task[p].step = "emit"
    /\ LET e == task[p].event
       IN  /\ events' = events \cup {e}
           /\ answers' = IF e.type = "CREATED"
                         THEN answers \cup {[user |-> e.user, memo |-> e.memo, id |-> e.id]}
                         ELSE answers
           /\ IF task[p].payer = NULL
              THEN UNCHANGED customers
              ELSE customers' = [customers EXCEPT ![<<e.owner, task[p].payer>>].finding = @ + 1]
    /\ Goto(p, Idle)
    /\ UNCHANGED <<dbVars, overdue, ledger, received, faults, patched>>

CustomerFind(key) ==
    /\ customers[key].finding > 0
    /\ customers' = [customers EXCEPT
          ![key].finding  = @ - 1,
          ![key].creating = IF customers[key].rows = 0 THEN @ + 1 ELSE @]
    /\ UNCHANGED <<dbVars, overdue, ledger, task, events, received, faults, historyVars>>

CustomerCreate(key) ==
    /\ customers[key].creating > 0
    /\ customers' = [customers EXCEPT ![key].creating = @ - 1, ![key].rows = @ + 1]
    /\ UNCHANGED <<dbVars, overdue, ledger, task, events, received, faults, historyVars>>

-----------------------------------------------------------------------------
(***************************************************************************)
(* The merchant's own routes on customers                                  *)
(* (src/customers/customers.service.ts).  A row found to be the caller's   *)
(* is written by its id alone: owners never change and ids are not reused, *)
(* so the write can only miss a row that is gone, as if it were not found. *)
(* A call that fails leaves no more than the consumer row behind.          *)
(***************************************************************************)
WithRow(counts, key) == [counts EXCEPT ![key].rows = @ + 1]

WithoutRow(counts, key) == [counts EXCEPT ![key].rows = @ - 1, ![key].removed = TRUE]

AddCustomer(p, c, account) ==
    /\ Receive(p, "customers")
    /\ consumers' = consumers \cup {c.username}
    /\ customers' = WithRow(customers, <<c.username, account>>)
    /\ UNCHANGED <<intents, issued, overdue, ledger, task, events, faults, historyVars>>

HasCustomer(c, account) == customers[<<c.username, account>>].rows > 0

DropCustomer(p, c, account) ==
    /\ Receive(p, "customers")
    /\ consumers' = consumers \cup {c.username}
    /\ IF HasCustomer(c, account)
       THEN customers' = WithoutRow(customers, <<c.username, account>>)
       ELSE UNCHANGED customers
    /\ UNCHANGED <<intents, issued, overdue, ledger, task, events, faults, historyVars>>

\* A PATCH that changes the account; it may also take the account away.
EditCustomer(p, c, account, new) ==
    /\ Receive(p, "customers")
    /\ consumers' = consumers \cup {c.username}
    /\ IF HasCustomer(c, account)
       THEN customers' = WithRow(WithoutRow(customers, <<c.username, account>>),
                                 <<c.username, new>>)
       ELSE UNCHANGED customers
    /\ UNCHANGED <<intents, issued, overdue, ledger, task, events, faults, historyVars>>

CustomerRoute(p, c, account) ==
    \/ AddCustomer(p, c, account) \/ DropCustomer(p, c, account)
    \/ \E new \in Listed : EditCustomer(p, c, account, new)

-----------------------------------------------------------------------------
(***************************************************************************)
(* Failures and the environment.  A call that rejects ends the handler; at *)
(* "emit" the write did commit and only its reply was lost.                *)
(***************************************************************************)
Fault == faults < MaxFaults /\ faults' = faults + 1

CallFails(p) ==
    /\ task[p] # Idle
    /\ Fault
    /\ Goto(p, Idle)
    /\ UNCHANGED <<dbVars, overdue, customers, ledger, events, received, historyVars>>

\* Logged and forgotten: the settlement stands without its customer.
CustomerFails(key) ==
    /\ Fault
    /\ \/ customers[key].finding > 0 /\ customers' = [customers EXCEPT ![key].finding = @ - 1]
       \/ customers[key].creating > 0 /\ customers' = [customers EXCEPT ![key].creating = @ - 1]
    /\ UNCHANGED <<dbVars, overdue, ledger, task, events, received, historyVars>>

\* The time passes at which row i expires.
Lapse(i) ==
    /\ i \in Stored \ overdue
    /\ overdue' = overdue \cup {i}
    /\ UNCHANGED <<dbVars, customers, ledger, task, events, received, faults, historyVars>>

\* A Stellar network closes a ledger with transaction t in it.
Land(t) ==
    /\ t \notin Landed(ledger)
    /\ ledger' = Append(ledger, t)
    /\ UNCHANGED <<dbVars, overdue, customers, task, events, received, faults, historyVars>>

\* The next step of handler p, whichever call it awaits.
Continue(p) ==
    \/ CheckMemo(p) \/ LoadAccount(p) \/ Insert(p) \/ Refind(p)
    \/ PatchWrite(p) \/ RemoveStatus(p) \/ Delete(p)
    \/ Verify(p) \/ MarkRead(p) \/ MarkWrite(p) \/ FailWrite(p)
    \/ Emit(p)

CustomerJob(key) == CustomerFind(key) \/ CustomerCreate(key)

ServiceNext ==
    \/ \E p \in Requests, c \in Caller :
          \/ \E order \in Order : Create(p, c, order)
          \/ \E i \in Id :
                \/ \E patch \in Patch : Update(p, c, i, patch)
                \/ Remove(p, c, i)
                \/ \E hash \in Hash \ {""} : Validate(p, c, i, hash)
          \/ \E account \in Listed : CustomerRoute(p, c, account)
    \/ \E p \in Proc : Continue(p) \/ CallFails(p)
    \/ \E key \in CustomerKey : CustomerJob(key) \/ CustomerFails(key)
    \/ \E i \in Id : Lapse(i)
    \/ \E t \in Tx : Land(t)

-----------------------------------------------------------------------------
ServiceTypeOK ==
    /\ intents \in [Id -> Row \cup {NULL}]
    /\ issued \in 0..MaxIntents
    /\ overdue \subseteq Id
    /\ consumers \subseteq Username
    /\ customers \in [CustomerKey -> [finding : Nat, creating : Nat, rows : Nat,
                                      removed : BOOLEAN]]
    /\ ledger \in Seq(Tx)
    /\ task \in [Proc -> Task]
    /\ events \subseteq Event
    /\ received \in 0..MaxRequests
    /\ faults \in 0..MaxFaults
    /\ answers \subseteq [user : Username, memo : Memo, id : Id]
    /\ patched \subseteq Id
=============================================================================
