---------------------------- MODULE StellarObserver ----------------------------
(***************************************************************************)
(* The on-chain observer                                                   *)
(* (src/payment-intents/stellar-observer.service.ts) running beside the    *)
(* request handlers of PaymentIntents: on every tick of its timer it       *)
(* expires the overdue intents and then asks the ledger about the pending  *)
(* ones, oldest first.  It works on the rows as its two queries read them. *)
(* An observer is one instance of the class; replicas share the database.  *)
(***************************************************************************)
EXTENDS PaymentIntents

CONSTANT Batch  \* OBSERVER_BATCH_SIZE

ASSUME ObserverAssumption == Batch \in Nat \ {0}

VARIABLE cycle  \* per observer: how far tick() is, and what is left to do

vars == <<serviceVars, cycle>>

\* "off" is running = false; the others are the two queries and the loops
\* over their results.
Phase == {"off", "started", "expiring", "reconciling"}

Snapshot == [id : Id, seen : Row]

Off == [phase |-> "off", todo |-> {}]

Init == ServiceInit /\ cycle = [o \in Observers |-> Off]

InPhase(o, phase) == cycle[o].phase = phase /\ task[o] = Idle

LoopDone(o, phase) == InPhase(o, phase) /\ cycle[o].todo = {}

EnterPhase(o, phase, todo) ==
    cycle' = [cycle EXCEPT ![o] = [phase |-> phase, todo |-> todo]]

Taken(o, item) == cycle' = [cycle EXCEPT ![o].todo = @ \ {item}]

Snapshots(ids) == {[id |-> i, seen |-> intents[i]] : i \in ids}

\* Results of a findMany with take: any of them, or the first ones by id.
Some(ids) ==
    {s \in SUBSET ids : Cardinality(s) = IF Cardinality(ids) < Batch
                                         THEN Cardinality(ids) ELSE Batch}

Oldest(ids) == {i \in ids : Cardinality({j \in ids : j < i}) < Batch}

-----------------------------------------------------------------------------
(***************************************************************************)
(* tick(): a tick that finds the previous cycle running does nothing.      *)
(***************************************************************************)
Tick(o) ==
    /\ cycle[o].phase = "off"
    /\ EnterPhase(o, "started", {})
    /\ UNCHANGED serviceVars

IsExpirable_PendingOnly(i) ==
    i \in Stored \cap overdue /\ intents[i].status = "PENDING"

IsExpirable_AnyAge(i) ==
    i \in Stored /\ intents[i].status \in {"PENDING", "SUBMITTED"}

IsExpirable(i) ==
    i \in Stored \cap overdue /\ intents[i].status \in {"PENDING", "SUBMITTED"}

IsPending(i) == i \in Stored /\ intents[i].status = "PENDING"

QueryExpired(o) ==
    /\ InPhase(o, "started")
    /\ \E ids \in Some({i \in Id : IsExpirable(i)}) :
          EnterPhase(o, "expiring", Snapshots(ids))
    /\ UNCHANGED serviceVars

\* markExpired: the update and, after it, the emit of Continue.
ExpireNext(o) ==
    /\ InPhase(o, "expiring")
    /\ \E item \in cycle[o].todo :
          LET i   == item.id
              row == [intents[i] EXCEPT !.status = "EXPIRED"]
          IN  /\ IF i \in Stored
                 THEN /\ WriteRow(i, row)
                      /\ Goto(o, Emitting("UPDATED", item.seen.owner, i, row))
                 ELSE UNCHANGED <<intents, task>>
              /\ Taken(o, item)
    /\ UNCHANGED <<issued, overdue, consumers, customers, ledger, events, received,
                   faults, historyVars>>

QueryPending(o) ==
    /\ LoopDone(o, "expiring")
    /\ EnterPhase(o, "reconciling", Snapshots(Oldest({i \in Id : IsPending(i)})))
    /\ UNCHANGED serviceVars

(***************************************************************************)
(* reconcile(): by the reported hash when there is one ("" counts as none) *)
(* and by scanning the destination otherwise.  Only a match has an effect; *)
(* a match continues with MarkRead.                                        *)
(***************************************************************************)
MatchesByHash(row) ==
    IF VerdictByHash(row, row.txHash, ledger) = "valid"
    THEN {[hash |-> row.txHash, payer |-> payer] : payer \in PayersByHash(row, row.txHash)}
    ELSE {}

MatchesByScan(row) ==
    {[hash |-> ledger[pos[1]], payer |-> OpAt(pos, ledger).from] : pos \in NewestHit(row, ledger)}

Matches_HashOnly(row) ==
    IF row.txHash \in {NULL, ""} THEN {} ELSE MatchesByHash(row)

Matches(row) ==
    IF row.txHash \in {NULL, ""} THEN MatchesByScan(row) ELSE MatchesByHash(row)

IsNext(item, todo) == item \in todo /\ \A other \in todo : item.id <= other.id

ReconcileNext(o) ==
    /\ InPhase(o, "reconciling")
    /\ \E item \in cycle[o].todo :
          /\ IsNext(item, cycle[o].todo)
          /\ Taken(o, item)
          /\ LET found == Matches(item.seen)
             IN  IF found = {}
                 THEN UNCHANGED task
                 ELSE \E m \in found :
                         Goto(o, Marking(item.seen.owner, item.id, m.hash, m.payer))
    /\ UNCHANGED <<dbVars, overdue, customers, ledger, events, received, faults, historyVars>>

\* The finally block: running becomes false again.
EndCycle(o) ==
    /\ LoopDone(o, "reconciling")
    /\ EnterPhase(o, "off", {})
    /\ UNCHANGED serviceVars

(***************************************************************************)
(* Failures: of a query, which ends the cycle; of the first call made for  *)
(* a row, which skips that row (later ones are CallFails); and of the      *)
(* process, which forgets everything that is not in the database.          *)
(***************************************************************************)
AfterFailure_StillRunning(o) == [phase |-> "running", todo |-> {}]

AfterFailure(o) == Off

QueryFails(o) ==
    /\ InPhase(o, "started") \/ LoopDone(o, "expiring")
    /\ Fault
    /\ cycle' = [cycle EXCEPT ![o] = AfterFailure(o)]
    /\ UNCHANGED <<dbVars, overdue, customers, ledger, task, events, received, historyVars>>

RowFails(o) ==
    /\ InPhase(o, "expiring") \/ InPhase(o, "reconciling")
    /\ \E item \in cycle[o].todo :
          /\ cycle[o].phase = "reconciling" => IsNext(item, cycle[o].todo)
          /\ Taken(o, item)
    /\ Fault
    /\ UNCHANGED <<dbVars, overdue, customers, ledger, task, events, received, historyVars>>

Crash ==
    /\ Fault
    /\ task' = [p \in Proc |-> Idle]
    /\ cycle' = [o \in Observers |-> Off]
    /\ customers' = [k \in DOMAIN customers |->
                        [customers[k] EXCEPT !.finding = 0, !.creating = 0]]
    /\ UNCHANGED <<dbVars, overdue, ledger, events, received, historyVars>>

ObserverStep(o) ==
    \/ Tick(o) \/ QueryExpired(o) \/ ExpireNext(o)
    \/ QueryPending(o) \/ ReconcileNext(o) \/ EndCycle(o)

\* A step of a process that stays up.
Step ==
    \/ ServiceNext /\ UNCHANGED cycle
    \/ \E o \in Observers : ObserverStep(o) \/ QueryFails(o) \/ RowFails(o)

Next == Step \/ Crash

Spec == Init /\ [][Next]_vars

(***************************************************************************)
(* Fairness: a call that is awaited is answered, and the event loop runs   *)
(* its continuation; the timer keeps ticking.  Nothing obliges a client to *)
(* send a request, a payer to pay, or an intent to reach its expiry.       *)
(***************************************************************************)
Fairness ==
    /\ \A p \in Proc : WF_vars(Continue(p) /\ UNCHANGED cycle)
    /\ \A o \in Observers : WF_vars(ObserverStep(o))
    /\ \A key \in CustomerKey : WF_vars(CustomerJob(key) /\ UNCHANGED cycle)

FairSpec == Spec /\ Fairness

-----------------------------------------------------------------------------
(***************************************************************************)
(* Safety.                                                                 *)
(***************************************************************************)
\* Every variable keeps the shape of the data it stands for.
TypeOK ==
    /\ ServiceTypeOK
    /\ cycle \in [Observers -> [phase : Phase, todo : SUBSET Snapshot]]

\* Unless the client itself wrote the status or the hash last, an intent that
\* markSucceeded finalized names a transaction that landed and fulfils it, in
\* spite of the rows and ledgers read several calls before the write.
VerifiedSettlement ==
    \A i \in Stored \ patched :
        intents[i].status = "SUCCEEDED" =>
            /\ intents[i].txHash \in Landed(ledger)
            /\ Fulfils(intents[i].txHash, intents[i])

\* Likewise an intent that validate finalized as FAILED names a transaction
\* of its network that failed, whatever else was decided meanwhile.
VerifiedFailure ==
    \A i \in Stored \ patched :
        intents[i].status = "FAILED" =>
            /\ intents[i].txHash \in OnNetwork(intents[i], ledger)
            /\ ~TxRecord[intents[i].txHash].successful

\* One transaction never settles two stored intents, even when requests and
\* the observer verify it for both at the same time (txHash @unique).
NoDoubleClaim ==
    \A i, j \in Stored :
        intents[i].txHash = intents[j].txHash /\ intents[i].txHash # NULL => i = j

\* Two create requests with the same memo are answered with the same intent
\* unless one of the two was deleted, however their calls interleave.
IdempotentCreate ==
    \A a, b \in answers :
        a.user = b.user /\ a.memo = b.memo =>
            a.id = b.id \/ {a.id, b.id} \cap Stored # {a.id, b.id}

\* No consumer is told of another consumer's intent, whoever changed it.
OwnerScoped == \A e \in events : e.user = e.owner

\* The payer recorded for a settled PAY intent did pay for it: two settlements
\* by different payers may leave the hash of one and the source of the other,
\* never the source of a transaction that does not fulfil the intent.
SourcePaidIt ==
    \A i \in Stored \ patched :
        intents[i].status = "SUCCEEDED" /\ intents[i].kind = "PAY" =>
            \E t \in Landed(ledger) :
                /\ Fulfils(t, intents[i])
                /\ \E k \in DOMAIN TxRecord[t].ops :
                      TxRecord[t].ops[k].from = intents[i].source

\* The observer and the finalizers never expire an intent before its time.
ExpiredOnTime ==
    \A i \in Stored \ patched : intents[i].status = "EXPIRED" => i \in overdue

(***************************************************************************)
(* Action properties.                                                      *)
(***************************************************************************)
\* What the payer was asked for never changes once the intent is stored, and
\* the known payer of a TX intent is never replaced, so that a verdict on an
\* old reading of the row is a verdict on the row.  A deleted id stays deleted.
SameRequest(old, new) ==
    /\ old.owner = new.owner /\ old.memo = new.memo
    /\ old.network = new.network /\ old.kind = new.kind
    /\ old.destination = new.destination /\ old.amount = new.amount
    /\ old.asset = new.asset /\ old.assetIssuer = new.assetIssuer

SameTerms(old, new) ==
    /\ SameRequest(old, new)
    /\ old.kind = "TX" => old.source = new.source

TermsFrozen ==
    [][\A i \in 1..issued :
          intents'[i] # NULL => intents[i] # NULL /\ SameTerms(intents[i], intents'[i])]_vars

(***************************************************************************)
(* The inductive invariant behind VerifiedSettlement and the properties    *)
(* proved with it: what a task still believes, after the row and the       *)
(* ledger it once read have moved on.                                      *)
(***************************************************************************)
\* An old reading of row i still tells what was asked for, if i still exists.
SnapshotFits(i, seen) == i <= issued /\ (i \in Stored => SameRequest(seen, intents[i]))

TaskOK(t) ==
    /\ t.step \in {"findByMemo", "loadAccount", "insert", "refind"} =>
          /\ t.draft.status = "PENDING" /\ t.draft.txHash = NULL
          /\ t.draft.kind = "TX" => t.draft.source # NULL
    /\ t.step = "verify" => SnapshotFits(t.id, t.seen)
    /\ t.step \in {"markRead", "markWrite"} =>
          /\ t.id <= issued /\ t.hash \in Landed(ledger)
          /\ t.id \in Stored => Fulfils(t.hash, intents[t.id])
    /\ t.step = "markWrite" /\ t.source # NULL /\ t.id \in Stored => intents[t.id].kind # "TX"
    /\ t.step = "markFailed" =>
          /\ t.id <= issued /\ t.hash \in Landed(ledger) /\ ~TxRecord[t.hash].successful
          /\ t.id \in Stored => TxRecord[t.hash].network = intents[t.id].network

\* Nothing a handler or the observer still intends to write is out of date.
BeliefsHold ==
    /\ \A p \in Proc : TaskOK(task[p])
    /\ \A o \in Observers : \A item \in cycle[o].todo : SnapshotFits(item.id, item.seen)

IdsCountUp == \A i \in Stored : i <= issued

TxPayerKnown == \A i \in Stored : intents[i].kind = "TX" => intents[i].source # NULL

SettlementInv ==
    /\ IdsCountUp /\ TxPayerKnown /\ BeliefsHold
    /\ VerifiedSettlement /\ VerifiedFailure /\ NoDoubleClaim

(***************************************************************************)
(* The inductive invariant behind the other safety properties: on whose    *)
(* behalf a handler acts, whose payment it has seen, and what it answers.  *)
(***************************************************************************)
\* Intent i, if it still exists, is the user's one with this memo.
Names(user, memo, i) ==
    i <= issued /\ (i \in Stored => intents[i].owner = user /\ intents[i].memo = memo)

PaidFrom(t, account) == \E k \in DOMAIN TxRecord[t].ops : TxRecord[t].ops[k].from = account

\* The user of a handler owns the intent, so that events go to the owner.
ActsForOwner(t) ==
    /\ t.step \in {"patch", "removeStatus", "delete", "verify", "markRead", "markWrite", "markFailed"} =>
          t.id <= issued /\ (t.id \in Stored => intents[t.id].owner = t.user)
    /\ t.step = "emit" =>
          t.event.user = t.event.owner /\ Names(t.event.user, t.event.memo, t.event.id)

\* The payer it will record sent a payment, and it records none only over one.
KnowsPayer(t) ==
    /\ t.step \in {"findByMemo", "loadAccount", "insert", "refind"} =>
          (t.draft.kind = "PAY" => t.draft.source = NULL)
    /\ t.step = "markRead" => PaidFrom(t.hash, t.payer)
    /\ t.step = "markWrite" =>
          IF t.source # NULL THEN PaidFrom(t.hash, t.source)
          ELSE t.id \in Stored => intents[t.id].source # NULL

SourcesPaid ==
    \A i \in Stored :
        intents[i].kind = "PAY" /\ intents[i].source # NULL =>
            \E t \in Landed(ledger) : Fulfils(t, intents[i]) /\ PaidFrom(t, intents[i].source)

SettledHasSource ==
    \A i \in Stored \ patched : intents[i].status = "SUCCEEDED" => intents[i].source # NULL

MemosUnique ==
    \A i, j \in Stored :
        intents[i].owner = intents[j].owner /\ intents[i].memo = intents[j].memo => i = j

\* What the observer has left to expire was overdue when it asked.
DueItems ==
    \A o \in Observers :
        cycle[o].phase = "expiring" => \A item \in cycle[o].todo : item.id \in overdue

\* Every handler, each with its own old reading, acts for the owner of the
\* intent and on a payment of it, every answer names the caller's intent, and
\* the rows bear it out: settled PAY intents have a payer, memos one intent.
LifecycleInv ==
    /\ \A p \in Proc : ActsForOwner(task[p]) /\ KnowsPayer(task[p])
    /\ \A a \in answers : Names(a.user, a.memo, a.id)
    /\ MemosUnique /\ SourcesPaid /\ SettledHasSource /\ DueItems
    /\ OwnerScoped /\ ExpiredOnTime

(***************************************************************************)
(* Liveness.                                                               *)
(***************************************************************************)
\* The guard against overlapping cycles is always released, also by a cycle
\* that fails: the observer never stops observing.
ObserverAlwaysReturns == \A o \in Observers : (cycle[o].phase # "off") ~> (cycle[o].phase = "off")

\* An open intent past its lifetime does not stay open.
OverdueResolved ==
    \A i \in Id :
        (i \in overdue \cap Stored /\ intents[i].status \in {"PENDING", "SUBMITTED"})
            ~> ~(i \in Stored /\ intents[i].status \in {"PENDING", "SUBMITTED"})

IsSettled(i) == i \in Stored \ patched /\ intents[i].status = "SUCCEEDED"

\* While no call fails, every settlement is announced to the integrator.
SettledIsNotified ==
    \A i \in Id : IsSettled(i) ~> (\E e \in events : e.id = i /\ e.type = "SUCCEEDED" /\ ~e.declared)

\* While no call fails, "a successful payment yields a customer (the payer)",
\* whatever the merchant does to customers meanwhile; a payer it deletes later
\* comes back only with another payment.
JustSettled(p, user, t) ==
    LET i == task[p].event.id
    IN  /\ task[p].step = "emit" /\ task[p].event.type = "SUCCEEDED"
        /\ IsSettled(i) /\ intents[i].owner = user /\ intents[i].txHash = t

PayerBecomesCustomer ==
    \A user \in Username, t \in Tx :
        (\E p \in Proc : JustSettled(p, user, t))
            ~> (\E k \in DOMAIN TxRecord[t].ops :
                   customers[<<user, TxRecord[t].ops[k].from>>].rows > 0)

\* A pending intent that is paid does not stay pending, reported or not.
PaidIsResolved ==
    \A i \in Id :
        (IsPending(i) /\ \E t \in Landed(ledger) : Fulfils(t, intents[i]))
            ~> ~IsPending(i)

-----------------------------------------------------------------------------
(***************************************************************************)
(* What comments of the code say of it, and its interleavings refute.      *)
(***************************************************************************)
\* "A paid (SUCCEEDED) intent is an immutable record of a settled payment -
\* it must not be deletable" (remove).
PaidNotDeleted == [][\A i \in Id : IsSettled(i) => intents'[i] # NULL]_vars

\* "Finalizes an unpaid, past-lifetime intent as EXPIRED" (markExpired).
OnlyUnpaidIsExpired ==
    [][\A i \in Id \ patched' :
          IsSettled(i) /\ intents'[i] # NULL => intents'[i].status # "EXPIRED"]_vars
=============================================================================
