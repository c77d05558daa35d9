------------------------------ MODULE RelayProofs ------------------------------
(***************************************************************************)
(* Proof that integrators are told of real payments only, with service,    *)
(* observer and dispatcher running side by side.  A report is true when a  *)
(* handler writes the row it is about (SettlementInv, LifecycleInv), and   *)
(* stays true while it waits on the bus and in the retry loops, because    *)
(* rows keep what was asked for and landed transactions stay.              *)
(***************************************************************************)
EXTENDS EventRelay, LifecycleProofs

\* The shape of the dispatcher's data, as far as the argument needs it.
Shape ==
    /\ registered \in Nat /\ bus \in Seq(D!Payload)
    /\ DOMAIN endpoints = D!EndpointId /\ DOMAIN deliveries = D!Delivery
    /\ DOMAIN posts = D!Delivery /\ DOMAIN sending = D!Sender
    /\ \A n \in D!EndpointId : D!Live(n) => "owner" \in DOMAIN endpoints[n]
    /\ \A w \in D!Sender : sending[w] # D!Idle =>
          "delivery" \in DOMAIN sending[w] /\ sending[w].delivery \in D!Delivery

-----------------------------------------------------------------------------
(***************************************************************************)
(* The steps of the composition are steps of the service and the observer. *)
(***************************************************************************)
LEMMA ServicePart == RelaySpec => Spec
<1>1. RelayInit => Init
  BY DEF RelayInit
<1>2. [RelayNext]_relayVars => [Next]_vars
  BY DEF RelayNext, ServerStep, DispatcherStep, RelayCrash, Next, relayVars
<1>3. QED
  BY <1>1, <1>2, PTL DEF RelaySpec, Spec

LEMMA RowsAreKept ==
    ASSUME TypeOK, TypeOK', SettlementInv, [Next]_vars
    PROVE  RowsKept /\ LedgerKept
<1>1. TermsKept /\ TimeKept
  BY SettlementStep, TimePasses DEF SafeStep
<1>2. \A i \in Id : i <= issued => i \in 1..issued
  BY Bounds DEF Id, TypeOK, ServiceTypeOK
<1>3. QED
  BY <1>1, <1>2 DEF RowsKept, TermsKept, SameTerms, TimeKept

-----------------------------------------------------------------------------
(***************************************************************************)
(* Reports in the hands of the service.                                    *)
(***************************************************************************)
LEMMA ReportStays ==
    ASSUME TypeOK, TypeOK', RowsKept, LedgerKept, NEW e \in Event, ReportTrue(e)
    PROVE  ReportTrue(e)'
<1>1. e.id \in Id /\ e.id \in Nat /\ issued \in Nat /\ issued' \in Nat
  BY Bounds DEF TypeOK, ServiceTypeOK, Id, Event
<1>2. e.user = e.owner /\ e.id <= issued'
  BY <1>1 DEF ReportTrue, RowsKept
<1>3. ASSUME e.type = "SUCCEEDED", ~e.declared
      PROVE  \E t \in Landed(ledger') :
                /\ TxRecord[t].successful /\ TxRecord[t].memo = e.memo
                /\ intents'[e.id] # NULL => Fulfils(t, intents'[e.id])
  <2>1. PICK t \in Landed(ledger) :
            /\ TxRecord[t].successful /\ TxRecord[t].memo = e.memo
            /\ e.id \in Stored => Fulfils(t, intents[e.id])
    BY <1>3 DEF ReportTrue
  <2>2. ASSUME intents'[e.id] # NULL PROVE Fulfils(t, intents'[e.id])
    BY <1>1, <2>1, <2>2, FulfilsRequest DEF RowsKept, ReportTrue, Stored
  <2>3. QED
    BY <2>1, <2>2 DEF LedgerKept
<1>4. QED
  BY <1>2, <1>3 DEF ReportTrue, Stored

\* The one step after which a handler has a settlement to report.
LEMMA SettlementReported ==
    ASSUME TypeOK, SettlementInv, NEW p \in Proc, MarkWrite(p), task'[p].step = "emit"
    PROVE  \E t \in Landed(ledger') :
              LET e == task'[p].event
              IN  /\ TxRecord[t].successful /\ TxRecord[t].memo = e.memo
                  /\ intents'[e.id] # NULL => Fulfils(t, intents'[e.id])
<1> DEFINE t    == task[p]
           i    == t.id
           old  == intents[i]
           row  == [old EXCEPT !.status = "SUCCEEDED", !.txHash = t.hash,
                               !.source = IF t.source = NULL THEN @ ELSE t.source]
           next == Settling(t.user, i, row, t.payer)
<1>1. /\ task \in [Proc -> Task] /\ t \in Task /\ TaskOK(t) /\ t.step = "markWrite"
      /\ UNCHANGED ledger
  BY DEF TypeOK, ServiceTypeOK, SettlementInv, BeliefsHold, MarkWrite
<1>2. i \in Stored /\ WriteRow(i, row) /\ Goto(p, next)
  BY <1>1 DEF MarkWrite, Goto, Idle
<1>3. old \in Row /\ t.hash \in Hash /\ t.source \in Optional(Account)
  BY <1>1, <1>2, MarkTask DEF TypeOK, ServiceTypeOK, Stored
<1>4. t.hash \in Landed(ledger) /\ Fulfils(t.hash, old)
  BY <1>1, <1>2 DEF TaskOK
<1>5. SameRequest(old, row)
  <2> DEFINE h == t.hash
             a == t.source
  <2>1. row = [old EXCEPT !.status = "SUCCEEDED", !.txHash = h,
                          !.source = IF a = NULL THEN @ ELSE a]
    OBVIOUS
  <2> HIDE DEF old, h, a, row
  <2>2. QED
    BY <1>3, <2>1 DEF Row, SameRequest
<1>6. Fulfils(t.hash, row)
  BY <1>4, <1>5, FulfilsRequest
<1>7. intents'[i] = row /\ task'[p] = next
  BY <1>1, <1>2 DEF TypeOK, ServiceTypeOK, WriteRow, Goto, Stored
<1>8. next.event = EventFor("SUCCEEDED", t.user, i, row)
  BY DEF Settling, Emitting
<1>9. TxRecord[t.hash].successful /\ TxRecord[t.hash].memo = row.memo
  BY <1>6 DEF Fulfils
<1> HIDE DEF row, next
<1>10. QED
  BY <1>1, <1>4, <1>6, <1>7, <1>8, <1>9 DEF EventFor

\* Every other step that makes a handler emit reports something else, or what
\* the client declares.
LEMMA NothingElseSettles ==
    ASSUME TypeOK, [Next]_vars, NEW q \in Proc, task'[q] # task[q], task'[q].step = "emit",
           task'[q].event.type = "SUCCEEDED", ~task'[q].event.declared
    PROVE  MarkWrite(q)
<1> USE DEF TypeOK, ServiceTypeOK
<1>1. ASSUME NEW p \in Proc, NEW t, Goto(p, t)
      PROVE  p = q /\ task'[q] = t
  BY <1>1 DEF Goto
<1>2. ASSUME NEW p \in Proc, NEW t, Goto(p, t),
             t.step # "emit" \/ t.event.type # "SUCCEEDED" \/ t.event.declared
      PROVE  FALSE
  BY <1>1, <1>2
<1>3. \A type, user, i, row : Emitting(type, user, i, row).event.type = type
  BY DEF Emitting, EventFor
<1>4. Idle.step # "emit"
  BY DEF Idle
<1>5. ASSUME NEW p \in Requests, NEW c \in Caller,
             \/ \E order \in Order : Create(p, c, order)
             \/ \E i \in Id :
                   \/ \E patch \in Patch : Update(p, c, i, patch)
                   \/ Remove(p, c, i)
                   \/ \E hash \in Hash \ {""} : Validate(p, c, i, hash)
             \/ \E account \in Listed : CustomerRoute(p, c, account)
      PROVE  FALSE
  <2>1. p \in Proc
    BY DEF Proc
  <2>2. ASSUME NEW order \in Order, Create(p, c, order) PROVE FALSE
    BY <2>1, <2>2, <1>2 DEF Create
  <2>3. ASSUME NEW i \in Id, NEW patch \in Patch, Update(p, c, i, patch) PROVE FALSE
    BY <2>1, <2>3, <1>2 DEF Update
  <2>4. ASSUME NEW i \in Id, Remove(p, c, i) PROVE FALSE
    BY <2>1, <2>4, <1>2 DEF Remove
  <2>5. ASSUME NEW i \in Id, NEW hash \in Hash, Validate(p, c, i, hash) PROVE FALSE
    BY <2>1, <2>5, <1>2, <1>4 DEF Validate
  <2>6. ASSUME NEW account \in Listed, CustomerRoute(p, c, account) PROVE FALSE
    BY <2>6 DEF CustomerRoute, AddCustomer, DropCustomer, EditCustomer
  <2>7. QED
    BY <1>5, <2>2, <2>3, <2>4, <2>5, <2>6
<1>6. ASSUME NEW p \in Proc, Continue(p) \/ CallFails(p), ~MarkWrite(p)
      PROVE  FALSE
  <2>1. ASSUME CallFails(p) \/ CheckMemo(p) \/ LoadAccount(p) \/ Refind(p) \/ RemoveStatus(p) \/ Emit(p)
        PROVE  FALSE
    BY <2>1, <1>2, <1>4 DEF CallFails, CheckMemo, LoadAccount, Refind, RemoveStatus, Emit
  <2>2. ASSUME Verify(p) \/ MarkRead(p) PROVE FALSE
    BY <2>2, <1>2, <1>4 DEF Verify, MarkRead, Marking
  <2>3. ASSUME Insert(p) PROVE FALSE
    <3> DEFINE draft == task[p].draft
               told  == Emitting("CREATED", draft.owner, issued + 1, draft)
               again == [step |-> "refind", draft |-> draft]
    <3>1. Goto(p, told) \/ Goto(p, again)
      BY <2>3 DEF Insert
    <3>2. told.event.type # "SUCCEEDED" /\ again.step # "emit"
      BY <1>3
    <3> HIDE DEF told, again
    <3>3. QED
      BY <3>1, <3>2, <1>2
  <2>4. ASSUME Delete(p) PROVE FALSE
    <3> DEFINE told == Emitting("DELETED", task[p].user, task[p].id, intents[task[p].id])
    <3>1. Goto(p, told) \/ Goto(p, Idle)
      BY <2>4 DEF Delete
    <3>2. told.event.type # "SUCCEEDED"
      BY <1>3
    <3> HIDE DEF told
    <3>3. QED
      BY <3>1, <3>2, <1>2, <1>4
  <2>5. ASSUME FailWrite(p) PROVE FALSE
    <3> DEFINE row  == [intents[task[p].id] EXCEPT !.status = "FAILED", !.txHash = task[p].hash]
               told == Emitting("FAILED", task[p].user, task[p].id, row)
    <3>1. Goto(p, told) \/ Goto(p, Idle)
      BY <2>5 DEF FailWrite
    <3>2. told.event.type # "SUCCEEDED"
      BY <1>3
    <3> HIDE DEF told
    <3>3. QED
      BY <3>1, <3>2, <1>2, <1>4
  <2>6. ASSUME PatchWrite(p) PROVE FALSE
    <3> DEFINE patch == task[p].patch
               row   == [intents[task[p].id] EXCEPT
                           !.status = IF patch.status = NULL THEN @ ELSE patch.status,
                           !.txHash = IF patch.setsHash THEN patch.txHash ELSE @]
               type  == IF patch.status = NULL THEN "UPDATED" ELSE StatusEvent(patch.status)
               told  == Declaring(type, task[p].user, task[p].id, row)
    <3>1. told.event.declared
      BY DEF Declaring, Emitting, EventFor
    <3>2. Goto(p, told) \/ Goto(p, Idle)
      BY <2>6 DEF PatchWrite
    <3> HIDE DEF told
    <3>3. QED
      BY <3>1, <3>2, <1>2, <1>4
  <2>7. QED
    BY <1>6, <2>1, <2>2, <2>3, <2>4, <2>5, <2>6 DEF Continue
<1>7. task' # task
  OBVIOUS
<1>8. ASSUME NEW o \in Observers, ObserverStep(o) \/ QueryFails(o) \/ RowFails(o)
      PROVE  FALSE
  <2>1. o \in Proc
    BY DEF Proc
  <2>2. ASSUME ExpireNext(o) PROVE FALSE
    <3>1. PICK t : Goto(o, t) /\ t.event.type # "SUCCEEDED"
      BY <2>2, <1>3, <1>7 DEF ExpireNext
    <3>2. QED
      BY <2>1, <3>1, <1>2
  <2>3. ASSUME ReconcileNext(o) PROVE FALSE
    <3>1. PICK item, m : Goto(o, Marking(item.seen.owner, item.id, m.hash, m.payer))
      BY <2>3, <1>7 DEF ReconcileNext
    <3>2. QED
      BY <2>1, <3>1, <1>2 DEF Marking
  <2>4. QED
    BY <1>8, <1>7, <2>2, <2>3
       DEF ObserverStep, Tick, QueryExpired, QueryPending, EndCycle, QueryFails, RowFails, serviceVars
<1>9. ~Crash
  BY <1>4 DEF Crash
<1>10. ~UNCHANGED vars
  BY <1>7 DEF vars, serviceVars
<1>11. PICK p \in Proc : Continue(p) \/ CallFails(p)
  <2>1. ServiceNext
    BY <1>8, <1>9, <1>10 DEF Next, Step
  <2>2. ASSUME NEW key, CustomerJob(key) \/ CustomerFails(key) PROVE FALSE
    BY <2>2, <1>7 DEF CustomerJob, CustomerFind, CustomerCreate, CustomerFails
  <2>3. ASSUME NEW i, Lapse(i) \/ Land(i) PROVE FALSE
    BY <2>3, <1>7 DEF Lapse, Land
  <2>4. QED
    BY <2>1, <2>2, <2>3, <1>5 DEF ServiceNext
<1>12. MarkWrite(p)
  BY <1>11, <1>6
<1>13. p = q
  <2>1. PICK t : Goto(p, t)
    BY <1>12 DEF MarkWrite
  <2>2. QED
    BY <1>1, <2>1
<1>14. QED
  BY <1>12, <1>13

LEMMA HandlersReportTrue ==
    ASSUME TypeOK, TypeOK', SettlementInv, LifecycleInv, LifecycleInv', [Next]_vars,
           RowsKept, LedgerKept,
           \A p \in Proc : task[p].step = "emit" => ReportTrue(task[p].event),
           NEW q \in Proc, task'[q].step = "emit"
    PROVE  ReportTrue(task[q].event)'
<1>1. task'[q] \in Task /\ task'[q].event \in Event
  BY EmitTask DEF TypeOK, ServiceTypeOK
<1>2. CASE task'[q] = task[q]
  <2>1. task[q].event \in Event /\ ReportTrue(task[q].event)
    BY <1>1, <1>2
  <2>2. \A e \in Event : ReportTrue(e) => ReportTrue(e)'
    BY ReportStays
  <2>3. QED
    BY <1>2, <2>1, <2>2 DEF ReportTrue
<1>3. CASE task'[q] # task[q]
  <2>1. task'[q].event.user = task'[q].event.owner /\ task'[q].event.id <= issued'
    BY DEF LifecycleInv, ActsForOwner, Names
  <2>2. CASE task'[q].event.type = "SUCCEEDED" /\ ~task'[q].event.declared
    BY <1>3, <2>1, <2>2, NothingElseSettles, SettlementReported DEF ReportTrue, Stored
  <2>3. QED
    BY <2>1, <2>2, <1>1 DEF ReportTrue, Event, Stored
<1>4. QED
  BY <1>2, <1>3

-----------------------------------------------------------------------------
(***************************************************************************)
(* Reports in the hands of the dispatcher: pairs of an event and an        *)
(* endpoint of one consumer.                                               *)
(***************************************************************************)
PairInv ==
    /\ waiting \subseteq DOMAIN bus
    /\ \A n \in D!EndpointId : D!Live(n) => n <= registered
    /\ \A d \in D!Delivery : d \in D!Recorded \/ posts[d] > 0 => D!OwnPair(d)
    /\ \A w \in D!Sender : sending[w] # D!Idle => D!OwnPair(sending[w].delivery)

\* Something was, or is being, sent for d.
Addressed(d) ==
    \/ deliveries[d] # NULL \/ posts[d] > 0
    \/ \E w \in D!Sender : sending[w] # D!Idle /\ sending[w].delivery = d

\* An event that is not fanned out yet will be sent to the endpoint.
Announced(d) == d[1] \in waiting /\ D!Wants(d[2], bus[d[1]])

BusKept == DOMAIN bus \subseteq DOMAIN bus' /\ \A k \in DOMAIN bus : bus'[k] = bus[k]

OwnersKept ==
    /\ registered <= registered'
    /\ \A n \in D!EndpointId :
          endpoints'[n] # NULL =>
              \/ n <= registered /\ endpoints[n] # NULL /\ endpoints'[n].owner = endpoints[n].owner
              \/ n = registered + 1 /\ registered' = registered + 1

\* Records and requests are of pairs that a loop had, and a loop has one of an
\* earlier loop or record, or one that the event was for.
TrafficKept ==
    /\ \A d \in D!Delivery : deliveries'[d] # NULL \/ posts'[d] > 0 => Addressed(d)
    /\ \A w \in D!Sender : sending'[w] # D!Idle =>
          LET d == sending'[w].delivery IN Addressed(d) \/ Announced(d)

LEMMA PairsAreOwn ==
    ASSUME Shape, PairInv, NEW d \in D!Delivery, Addressed(d) \/ Announced(d)
    PROVE  D!OwnPair(d)
<1>1. CASE Addressed(d)
  BY <1>1 DEF PairInv, Addressed, D!Recorded
<1>2. CASE Announced(d)
  <2>1. d[1] \in DOMAIN bus /\ D!Wants(d[2], bus[d[1]])
    BY <1>2 DEF PairInv, Announced
  <2>2. QED
    BY <2>1 DEF PairInv, D!Wants, D!OwnPair, D!Live
<1>3. QED
  BY <1>1, <1>2

LEMMA PairsStayOwn ==
    ASSUME Shape, Shape', BusKept, OwnersKept, NEW d \in D!Delivery, D!OwnPair(d)
    PROVE  D!OwnPair(d)'
<1>1. d[2] \in D!EndpointId /\ d[2] \in Nat
  BY DEF D!Delivery, D!EndpointId
<1>2. registered \in Nat /\ registered' \in Nat
  BY DEF Shape
<1>3. QED
  BY <1>1, <1>2 DEF BusKept, OwnersKept, D!OwnPair, D!Live

LEMMA PairsStep ==
    ASSUME Shape, Shape', PairInv, BusKept, OwnersKept, TrafficKept,
           waiting' \subseteq DOMAIN bus'
    PROVE  PairInv'
<1>1. \A d \in D!Delivery : Addressed(d) \/ Announced(d) => D!OwnPair(d)'
  BY PairsAreOwn, PairsStayOwn
<1>2. \A n \in D!EndpointId : D!Live(n)' => n <= registered'
  BY DEF OwnersKept, Shape, D!Live, D!EndpointId
<1>3. \A d \in D!Delivery : (d \in D!Recorded)' \/ posts'[d] > 0 => D!OwnPair(d)'
  BY <1>1 DEF TrafficKept, D!Recorded
<1>4. ASSUME NEW w \in D!Sender, sending'[w] # D!Idle
      PROVE  D!OwnPair(sending[w].delivery)'
  <2>1. PICK d \in D!Delivery : d = sending'[w].delivery
    BY <1>4 DEF Shape
  <2>2. Addressed(d) \/ Announced(d)
    BY <1>4, <2>1 DEF TrafficKept
  <2>3. QED
    BY <1>1, <2>1, <2>2 DEF D!OwnPair, D!Live
<1>5. QED
  BY <1>2, <1>3, <1>4 DEF PairInv

\* What every step of the dispatcher leaves true.
DispatcherKept ==
    Shape' /\ BusKept /\ OwnersKept /\ TrafficKept /\ waiting' \subseteq DOMAIN bus'

LEMMA QuietTraffic ==
    ASSUME Shape, UNCHANGED <<deliveries, sending, posts>>
    PROVE  TrafficKept
BY DEF TrafficKept, Addressed, Shape

LEMMA RegisterKept ==
    ASSUME Shape, PairInv, NEW user \in Username, NEW types, NEW url, D!Register(user, types, url)
    PROVE  DispatcherKept
<1>1. UNCHANGED <<deliveries, bus, waiting, sending, posts>>
  BY DEF D!Register, D!historyVars
<1>2. /\ registered' = registered + 1
      /\ endpoints' = [endpoints EXCEPT ![registered + 1] =
              [owner |-> user, enabled |-> TRUE, types |-> types, url |-> url, secret |-> 0]]
  BY DEF D!Register
<1>3. Shape' /\ OwnersKept
  BY <1>1, <1>2 DEF Shape, OwnersKept, PairInv, D!Live, D!EndpointId
<1>4. QED
  BY <1>1, <1>3, QuietTraffic DEF DispatcherKept, BusKept, PairInv

LEMMA EditsKept ==
    ASSUME Shape, PairInv, NEW user \in Username, NEW n \in D!EndpointId,
           (\E patch \in EndpointPatch : D!Update(user, n, patch)) \/ D!RotateSecret(user, n)
    PROVE  DispatcherKept
<1>1. UNCHANGED <<registered, deliveries, bus, waiting, sending, posts>> /\ D!Live(n)
  BY DEF D!Update, D!RotateSecret, D!Edit, D!historyVars
<1>2. /\ \A m \in D!EndpointId \ {n} : endpoints'[m] = endpoints[m]
      /\ DOMAIN endpoints' = D!EndpointId
      /\ endpoints'[n] # NULL => "owner" \in DOMAIN endpoints'[n] /\ endpoints'[n].owner = endpoints[n].owner
  <2>1. CASE D!RotateSecret(user, n)
    BY <2>1, <1>1 DEF D!RotateSecret, Shape
  <2>2. ASSUME NEW patch \in EndpointPatch, D!Update(user, n, patch)
        PROVE  /\ \A m \in D!EndpointId \ {n} : endpoints'[m] = endpoints[m]
               /\ DOMAIN endpoints' = D!EndpointId
               /\ "owner" \in DOMAIN endpoints'[n] /\ endpoints'[n].owner = endpoints[n].owner
    BY <2>2, <1>1 DEF D!Update, D!Given, Shape
  <2>3. QED
    BY <2>1, <2>2
<1>3. Shape' /\ OwnersKept
  BY <1>1, <1>2 DEF Shape, OwnersKept, PairInv, D!Live, D!EndpointId
<1>4. QED
  BY <1>1, <1>3, QuietTraffic DEF DispatcherKept, BusKept, PairInv

LEMMA RemoveKept ==
    ASSUME Shape, PairInv, NEW user \in Username, NEW n \in D!EndpointId, D!Remove(user, n)
    PROVE  DispatcherKept
<1>1. /\ UNCHANGED <<registered, bus, waiting, sending, posts>>
      /\ endpoints' = [endpoints EXCEPT ![n] = NULL]
      /\ deliveries' = [d \in D!Delivery |-> IF d[2] = n THEN NULL ELSE deliveries[d]]
  BY DEF D!Remove, D!WithoutThoseOf, D!historyVars
<1>2. Shape' /\ OwnersKept
  BY <1>1 DEF Shape, OwnersKept, PairInv, D!Live, D!EndpointId
<1>3. TrafficKept
  BY <1>1 DEF TrafficKept, Addressed, Shape
<1>4. QED
  BY <1>1, <1>2, <1>3 DEF DispatcherKept, BusKept, PairInv

\* A loop goes on with its delivery or ends, and touches no other one.
LEMMA LoopKept ==
    ASSUME Shape, PairInv, NEW w \in D!Sender, NEW t, sending[w] # D!Idle, D!Goto(w, t),
           t = D!Idle \/ ("delivery" \in DOMAIN t /\ t.delivery = sending[w].delivery),
           UNCHANGED <<endpoints, registered, bus, waiting>>,
           DOMAIN deliveries' = D!Delivery, DOMAIN posts' = D!Delivery,
           \A d \in D!Delivery \ {sending[w].delivery} :
               deliveries'[d] = deliveries[d] /\ posts'[d] = posts[d]
    PROVE  DispatcherKept
<1>1. sending' = [sending EXCEPT ![w] = t]
  BY DEF D!Goto
<1>2. Shape'
  BY <1>1 DEF Shape, D!Live
<1>3. TrafficKept
  BY <1>1 DEF TrafficKept, Addressed, Shape
<1>4. QED
  BY <1>2, <1>3 DEF DispatcherKept, BusKept, OwnersKept, PairInv, Shape, D!Live, D!EndpointId

LEMMA SendersKept ==
    ASSUME Shape, PairInv, NEW w \in D!Sender, D!Work(w) \/ D!CallFails(w)
    PROVE  DispatcherKept
<1>1. D!Idle.step = "idle"
  BY DEF D!Idle
<1>2. \A d, target, attempts, tried :
          LET t == D!NextTry(d, target, attempts, tried)
          IN  "delivery" \in DOMAIN t /\ t.delivery = d
  BY DEF D!NextTry, D!Trying, D!Finalizing
<1>3. DOMAIN deliveries = D!Delivery /\ DOMAIN posts = D!Delivery
  BY DEF Shape
<1>4. CASE D!CreateDelivery(w)
  <2> DEFINE d == sending[w].delivery
             t == IF D!Live(d[2]) THEN D!NextTry(d, sending[w].target, 0, 0) ELSE D!Idle
  <2>1. D!Goto(w, t) /\ sending[w] # D!Idle
    BY <1>1, <1>4 DEF D!CreateDelivery
  <2>2. t = D!Idle \/ ("delivery" \in DOMAIN t /\ t.delivery = d)
    BY <1>2
  <2>3. /\ UNCHANGED <<endpoints, registered, bus, waiting, posts>>
        /\ DOMAIN deliveries' = D!Delivery
        /\ \A x \in D!Delivery \ {d} : deliveries'[x] = deliveries[x]
    BY <1>3, <1>4 DEF D!CreateDelivery, D!adminVars, D!historyVars
  <2> HIDE DEF t
  <2>4. QED
    BY <1>3, <2>1, <2>2, <2>3, LoopKept
<1>5. CASE D!FindEndpoint(w)
  <2> DEFINE d == sending[w].delivery
             t == IF D!Live(d[2]) THEN D!NextTry(d, D!TargetOf(d[2]), sending[w].attempts, 0) ELSE D!Idle
  <2>1. D!Goto(w, t) /\ sending[w] # D!Idle
    BY <1>1, <1>5 DEF D!FindEndpoint
  <2>2. t = D!Idle \/ ("delivery" \in DOMAIN t /\ t.delivery = d)
    BY <1>2
  <2>3. UNCHANGED <<endpoints, registered, bus, waiting, posts, deliveries>>
    BY <1>5 DEF D!FindEndpoint, D!adminVars, D!historyVars
  <2> HIDE DEF t
  <2>4. QED
    BY <1>3, <2>1, <2>2, <2>3, LoopKept
<1>6. CASE D!Post(w)
  <2> DEFINE d == sending[w].delivery
             t == [sending[w] EXCEPT !.step = "await", !.attempts = @ + 1, !.tried = @ + 1]
  <2>1. D!Goto(w, t) /\ sending[w] # D!Idle
    BY <1>1, <1>6 DEF D!Post
  <2>2. "delivery" \in DOMAIN t /\ t.delivery = d
    BY <2>1 DEF Shape
  <2>3. /\ UNCHANGED <<endpoints, registered, bus, waiting, deliveries>>
        /\ DOMAIN posts' = D!Delivery
        /\ \A x \in D!Delivery \ {d} : posts'[x] = posts[x]
    BY <1>3, <1>6 DEF D!Post, D!adminVars
  <2> HIDE DEF t
  <2>4. QED
    BY <1>3, <2>1, <2>2, <2>3, LoopKept
<1>7. CASE D!Accepted(w)
  <2> DEFINE d == sending[w].delivery
             t == D!Finalizing(d, "SUCCEEDED", sending[w].attempts)
  <2>1. D!Goto(w, t) /\ sending[w] # D!Idle
    BY <1>1, <1>7 DEF D!Accepted
  <2>2. "delivery" \in DOMAIN t /\ t.delivery = d
    BY DEF D!Finalizing
  <2>3. UNCHANGED <<endpoints, registered, bus, waiting, posts, deliveries>>
    BY <1>7 DEF D!Accepted, D!adminVars
  <2> HIDE DEF t
  <2>4. QED
    BY <1>3, <2>1, <2>2, <2>3, LoopKept
<1>8. CASE D!Refused(w)
  <2> DEFINE t == D!AfterRefusal(sending[w])
  <2>1. D!Goto(w, t) /\ sending[w] # D!Idle
    BY <1>1, <1>8 DEF D!Refused
  <2>2. "delivery" \in DOMAIN t /\ t.delivery = sending[w].delivery
    BY <1>2 DEF D!AfterRefusal
  <2>3. UNCHANGED <<endpoints, registered, bus, waiting, posts, deliveries>>
    BY <1>8 DEF D!Refused, D!adminVars, D!historyVars
  <2> HIDE DEF t
  <2>4. QED
    BY <1>3, <2>1, <2>2, <2>3, LoopKept
<1>9. CASE D!Finalize(w) \/ D!CallFails(w)
  <2>1. D!Goto(w, D!Idle) /\ sending[w] # D!Idle
    BY <1>1, <1>9 DEF D!Finalize, D!CallFails
  <2>2. /\ UNCHANGED <<endpoints, registered, bus, waiting, posts>>
        /\ DOMAIN deliveries' = D!Delivery
        /\ \A x \in D!Delivery \ {sending[w].delivery} : deliveries'[x] = deliveries[x]
    BY <1>3, <1>9 DEF D!Finalize, D!CallFails, D!adminVars, D!historyVars
  <2>3. QED
    BY <1>3, <2>1, <2>2, LoopKept
<1>10. QED
  BY <1>4, <1>5, <1>6, <1>7, <1>8, <1>9 DEF D!Work

LEMMA RedeliverKept ==
    ASSUME Shape, PairInv, NEW r \in Resender, NEW user \in Username, NEW d \in D!Delivery,
           D!Redeliver(r, user, d)
    PROVE  DispatcherKept
<1>1. /\ UNCHANGED <<endpoints, registered, deliveries, bus, waiting, posts>>
      /\ deliveries[d] # NULL
      /\ sending' = [sending EXCEPT ![r] =
              [step |-> "findEndpoint", delivery |-> d, attempts |-> deliveries[d].attempts]]
  BY DEF D!Redeliver, D!Goto, D!adminVars, D!historyVars
<1>2. Shape'
  BY <1>1 DEF Shape, D!Live
<1>3. TrafficKept
  BY <1>1 DEF TrafficKept, Addressed, Shape
<1>4. QED
  BY <1>1, <1>2, <1>3 DEF DispatcherKept, BusKept, OwnersKept, PairInv, Shape, D!Live, D!EndpointId

LEMMA FanOutKept ==
    ASSUME Shape, PairInv, NEW e \in D!EventId, D!FanOut(e) \/ D!FanOutFails(e)
    PROVE  DispatcherKept
<1>1. /\ UNCHANGED <<endpoints, registered, deliveries, bus, posts>>
      /\ waiting' = waiting \ {e} /\ e \in waiting
  BY DEF D!FanOut, D!FanOutFails, D!adminVars, D!historyVars
<1>2. /\ DOMAIN sending' = D!Sender
      /\ \A w \in D!Sender :
            \/ sending'[w] = sending[w]
            \/ /\ w \in D!Delivery /\ w[1] = e /\ D!Wants(w[2], bus[e])
               /\ "delivery" \in DOMAIN sending'[w] /\ sending'[w].delivery = w
  <2>1. CASE D!FanOutFails(e)
    BY <2>1 DEF D!FanOutFails, Shape
  <2>2. CASE D!FanOut(e)
    <3>1. \A n \in D!EndpointId : <<e, n>> \in D!Delivery /\ <<e, n>>[1] = e /\ <<e, n>>[2] = n
      BY DEF D!Delivery
    <3>2. QED
      BY <2>2, <3>1 DEF D!FanOut
  <2>3. QED
    BY <2>1, <2>2
<1>3. Shape'
  BY <1>1, <1>2 DEF Shape, D!Live
<1>4. TrafficKept
  BY <1>1, <1>2 DEF TrafficKept, Addressed, Announced, Shape
<1>5. QED
  BY <1>1, <1>3, <1>4 DEF DispatcherKept, BusKept, OwnersKept, PairInv, Shape, D!Live, D!EndpointId

LEMMA NotifyKept ==
    ASSUME Shape, PairInv, NEW payload \in D!Payload, D!Notify(payload)
    PROVE  DispatcherKept /\ bus' = Append(bus, payload)
<1>1. /\ UNCHANGED <<endpoints, registered, deliveries, sending, posts>>
      /\ bus' = Append(bus, payload) /\ waiting' = waiting \cup {Len(bus) + 1}
  BY DEF D!Notify, D!adminVars, D!historyVars
<1>2. bus \in Seq(D!Payload)
  BY DEF Shape
<1>3. BusKept /\ bus' \in Seq(D!Payload) /\ waiting' \subseteq DOMAIN bus'
  BY <1>1, <1>2 DEF BusKept, PairInv
<1>4. Shape'
  BY <1>1, <1>3 DEF Shape, D!Live
<1>5. QED
  BY <1>1, <1>3, <1>4, QuietTraffic
     DEF DispatcherKept, OwnersKept, PairInv, Shape, D!Live, D!EndpointId

LEMMA CrashKept ==
    ASSUME Shape, PairInv, D!Crash
    PROVE  DispatcherKept
<1>1. /\ UNCHANGED <<endpoints, registered, deliveries, bus, posts>>
      /\ waiting' = {} /\ sending' = [w \in D!Sender |-> D!Idle]
  BY DEF D!Crash, D!adminVars, D!historyVars
<1>2. Shape'
  BY <1>1 DEF Shape, D!Live
<1>3. TrafficKept
  BY <1>1 DEF TrafficKept, Addressed
<1>4. QED
  BY <1>1, <1>2, <1>3 DEF DispatcherKept, BusKept, OwnersKept, PairInv, Shape, D!Live, D!EndpointId

LEMMA DispatcherStepKept ==
    ASSUME Shape, PairInv, D!Step
    PROVE  DispatcherKept /\ bus' = bus
<1>1. bus' = bus
  BY DEF D!Step, D!Register, D!Update, D!RotateSecret, D!Remove, D!Redeliver, D!FanOut, D!FanOutFails,
         D!Work, D!CreateDelivery, D!FindEndpoint, D!Post, D!Accepted, D!Refused, D!Finalize, D!CallFails
<1>2. ASSUME NEW user \in Username, NEW types, NEW url, D!Register(user, types, url)
      PROVE  DispatcherKept
  BY <1>2, RegisterKept
<1>3. ASSUME NEW user \in Username, NEW n \in D!EndpointId,
             \/ \E patch \in EndpointPatch : D!Update(user, n, patch)
             \/ D!RotateSecret(user, n) \/ D!Remove(user, n)
      PROVE  DispatcherKept
  BY <1>3, EditsKept, RemoveKept
<1>4. ASSUME NEW user \in Username, NEW r \in Resender, NEW d \in D!Delivery, D!Redeliver(r, user, d)
      PROVE  DispatcherKept
  BY <1>4, RedeliverKept
<1>5. ASSUME NEW e \in D!EventId, D!FanOut(e) \/ D!FanOutFails(e)
      PROVE  DispatcherKept
  BY <1>5, FanOutKept
<1>6. ASSUME NEW w \in D!Sender, D!Work(w) \/ D!CallFails(w)
      PROVE  DispatcherKept
  BY <1>6, SendersKept
<1>7. QED
  BY <1>1, <1>2, <1>3, <1>4, <1>5, <1>6 DEF D!Step

-----------------------------------------------------------------------------
(***************************************************************************)
(* The two together.                                                       *)
(***************************************************************************)
HandlersTrue == \A p \in Proc : task[p].step = "emit" => ReportTrue(task[p].event)

BusTrue ==
    \A k \in DOMAIN bus :
        LET e == bus[k].data IN bus[k].user = e.owner /\ bus[k].type = e.type /\ ReportTrue(e)

LEMMA RelayParts == RelayInv <=> HandlersTrue /\ BusTrue /\ PairInv
BY DEF RelayInv, HandlersTrue, BusTrue, PairInv

LEMMA InitRelay == ASSUME RelayInit PROVE Shape /\ RelayInv
<1>1. Shape
  BY DEF RelayInit, D!Init, Shape, D!Live
<1>2. PairInv
  BY DEF RelayInit, D!Init, PairInv, D!Live, D!Recorded
<1>3. BusTrue
  BY DEF RelayInit, D!Init, BusTrue
<1>4. HandlersTrue
  BY DEF RelayInit, Init, ServiceInit, HandlersTrue, Idle
<1>5. QED
  BY <1>1, <1>2, <1>3, <1>4, RelayParts

\* What was put on the bus stays true, and so is what a handler adds to it.
LEMMA BusStaysTrue ==
    ASSUME TypeOK, TypeOK', RowsKept, LedgerKept, Shape, BusTrue,
           \/ bus' = bus
           \/ \E e \in Event : ReportTrue(e) /\ bus' = Append(bus, PayloadOf(e))
    PROVE  BusTrue'
<1> SUFFICES ASSUME NEW k \in DOMAIN bus'
             PROVE  LET e == bus'[k].data
                    IN  bus'[k].user = e.owner /\ bus'[k].type = e.type /\ ReportTrue(bus[k].data)'
  BY DEF BusTrue, ReportTrue, Stored
<1>1. PICK e \in Event : ReportTrue(e) /\ bus'[k].data = e /\ bus'[k].user = e.owner /\ bus'[k].type = e.type
  <2>1. bus \in Seq(D!Payload)
    BY DEF Shape
  <2>2. CASE k \in DOMAIN bus
    <3>1. bus'[k] = bus[k] /\ bus[k] \in D!Payload
      BY <2>1, <2>2
    <3>2. bus[k].data \in Event
      BY <3>1 DEF D!Payload
    <3>3. QED
      BY <2>2, <3>1, <3>2 DEF BusTrue
  <2>3. CASE k \notin DOMAIN bus
    <3>1. PICK e \in Event : ReportTrue(e) /\ bus' = Append(bus, PayloadOf(e))
      BY <2>3
    <3>2. bus'[k] = PayloadOf(e)
      BY <2>1, <2>3, <3>1
    <3>3. QED
      BY <3>1, <3>2 DEF PayloadOf, ReportTrue
  <2>4. QED
    BY <2>2, <2>3
<1>2. ReportTrue(e)'
  BY <1>1, ReportStays
<1>3. QED
  BY <1>1, <1>2 DEF ReportTrue, Stored

LEMMA RelayStep ==
    ASSUME TypeOK, TypeOK', SettlementInv, LifecycleInv, LifecycleInv',
           Shape, RelayInv, [RelayNext]_relayVars
    PROVE  Shape' /\ RelayInv'
<1>1. [Next]_vars
  BY DEF RelayNext, ServerStep, DispatcherStep, RelayCrash, Next, relayVars
<1>2. RowsKept /\ LedgerKept
  BY <1>1, RowsAreKept
<1>3. HandlersTrue /\ BusTrue /\ PairInv
  BY RelayParts
<1>4. HandlersTrue'
  BY <1>1, <1>2, <1>3, HandlersReportTrue DEF HandlersTrue
<1>5. /\ DispatcherKept
      /\ \/ bus' = bus
         \/ \E e \in Event : ReportTrue(e) /\ bus' = Append(bus, PayloadOf(e))
  <2>1. CASE DispatcherStep
    BY <2>1, <1>3, DispatcherStepKept DEF DispatcherStep
  <2>2. CASE RelayCrash
    BY <2>2, <1>3, CrashKept DEF RelayCrash, D!Crash
  <2>3. CASE UNCHANGED dispatcherVars
    <3>1. UNCHANGED <<endpoints, registered, deliveries, bus, waiting, sending, posts>>
      BY <2>3 DEF dispatcherVars
    <3>2. Shape'
      BY <3>1 DEF Shape, D!Live
    <3>3. QED
      BY <1>3, <3>1, <3>2, QuietTraffic
         DEF DispatcherKept, BusKept, OwnersKept, PairInv, Shape, D!Live, D!EndpointId
  <2>4. CASE ServerStep
    <3>1. ASSUME NEW p \in Proc, Emits(p), D!Notify(PayloadOf(task[p].event))
          PROVE  DispatcherKept /\ \E e \in Event : ReportTrue(e) /\ bus' = Append(bus, PayloadOf(e))
      <4>1. task[p].event \in Event /\ ReportTrue(task[p].event)
        BY <1>3, <3>1, EmitTask DEF TypeOK, ServiceTypeOK, Emits, HandlersTrue
      <4>2. PayloadOf(task[p].event) \in D!Payload
        BY <4>1 DEF PayloadOf, Event, D!Payload
      <4>3. QED
        BY <1>3, <3>1, <4>1, <4>2, NotifyKept
    <3>2. QED
      BY <2>3, <2>4, <3>1 DEF ServerStep, Relayed
  <2>5. QED
    BY <2>1, <2>2, <2>3, <2>4 DEF RelayNext, relayVars
<1>6. PairInv' /\ Shape'
  BY <1>3, <1>5, PairsStep DEF DispatcherKept
<1>7. BusTrue'
  BY <1>2, <1>3, <1>5, BusStaysTrue
<1>8. QED
  BY <1>4, <1>6, <1>7 DEF RelayInv, HandlersTrue, BusTrue, PairInv

\* Reports are true and addressed to their owner at every point of their way,
\* from the handler to the last retry, a client's own declarations apart.
THEOREM RelayCorrect == RelaySpec => []RelayInv
<1>1. RelaySpec => [](TypeOK /\ SettlementInv /\ LifecycleInv)
  BY ServicePart, TypeCorrect, SettlementCorrect, LifecycleCorrect, PTL
<1>2. TypeOK /\ TypeOK' /\ SettlementInv /\ LifecycleInv /\ LifecycleInv'
          /\ Shape /\ RelayInv /\ [RelayNext]_relayVars
      => Shape' /\ RelayInv'
  BY RelayStep
<1>3. QED
  BY <1>1, <1>2, InitRelay, PTL DEF RelaySpec

\* An integrator is told only of its own payments that it declared itself or that
\* did arrive, however long the event is on its way and whatever is done to intent
\* and endpoint meanwhile.
THEOREM ToldTruthfully == RelaySpec => []ToldOfRealPayments
<1>1. RelayInv => ToldOfRealPayments
  <2> SUFFICES ASSUME RelayInv, NEW d \in Told
               PROVE  LET e == bus[d[1]].data
                      IN  /\ D!Live(d[2]) => endpoints[d[2]].owner = e.owner
                          /\ e.user = e.owner
                          /\ ~e.declared =>
                                \E t \in Landed(ledger) :
                                    /\ TxRecord[t].successful /\ TxRecord[t].memo = e.memo
                                    /\ e.id \in Stored => Fulfils(t, intents[e.id])
    BY DEF ToldOfRealPayments
  <2>1. d \in D!Delivery /\ posts[d] > 0 /\ bus[d[1]].type = "SUCCEEDED"
    BY DEF Told
  <2>2. D!OwnPair(d)
    BY <2>1 DEF RelayInv
  <2>3. QED
    BY <2>1, <2>2 DEF RelayInv, D!OwnPair, ReportTrue
<1>2. QED
  BY <1>1, RelayCorrect, PTL

-----------------------------------------------------------------------------
(***************************************************************************)
(* The steps of the composition are also steps of the dispatcher, so what  *)
(* DispatcherProofs proves of it alone holds of it at work for the service.*)
(***************************************************************************)
DP == INSTANCE DispatcherProofs WITH User <- Username, Data <- Event, task <- sending

\* An event that a handler emits is one the dispatcher's listener expects.
LEMMA EmittedIsPayload ==
    ASSUME TypeOK, NEW p \in Proc, Emits(p)
    PROVE  PayloadOf(task[p].event) \in D!Payload
<1>1. task[p].event \in Event
  BY EmitTask DEF TypeOK, ServiceTypeOK, Emits
<1>2. QED
  BY <1>1 DEF PayloadOf, Event, D!Payload

LEMMA DispatcherPart == RelaySpec => D!Spec
<1>1. RelayInit => D!Init
  BY DEF RelayInit
<1>2. TypeOK /\ [RelayNext]_relayVars => [D!Next]_(D!vars)
  <2> SUFFICES ASSUME TypeOK, [RelayNext]_relayVars PROVE [D!Next]_(D!vars)
    OBVIOUS
  <2>1. CASE ServerStep
    <3>1. ASSUME NEW p \in Proc, Emits(p), D!Notify(PayloadOf(task[p].event)) PROVE D!Next
      BY <3>1, EmittedIsPayload DEF D!Next
    <3>2. ASSUME UNCHANGED dispatcherVars PROVE UNCHANGED D!vars
      BY <3>2 DEF dispatcherVars, D!vars, D!adminVars, D!historyVars
    <3>3. QED
      BY <2>1, <3>1, <3>2 DEF ServerStep, Relayed
  <2>2. CASE DispatcherStep
    BY <2>2 DEF DispatcherStep, D!Next
  <2>3. CASE RelayCrash
    BY <2>3 DEF RelayCrash, D!Next
  <2>4. CASE UNCHANGED relayVars
    BY <2>4 DEF relayVars, dispatcherVars, D!vars, D!adminVars, D!historyVars
  <2>5. QED
    BY <2>1, <2>2, <2>3, <2>4 DEF RelayNext
<1>3. QED
  BY <1>1, <1>2, ServicePart, TypeCorrect, PTL DEF RelaySpec, D!Spec

\* The composition implements both its parts: neither the bus between them nor
\* their crashing together lets the service or the dispatcher do what it would
\* not do alone.
THEOREM PartsImplemented == RelaySpec => Spec /\ D!Spec
BY ServicePart, DispatcherPart, PTL

\* D and DP instantiate the same definitions in the same way.
LEMMA SameDispatcher == D!Spec => DP!Spec
<1> USE DEF
      D!EventId, DP!EventId, D!EndpointId, DP!EndpointId, D!Delivery, DP!Delivery,
      D!Sender, DP!Sender, D!Target, DP!Target, D!Idle, DP!Idle, D!adminVars,
      DP!adminVars, D!historyVars, DP!historyVars, D!vars, DP!vars, D!Init, DP!Init,
      D!Live, DP!Live, D!Goto, DP!Goto, D!TargetOf, DP!TargetOf, D!Register,
      DP!Register, D!Edit, DP!Edit, D!Given, DP!Given, D!Update, DP!Update,
      D!RotateSecret, DP!RotateSecret, D!WithoutThoseOf, DP!WithoutThoseOf, D!Remove,
      DP!Remove, D!Notify, DP!Notify, D!Wants, DP!Wants, D!FanOut, DP!FanOut, D!Trying,
      DP!Trying, D!Finalizing, DP!Finalizing, D!NextTry, DP!NextTry, D!CreateDelivery,
      DP!CreateDelivery, D!Post, DP!Post, D!Accepted, DP!Accepted, D!AfterRefusal,
      DP!AfterRefusal, D!Refused, DP!Refused, D!Finalize, DP!Finalize, D!Redeliver,
      DP!Redeliver, D!FindEndpoint, DP!FindEndpoint, D!Failure, DP!Failure, D!CallFails,
      DP!CallFails, D!FanOutFails, DP!FanOutFails, D!Crash, DP!Crash, D!Work, DP!Work,
      D!Step, DP!Step, D!Next, DP!Next, D!Payload, DP!Payload
<1>1. D!Init => DP!Init
  BY Zenon
<1>2. [D!Next]_(D!vars) => [DP!Next]_(DP!vars)
  BY Zenon
<1>3. QED
  BY <1>1, <1>2, PTL DEF D!Spec, DP!Spec

LEMMA SameInvariants ==
    /\ DP!DeliveryInv => D!DeliveryInv
    /\ DP!BoundedPosts => D!BoundedPosts
<1> USE DEF
      D!EventId, DP!EventId, D!EndpointId, DP!EndpointId, D!Delivery, DP!Delivery,
      D!Sender, DP!Sender, D!Idle, DP!Idle, D!Live, DP!Live, D!Recorded, DP!Recorded,
      D!OwnPair, DP!OwnPair, D!LoopBelievesTrue, DP!LoopBelievesTrue,
      D!AcknowledgedIsReal, DP!AcknowledgedIsReal, D!FailedWasRetried,
      DP!FailedWasRetried, D!NoInventedAttempts, DP!NoInventedAttempts, D!DeliveryInv,
      DP!DeliveryInv, D!BoundedPosts, DP!BoundedPosts
<1>1. DP!DeliveryInv => D!DeliveryInv
  BY Zenon
<1>2. DP!BoundedPosts => D!BoundedPosts
  BY Zenon
<1>3. QED
  BY <1>1, <1>2, Zenon

\* Whatever the service and its observer emit, and however often the process
\* crashes: every delivery record is true, stays with its consumer, and no
\* receiver is asked more often than its tries and redeliveries allow.
THEOREM DispatcherCarried ==
    RelaySpec => [](D!DeliveryInv /\ D!BoundedPosts)
<1>1. DP!DispatcherAssumption
  BY RelayAssumption DEF D!DispatcherAssumption, DP!DispatcherAssumption,
     D!Endpoint, DP!Endpoint, D!Record, DP!Record, D!Delivery, DP!Delivery,
     D!EventId, DP!EventId, D!EndpointId, DP!EndpointId
<1>2. (DP!Spec => []DP!DeliveryInv) /\ (DP!Spec => []DP!BoundedPosts)
  BY <1>1, DP!DeliveriesTrue, DP!PostsBounded
<1>3. QED
  BY <1>2, DispatcherPart, SameDispatcher, SameInvariants, PTL
=============================================================================
