------------------------------- MODULE EventRelay -------------------------------
(***************************************************************************)
(* The service, its observer and the webhook dispatcher in one process,    *)
(* joined by the event bus (EventEmitter2 and src/webhooks/webhook-        *)
(* events.ts): the step in which a handler emits is the step that puts the *)
(* event on the bus of the dispatcher, whose listener then runs by itself. *)
(* Each emit is an event of its own, also when it says the same again.     *)
(***************************************************************************)
EXTENDS StellarObserver

CONSTANTS Url, EndpointPatch, Filter, Resender, MaxAttempts,
          MaxEvents, MaxEndpoints, MaxEdits, MaxRedeliveries, MaxFailures

VARIABLES endpoints, registered, deliveries, bus, waiting, sending,
          edits, redelivered, failures, posts, acked

D == INSTANCE WebhookDispatcher WITH User <- Username, Data <- Event, task <- sending

\* What the dispatcher assumes of its constants, events being its data here.
ASSUME RelayAssumption == D!DispatcherAssumption

dispatcherVars == <<endpoints, registered, deliveries, bus, waiting, sending,
                    edits, redelivered, failures, posts, acked>>

relayVars == <<vars, dispatcherVars>>

\* Handler p leaves "emit" by emitting, and not because its call was lost.
Emits(p) == task[p].step = "emit" /\ task'[p] = Idle /\ UNCHANGED faults

PayloadOf_Blank(e) == [user |-> e.user, type |-> "UPDATED", data |-> e]

PayloadOf_AnyUser(e) == [user |-> CHOOSE u \in Username : TRUE, type |-> e.type, data |-> e]

PayloadOf(e) == [user |-> e.user, type |-> e.type, data |-> e]

RelayInit == Init /\ D!Init

\* What the bus does in a step of the service.
Relayed ==
    \/ \E p \in Proc : Emits(p) /\ D!Notify(PayloadOf(task[p].event))
    \/ (\A p \in Proc : ~Emits(p)) /\ UNCHANGED dispatcherVars

ServerStep == Step /\ Relayed

DispatcherStep == D!Step /\ UNCHANGED vars

RelayCrash == Crash /\ D!Crash

RelayNext == ServerStep \/ DispatcherStep \/ RelayCrash

\* The fairness of the two parts.
RelayFairness ==
    /\ \A p \in Proc : WF_relayVars(Continue(p) /\ UNCHANGED cycle /\ Relayed)
    /\ \A o \in Observers : WF_relayVars(ObserverStep(o) /\ Relayed)
    /\ \A e \in D!EventId : WF_relayVars(D!FanOut(e) /\ UNCHANGED vars)
    /\ \A w \in D!Sender : WF_relayVars(D!Work(w) /\ UNCHANGED vars)

RelaySpec == RelayInit /\ [][RelayNext]_relayVars /\ RelayFairness

-----------------------------------------------------------------------------
NoFailure == faults = 0 /\ failures = 0

\* Nothing is told to an integrator that did not happen: the receiver of a
\* SUCCEEDED event owns the intent, and either declared it settled itself, by
\* a PATCH of its own, or a transaction with its memo paid it, whatever became
\* of the intent while the event was on its way.
Told == {d \in D!Delivery : posts[d] > 0 /\ bus[d[1]].type = "SUCCEEDED"}

ToldOfRealPayments ==
    \A d \in Told :
        LET e == bus[d[1]].data
        IN  /\ D!Live(d[2]) => endpoints[d[2]].owner = e.owner
            /\ e.user = e.owner
            /\ ~e.declared =>
                  \E t \in Landed(ledger) :
                      /\ TxRecord[t].successful /\ TxRecord[t].memo = e.memo
                      /\ e.id \in Stored => Fulfils(t, intents[e.id])

\* Event e names an intent that its owner was given, and if it reports a
\* settlement that the owner did not declare, some transaction paid that
\* intent and still fulfils it.
ReportTrue(e) ==
    /\ e.user = e.owner /\ e.id <= issued
    /\ e.type = "SUCCEEDED" /\ ~e.declared =>
          \E t \in Landed(ledger) :
              /\ TxRecord[t].successful /\ TxRecord[t].memo = e.memo
              /\ e.id \in Stored => Fulfils(t, intents[e.id])

\* Inductive: a report is true from the moment a handler holds it until long
\* after its intent is gone, and each loop that carries one, each record of it
\* and each request made for it is between an event and an endpoint of one
\* consumer, whichever of the two processes' tasks move in between.
RelayInv ==
    /\ \A p \in Proc : task[p].step = "emit" => ReportTrue(task[p].event)
    /\ \A k \in DOMAIN bus :
          LET e == bus[k].data IN bus[k].user = e.owner /\ bus[k].type = e.type /\ ReportTrue(e)
    /\ waiting \subseteq DOMAIN bus
    /\ \A n \in D!EndpointId : D!Live(n) => n <= registered
    /\ \A d \in D!Delivery : d \in D!Recorded \/ posts[d] > 0 => D!OwnPair(d)
    /\ \A w \in D!Sender : sending[w] # D!Idle => D!OwnPair(sending[w].delivery)

\* From payment to integrator: when a handler or the observer has settled an
\* intent, a subscribed endpoint of its owner is told, unless it is removed,
\* paused or refiltered meanwhile or a call or the process fails.
Hears(n, i) ==
    /\ D!Live(n) /\ i \in Stored
    /\ endpoints[n].enabled /\ endpoints[n].owner = intents[i].owner
    /\ endpoints[n].types = {} \/ "SUCCEEDED" \in endpoints[n].types

WasTold(n, i) == \E d \in Told : d[2] = n /\ bus[d[1]].data.id = i

SettlementReachesSubscriber ==
    \A i \in Id, n \in D!EndpointId :
        (IsPending(i) /\ Hears(n, i) /\ \E t \in Landed(ledger) : Fulfils(t, intents[i]))
            ~> (WasTold(n, i) \/ ~Hears(n, i)
                  \/ intents[i].status \in {"EXPIRED", "FAILED"} \/ ~NoFailure)

\* While no call fails, a delivery does not stay PENDING.
DeliveriesResolved ==
    \A d \in D!Delivery :
        (d \in D!Recorded /\ deliveries[d].status = "PENDING")
            ~> (d \notin D!Recorded \/ deliveries[d].status # "PENDING" \/ ~NoFailure)
=============================================================================
