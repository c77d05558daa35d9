--------------------------- MODULE WebhookDispatcher ---------------------------
(***************************************************************************)
(* Webhook endpoints and the dispatcher that notifies them                 *)
(* (src/webhooks/webhooks.service.ts, webhook-dispatcher.service.ts).  An  *)
(* event taken from the bus is fanned out to the endpoints of its consumer *)
(* that want it; each of them gets a delivery row and its own retry loop,  *)
(* and a client may have a past delivery sent again.  A loop works on the  *)
(* endpoint and the delivery it loaded when it began.                      *)
(*                                                                         *)
(* handleEvent creates one delivery per event and endpoint, so the pair    *)
(* <<event, endpoint>> names the delivery and the loop that first sends    *)
(* it.  A route that checks the owner and then writes the endpoint is one  *)
(* action: owners never change and ids are never reused, so the write can  *)
(* only miss, without any effect, an endpoint removed in between.  The     *)
(* definitions with a suffix are broken variants to try properties with.   *)
(***************************************************************************)
EXTENDS Integers, Sequences, FiniteSets

CONSTANTS
    User,            \* consumers
    EventType,       \* webhook event types
    Data,            \* what events tell
    Url,             \* where endpoints listen
    EndpointPatch,   \* bodies of the update route
    Filter,          \* event type lists of the create route
    Resender,        \* slots for redeliver requests in progress
    NULL,            \* an absent row or field
    MaxAttempts,     \* WEBHOOK_MAX_ATTEMPTS
    MaxEvents,       \* bound: events put on the bus
    MaxEndpoints,    \* bound: endpoints ever registered
    MaxEdits,        \* bound: updates, rotations and removals of endpoints
    MaxRedeliveries, \* bound: redeliver requests
    MaxFailures      \* bound: failed database calls and crashes

EventId    == 1..MaxEvents
EndpointId == 1..MaxEndpoints
Delivery   == EventId \X EndpointId
Sender     == Delivery \cup Resender

Endpoint == [owner : User, enabled : BOOLEAN, types : SUBSET EventType, url : Url, secret : Nat]

\* The status enum of the schema is PENDING, SUCCEEDED and FAILED.
Record == [status : {"PENDING", "SUCCEEDED", "FAILED"}, attempts : Nat]

Payload == [user : User, type : EventType, data : Data]

\* What a retry loop keeps of the endpoint it loaded.
Target == [url : Url, secret : Nat]

Idle == [step |-> "idle"]

Task ==
    {Idle}
    \cup [step : {"create"}, delivery : Delivery, target : Target]
    \cup [step : {"findEndpoint"}, delivery : Delivery, attempts : Nat]
    \cup [step : {"post", "await"}, delivery : Delivery, target : Target,
          attempts : Nat, tried : Nat]
    \cup [step : {"finalize"}, delivery : Delivery, status : {"SUCCEEDED", "FAILED"},
          attempts : Nat]

ASSUME DispatcherAssumption ==
    /\ MaxAttempts \in Nat /\ MaxEvents \in Nat /\ MaxEndpoints \in Nat
    /\ MaxEdits \in Nat /\ MaxRedeliveries \in Nat /\ MaxFailures \in Nat
    /\ NULL \notin Endpoint /\ NULL \notin Record
    /\ Filter \subseteq SUBSET EventType
    /\ Resender \cap Delivery = {}
    /\ \A patch \in EndpointPatch :
          /\ "enabled" \in DOMAIN patch => patch["enabled"] \in BOOLEAN
          /\ "url" \in DOMAIN patch => patch["url"] \in Url
          /\ "types" \in DOMAIN patch => patch["types"] \in SUBSET EventType

VARIABLES
    endpoints,   \* webhook_endpoint: a row, or NULL, for every id
    registered,  \* how many endpoint ids were given out
    deliveries,  \* webhook_delivery: a row, or NULL, for every delivery
    bus,         \* the events emitted so far
    waiting,     \* events whose handler has not loaded the endpoints yet
    task,        \* what each retry loop awaits
    edits,       \* changes of endpoints so far
    redelivered, \* redeliver requests so far
    failures,    \* failures so far
    posts,       \* history: requests sent to the receiver, per delivery
    acked        \* history: deliveries that the receiver answered with a 2xx

adminVars   == <<endpoints, registered, edits>>
historyVars == <<posts, acked>>
vars == <<adminVars, deliveries, bus, waiting, task, redelivered, failures, historyVars>>

Init ==
    /\ endpoints = [n \in EndpointId |-> NULL]
    /\ registered = 0
    /\ deliveries = [d \in Delivery |-> NULL]
    /\ bus = <<>>
    /\ waiting = {}
    /\ task = [w \in Sender |-> Idle]
    /\ edits = 0
    /\ redelivered = 0
    /\ failures = 0
    /\ posts = [d \in Delivery |-> 0]
    /\ acked = {}

Live(n) == n \in EndpointId /\ endpoints[n] # NULL

Goto(w, t) == task' = [task EXCEPT ![w] = t]

TargetOf(n) == [url |-> endpoints[n].url, secret |-> endpoints[n].secret]

-----------------------------------------------------------------------------
(***************************************************************************)
(* The routes of WebhooksService that change an endpoint.  Deleting one    *)
(* deletes its deliveries (onDelete: Cascade).                             *)
(***************************************************************************)
Register(user, types, url) ==
    /\ registered < MaxEndpoints
    /\ registered' = registered + 1
    /\ endpoints' = [endpoints EXCEPT ![registered + 1] =
                        [owner |-> user, enabled |-> TRUE, types |-> types, url |-> url, secret |-> 0]]
    /\ UNCHANGED <<deliveries, bus, waiting, task, edits, redelivered, failures, historyVars>>

Edit(user, n) ==
    /\ Live(n) /\ endpoints[n].owner = user
    /\ edits < MaxEdits
    /\ edits' = edits + 1

\* A field that the body leaves out keeps its value.
Given(patch, field, old) == IF field \in DOMAIN patch THEN patch[field] ELSE old

Update(user, n, patch) ==
    /\ Edit(user, n)
    /\ endpoints' = [endpoints EXCEPT
          ![n].enabled = Given(patch, "enabled", @),
          ![n].url     = Given(patch, "url", @),
          ![n].types   = Given(patch, "types", @)]
    /\ UNCHANGED <<registered, deliveries, bus, waiting, task, redelivered, failures, historyVars>>

\* A new random secret differs from every earlier one.
RotateSecret(user, n) ==
    /\ Edit(user, n)
    /\ endpoints' = [endpoints EXCEPT ![n].secret = @ + 1]
    /\ UNCHANGED <<registered, deliveries, bus, waiting, task, redelivered, failures, historyVars>>

WithoutThoseOf(n) == [d \in Delivery |-> IF d[2] = n THEN NULL ELSE deliveries[d]]

Remove(user, n) ==
    /\ Edit(user, n)
    /\ endpoints' = [endpoints EXCEPT ![n] = NULL]
    /\ deliveries' = WithoutThoseOf(n)
    /\ UNCHANGED <<registered, bus, waiting, task, redelivered, failures, historyVars>>

-----------------------------------------------------------------------------
(***************************************************************************)
(* handleEvent and createAndDeliver.                                       *)
(***************************************************************************)
\* emit: the listener is asynchronous, so nothing but the event happens yet.
Notify(payload) ==
    /\ Len(bus) < MaxEvents
    /\ bus' = Append(bus, payload)
    /\ waiting' = waiting \cup {Len(bus) + 1}
    /\ UNCHANGED <<adminVars, deliveries, task, redelivered, failures, historyVars>>

Wants_AnyOwner(n, payload) ==
    /\ Live(n) /\ endpoints[n].enabled
    /\ endpoints[n].types = {} \/ payload.type \in endpoints[n].types

Wants(n, payload) ==
    /\ Live(n) /\ endpoints[n].enabled /\ endpoints[n].owner = payload.user
    /\ endpoints[n].types = {} \/ payload.type \in endpoints[n].types

FanOut(e) ==
    /\ e \in waiting
    /\ waiting' = waiting \ {e}
    /\ task' = [w \in Sender |->
                  IF w \in {<<e, n>> : n \in {m \in EndpointId : Wants(m, bus[e])}}
                  THEN [step |-> "create", delivery |-> w, target |-> TargetOf(w[2])]
                  ELSE task[w]]
    /\ UNCHANGED <<adminVars, deliveries, bus, redelivered, failures, historyVars>>

Trying(d, target, attempts, tried) ==
    [step |-> "post", delivery |-> d, target |-> target, attempts |-> attempts, tried |-> tried]

Finalizing(d, status, attempts) ==
    [step |-> "finalize", delivery |-> d, status |-> status, attempts |-> attempts]

\* The head of the retry loop: another attempt, or the verdict on all of them.
NextTry_OneMore(d, target, attempts, tried) ==
    IF tried <= MaxAttempts THEN Trying(d, target, attempts, tried)
    ELSE Finalizing(d, "FAILED", attempts)

NextTry_OneLess(d, target, attempts, tried) ==
    IF tried < MaxAttempts - 1 THEN Trying(d, target, attempts, tried)
    ELSE Finalizing(d, "FAILED", attempts)

NextTry_CountsTwice(d, target, attempts, tried) ==
    IF tried < MaxAttempts THEN Trying(d, target, attempts + 1, tried)
    ELSE Finalizing(d, "FAILED", attempts)

NextTry_NoVerdict(d, target, attempts, tried) ==
    IF tried < MaxAttempts THEN Trying(d, target, attempts, tried) ELSE Idle

NextTry(d, target, attempts, tried) ==
    IF tried < MaxAttempts THEN Trying(d, target, attempts, tried)
    ELSE Finalizing(d, "FAILED", attempts)

\* The foreign key refuses a delivery for an endpoint that is gone.
CreateDelivery(w) ==
    /\ task[w].step = "create"
    /\ LET d == task[w].delivery
       IN  IF Live(d[2])
           THEN /\ deliveries' = [deliveries EXCEPT ![d] = [status |-> "PENDING", attempts |-> 0]]
                /\ Goto(w, NextTry(d, task[w].target, 0, 0))
           ELSE Goto(w, Idle) /\ UNCHANGED deliveries
    /\ UNCHANGED <<adminVars, bus, waiting, redelivered, failures, historyVars>>

-----------------------------------------------------------------------------
(***************************************************************************)
(* attempt and finalize.                                                   *)
(***************************************************************************)
Post(w) ==
    /\ task[w].step = "post"
    /\ posts' = [posts EXCEPT ![task[w].delivery] = @ + 1]
    /\ Goto(w, [task[w] EXCEPT !.step = "await", !.attempts = @ + 1, !.tried = @ + 1])
    /\ UNCHANGED <<adminVars, deliveries, bus, waiting, redelivered, failures, acked>>

Accepted(w) ==
    /\ task[w].step = "await"
    /\ acked' = acked \cup {task[w].delivery}
    /\ Goto(w, Finalizing(task[w].delivery, "SUCCEEDED", task[w].attempts))
    /\ UNCHANGED <<adminVars, deliveries, bus, waiting, redelivered, failures, posts>>

\* Another status, a network error, or no answer within the timeout.
AfterRefusal_Succeeds(t) == Finalizing(t.delivery, "SUCCEEDED", t.attempts)

AfterRefusal_UnknownStatus(t) == Finalizing(t.delivery, "RETRYING", t.attempts)

AfterRefusal(t) == NextTry(t.delivery, t.target, t.attempts, t.tried)

Refused(w) ==
    /\ task[w].step = "await"
    /\ Goto(w, AfterRefusal(task[w]))
    /\ UNCHANGED <<adminVars, deliveries, bus, waiting, redelivered, failures, historyVars>>

Finalize(w) ==
    /\ task[w].step = "finalize"
    /\ LET d == task[w].delivery
       IN  IF deliveries[d] # NULL
           THEN deliveries' = [deliveries EXCEPT
                                  ![d] = [status |-> task[w].status, attempts |-> task[w].attempts]]
           ELSE UNCHANGED deliveries
    /\ Goto(w, Idle)
    /\ UNCHANGED <<adminVars, bus, waiting, redelivered, failures, historyVars>>

-----------------------------------------------------------------------------
(***************************************************************************)
(* POST /webhooks/:id/deliveries/:deliveryId/redeliver.                    *)
(***************************************************************************)
Redeliver(r, user, d) ==
    /\ r \in Resender /\ task[r] = Idle
    /\ redelivered < MaxRedeliveries
    /\ Live(d[2]) /\ endpoints[d[2]].owner = user /\ deliveries[d] # NULL
    /\ redelivered' = redelivered + 1
    /\ Goto(r, [step |-> "findEndpoint", delivery |-> d, attempts |-> deliveries[d].attempts])
    /\ UNCHANGED <<adminVars, deliveries, bus, waiting, failures, historyVars>>

\* Neither the filter nor "enabled" is looked at again.
FindEndpoint(w) ==
    /\ task[w].step = "findEndpoint"
    /\ LET d == task[w].delivery
       IN  Goto(w, IF Live(d[2]) THEN NextTry(d, TargetOf(d[2]), task[w].attempts, 0) ELSE Idle)
    /\ UNCHANGED <<adminVars, deliveries, bus, waiting, redelivered, failures, historyVars>>

-----------------------------------------------------------------------------
(***************************************************************************)
(* Failures: a database call rejects, which ends the handler that made it; *)
(* or the process dies with every handler and retry loop in it.            *)
(***************************************************************************)
Failure == failures < MaxFailures /\ failures' = failures + 1

CallFails(w) ==
    /\ task[w].step \in {"create", "findEndpoint", "finalize"}
    /\ Failure
    /\ Goto(w, Idle)
    /\ UNCHANGED <<adminVars, deliveries, bus, waiting, redelivered, historyVars>>

FanOutFails(e) ==
    /\ e \in waiting
    /\ Failure
    /\ waiting' = waiting \ {e}
    /\ UNCHANGED <<adminVars, deliveries, bus, task, redelivered, historyVars>>

Crash ==
    /\ Failure
    /\ waiting' = {}
    /\ task' = [w \in Sender |-> Idle]
    /\ UNCHANGED <<adminVars, deliveries, bus, redelivered, historyVars>>

\* The next step of a retry loop, whatever it awaits.
Work(w) ==
    \/ CreateDelivery(w) \/ FindEndpoint(w)
    \/ Post(w) \/ Accepted(w) \/ Refused(w) \/ Finalize(w)

\* What clients and the dispatcher do of themselves.
Step ==
    \/ \E user \in User :
          \/ \E types \in Filter, url \in Url : Register(user, types, url)
          \/ \E n \in EndpointId :
                \/ \E patch \in EndpointPatch : Update(user, n, patch)
                \/ RotateSecret(user, n) \/ Remove(user, n)
          \/ \E r \in Resender, d \in Delivery : Redeliver(r, user, d)
    \/ \E e \in EventId : FanOut(e) \/ FanOutFails(e)
    \/ \E w \in Sender : Work(w) \/ CallFails(w)

Next == Step \/ Crash \/ \E payload \in Payload : Notify(payload)

Spec == Init /\ [][Next]_vars

-----------------------------------------------------------------------------
(***************************************************************************)
(* Safety.                                                                 *)
(***************************************************************************)
\* Every variable keeps the shape of the data it stands for.
TypeOK ==
    /\ endpoints \in [EndpointId -> Endpoint \cup {NULL}]
    /\ registered \in 0..MaxEndpoints
    /\ deliveries \in [Delivery -> Record \cup {NULL}]
    /\ bus \in Seq(Payload) /\ Len(bus) <= MaxEvents
    /\ waiting \subseteq 1..Len(bus)
    /\ task \in [Sender -> Task]
    /\ edits \in 0..MaxEdits
    /\ redelivered \in 0..MaxRedeliveries
    /\ failures \in 0..MaxFailures
    /\ posts \in [Delivery -> Nat]
    /\ acked \subseteq Delivery

Recorded == {d \in Delivery : deliveries[d] # NULL}

\* webhookLogs of src/analytics/analytics.service.ts: the deliveries of all
\* endpoints of the caller (the newest hundred, more than the bounds allow).
WebhookLogs(user) == {d \in Recorded : Live(d[2]) /\ endpoints[d[2]].owner = user}

\* A delivery is recorded as SUCCEEDED only if the receiver acknowledged it,
\* whichever of several loops that send it wrote the record last.
AcknowledgedIsReal == \A d \in Recorded : deliveries[d].status = "SUCCEEDED" => d \in acked

\* A delivery is given up only after a whole round of attempts.
FailedWasRetried == \A d \in Recorded : deliveries[d].status = "FAILED" => posts[d] >= MaxAttempts

\* The record never claims more attempts than were made, however the loops of
\* the event and of redeliver requests, each with its own count, overlap.
NoInventedAttempts == \A d \in Recorded : deliveries[d].attempts <= posts[d]

\* Retrying is bounded: a receiver sees no more requests than one round for the
\* event and one for every redeliver request.
BoundedPosts == \A d \in Delivery : posts[d] <= MaxAttempts * (1 + redelivered)

\* A consumer's events are sent to its own endpoints only, every record of
\* them is in its own webhook log, and no record outlives its endpoint.
OwnEventsOnly ==
    /\ \A d \in Recorded : d \in WebhookLogs(bus[d[1]].user)
    /\ \A d \in Delivery : posts[d] > 0 /\ Live(d[2]) => endpoints[d[2]].owner = bus[d[1]].user

(***************************************************************************)
(* Why these hold: what a retry loop believes when it writes is true,      *)
(* although it was counted by itself alone.                                *)
(***************************************************************************)
OwnPair(d) ==
    /\ d[1] \in DOMAIN bus /\ d[2] <= registered
    /\ Live(d[2]) => endpoints[d[2]].owner = bus[d[1]].user

LoopBelievesTrue(t) ==
    t # Idle =>
        /\ OwnPair(t.delivery)
        /\ t.step # "create" => t.attempts <= posts[t.delivery]
        /\ t.step \in {"post", "await"} => t.tried <= posts[t.delivery]
        /\ t.step = "finalize" =>
              IF t.status = "SUCCEEDED" THEN t.delivery \in acked
              ELSE posts[t.delivery] >= MaxAttempts

\* Inductive: a loop is right about its attempts, its verdict and its
\* addressee when it writes them, so the records are, and no pair of event and
\* endpoint ever belongs to two consumers.
DeliveryInv ==
    /\ \A n \in EndpointId : Live(n) => n <= registered
    /\ \A d \in Recorded : Live(d[2]) /\ OwnPair(d)
    /\ \A d \in Delivery : posts[d] > 0 => OwnPair(d)
    /\ \A w \in Sender : LoopBelievesTrue(task[w])
    /\ AcknowledgedIsReal /\ FailedWasRetried /\ NoInventedAttempts

(***************************************************************************)
(* Why the requests are bounded, although every loop counts its own only:  *)
(* each of them, and the one that an event has still ahead of it, has a    *)
(* number of tries left, and a request uses one up.                        *)
(***************************************************************************)
\* Sender w may yet make its k-th try of delivery d.
MayTry(w, d, k) ==
    \/ w = d /\ d[1] \notin DOMAIN bus \ waiting
    \/ task[w].step \in {"create", "findEndpoint"} /\ task[w].delivery = d
    \/ task[w].step \in {"post", "await"} /\ task[w].delivery = d /\ task[w].tried < k

TriesLeft(d) == {x \in Sender \X (1..MaxAttempts) : MayTry(x[1], d, x[2])}

\* The requests made for d and those that can still be made are no more than
\* one round for the event and one for every redeliver request.
WithinBudget(d) ==
    /\ IsFiniteSet(TriesLeft(d))
    /\ posts[d] + Cardinality(TriesLeft(d)) <= MaxAttempts * (1 + redelivered)

\* A loop sends only while it has a try, and the loop of an event is begun once,
\* when the event is fanned out.
InTurn(w) ==
    /\ task[w].step = "post" => task[w].tried < MaxAttempts
    /\ w \in Delivery /\ task[w] # Idle =>
          task[w].delivery = w /\ w[1] \in DOMAIN bus \ waiting

\* Inductive: overlapping loops, each with its own count, stay within the budget.
RetryInv == (\A d \in Delivery : WithinBudget(d)) /\ (\A w \in Sender : InTurn(w))
=============================================================================
