---------------------------- MODULE DispatcherProofs ----------------------------
(***************************************************************************)
(* Proofs about WebhookDispatcher: the type invariant, and the invariant   *)
(* by which records written from several loops' own counts are true.       *)
(***************************************************************************)
EXTENDS WebhookDispatcher, FiniteSetTheorems, TLAPS

LEMMA Bounds ==
    /\ MaxAttempts \in Nat /\ MaxEvents \in Nat /\ MaxEndpoints \in Nat
    /\ MaxEdits \in Nat /\ MaxRedeliveries \in Nat /\ MaxFailures \in Nat
BY DispatcherAssumption

LEMMA Counting ==
    ASSUME NEW max \in Nat, NEW n \in 0..max, n < max
    PROVE  n + 1 \in 0..max
OBVIOUS

LEMMA PairParts ==
    ASSUME NEW d \in Delivery
    PROVE  d[1] \in EventId /\ d[2] \in EndpointId
BY DEF Delivery

LEMMA LiveIsEndpoint ==
    ASSUME TypeOK, NEW n, Live(n)
    PROVE  n \in EndpointId /\ endpoints[n] \in Endpoint
BY DEF TypeOK, Live

-----------------------------------------------------------------------------
(***************************************************************************)
(* What the step of a loop says of its other fields, and the loops that    *)
(* the actions go on to.                                                   *)
(***************************************************************************)
LEMMA CreateTask ==
    ASSUME NEW t \in Task, t.step = "create"
    PROVE  t.delivery \in Delivery /\ t.target \in Target
BY DEF Task, Idle

LEMMA FindTask ==
    ASSUME NEW t \in Task, t.step = "findEndpoint"
    PROVE  t.delivery \in Delivery /\ t.attempts \in Nat
BY DEF Task, Idle

LEMMA SendTask ==
    ASSUME NEW t \in Task, t.step \in {"post", "await"}
    PROVE  /\ t.delivery \in Delivery /\ t.target \in Target
           /\ t.attempts \in Nat /\ t.tried \in Nat
BY DEF Task, Idle

LEMMA FinalTask ==
    ASSUME NEW t \in Task, t.step = "finalize"
    PROVE  /\ t.delivery \in Delivery /\ t.status \in {"SUCCEEDED", "FAILED"}
           /\ t.attempts \in Nat
BY DEF Task, Idle

LEMMA BusyTask ==
    ASSUME NEW t \in Task, t # Idle
    PROVE  /\ t.step \in {"create", "findEndpoint", "post", "await", "finalize"}
           /\ t.delivery \in Delivery
BY DEF Task, Idle

LEMMA IdleTask == Idle \in Task /\ Idle.step = "idle"
BY DEF Task, Idle

LEMMA TargetType ==
    ASSUME TypeOK, NEW n, Live(n)
    PROVE  TargetOf(n) \in Target
BY LiveIsEndpoint DEF TargetOf, Target, Endpoint

LEMMA NextTryType ==
    ASSUME NEW d \in Delivery, NEW target \in Target, NEW attempts \in Nat, NEW tried \in Nat
    PROVE  NextTry(d, target, attempts, tried) \in Task
BY DEF NextTry, Trying, Finalizing, Task

LEMMA FinalizingType ==
    ASSUME NEW d \in Delivery, NEW status \in {"SUCCEEDED", "FAILED"}, NEW attempts \in Nat
    PROVE  Finalizing(d, status, attempts) \in Task
BY DEF Finalizing, Task

Sending == [step : {"post", "await"}, delivery : Delivery, target : Target,
            attempts : Nat, tried : Nat]

LEMMA CountAttempt ==
    ASSUME NEW t \in Sending
    PROVE  LET u == [t EXCEPT !.attempts = @ + 1]
           IN  /\ u \in Sending /\ u.step = t.step /\ u.delivery = t.delivery
               /\ u.attempts = t.attempts + 1 /\ u.tried = t.tried
BY DEF Sending

LEMMA CountTry ==
    ASSUME NEW t \in Sending
    PROVE  LET u == [t EXCEPT !.tried = @ + 1]
           IN  /\ u \in Sending /\ u.step = t.step /\ u.delivery = t.delivery
               /\ u.attempts = t.attempts /\ u.tried = t.tried + 1
BY DEF Sending

LEMMA AwaitType ==
    ASSUME NEW t \in Task, t.step = "post"
    PROVE  LET u == [t EXCEPT !.step = "await", !.attempts = @ + 1, !.tried = @ + 1]
           IN  /\ u \in Task /\ u.step = "await" /\ u.delivery = t.delivery
               /\ u.attempts = t.attempts + 1 /\ u.tried = t.tried + 1
<1> DEFINE s == [t EXCEPT !.step = "await"]
           c == [s EXCEPT !.attempts = @ + 1]
           u == [c EXCEPT !.tried = @ + 1]
<1>1. t \in Sending
  BY DEF Sending, Task, Idle
<1>2. /\ s \in Sending /\ s.step = "await" /\ s.delivery = t.delivery
      /\ s.attempts = t.attempts /\ s.tried = t.tried
  BY <1>1 DEF Sending
<1> HIDE DEF s
<1>3. /\ c \in Sending /\ c.step = "await" /\ c.delivery = t.delivery
      /\ c.attempts = t.attempts + 1 /\ c.tried = t.tried
  BY <1>2, CountAttempt
<1> HIDE DEF c
<1>4. /\ u \in Sending /\ u.step = "await" /\ u.delivery = t.delivery
      /\ u.attempts = t.attempts + 1 /\ u.tried = t.tried + 1
  BY <1>3, CountTry
<1>5. u = [t EXCEPT !.step = "await", !.attempts = @ + 1, !.tried = @ + 1]
  BY <1>1 DEF u, c, s, Sending
<1>6. u \in Task
  BY <1>4 DEF Sending, Task
<1> HIDE DEF u
<1>7. QED
  BY <1>4, <1>5, <1>6

LEMMA GotoType ==
    ASSUME TypeOK, NEW w \in Sender, NEW t \in Task, Goto(w, t)
    PROVE  task' \in [Sender -> Task]
BY DEF TypeOK, Goto

-----------------------------------------------------------------------------
(***************************************************************************)
(* Type correctness: one step per action.                                  *)
(***************************************************************************)
LEMMA UpdatedEndpoint ==
    ASSUME NEW old \in Endpoint, NEW patch \in EndpointPatch
    PROVE  [old EXCEPT !.enabled = Given(patch, "enabled", @),
                       !.url = Given(patch, "url", @),
                       !.types = Given(patch, "types", @)] \in Endpoint
BY DispatcherAssumption DEF Given, Endpoint

LEMMA RegisterType ==
    ASSUME TypeOK, NEW user \in User, NEW types \in Filter, NEW url \in Url, Register(user, types, url)
    PROVE  TypeOK'
<1> DEFINE row == [owner |-> user, enabled |-> TRUE, types |-> types, url |-> url, secret |-> 0]
<1>1. row \in Endpoint
  BY DispatcherAssumption DEF Endpoint
<1>2. registered' \in 0..MaxEndpoints
  BY Bounds, Counting DEF TypeOK, Register
<1>3. endpoints' \in [EndpointId -> Endpoint \cup {NULL}]
  BY <1>1 DEF TypeOK, Register
<1>4. QED
  BY <1>2, <1>3 DEF TypeOK, Register, historyVars

LEMMA EditType ==
    ASSUME TypeOK, NEW user \in User, NEW n \in EndpointId, Edit(user, n)
    PROVE  edits' \in 0..MaxEdits /\ endpoints[n] \in Endpoint
BY Bounds, Counting, LiveIsEndpoint DEF TypeOK, Edit

LEMMA UpdateType ==
    ASSUME TypeOK, NEW user \in User, NEW n \in EndpointId, NEW patch \in EndpointPatch,
           Update(user, n, patch)
    PROVE  TypeOK'
<1> DEFINE row == [endpoints[n] EXCEPT !.enabled = Given(patch, "enabled", @),
                                       !.url = Given(patch, "url", @),
                                       !.types = Given(patch, "types", @)]
<1>1. edits' \in 0..MaxEdits /\ endpoints[n] \in Endpoint
  BY EditType DEF Update
<1>2. row \in Endpoint
  BY <1>1, UpdatedEndpoint
<1>3. endpoints' = [endpoints EXCEPT ![n] = row]
  BY <1>1 DEF Update, TypeOK, Endpoint
<1>4. endpoints' \in [EndpointId -> Endpoint \cup {NULL}]
  BY <1>2, <1>3 DEF TypeOK
<1>5. QED
  BY <1>1, <1>4 DEF TypeOK, Update, historyVars

LEMMA RotateType ==
    ASSUME TypeOK, NEW user \in User, NEW n \in EndpointId, RotateSecret(user, n)
    PROVE  TypeOK'
<1>1. edits' \in 0..MaxEdits /\ endpoints[n] \in Endpoint
  BY EditType DEF RotateSecret
<1>2. [endpoints[n] EXCEPT !.secret = @ + 1] \in Endpoint
  BY <1>1 DEF Endpoint
<1>3. endpoints' \in [EndpointId -> Endpoint \cup {NULL}]
  BY <1>2 DEF TypeOK, RotateSecret
<1>4. QED
  BY <1>1, <1>3 DEF TypeOK, RotateSecret, historyVars

LEMMA RemoveType ==
    ASSUME TypeOK, NEW user \in User, NEW n \in EndpointId, Remove(user, n)
    PROVE  TypeOK'
<1>1. edits' \in 0..MaxEdits
  BY EditType DEF Remove
<1>2. deliveries' \in [Delivery -> Record \cup {NULL}]
  BY DEF TypeOK, Remove, WithoutThoseOf
<1>3. endpoints' \in [EndpointId -> Endpoint \cup {NULL}]
  BY DEF TypeOK, Remove
<1>4. QED
  BY <1>1, <1>2, <1>3 DEF TypeOK, Remove, historyVars

LEMMA NotifyType ==
    ASSUME TypeOK, NEW payload \in Payload, Notify(payload)
    PROVE  TypeOK'
<1>1. bus' \in Seq(Payload) /\ Len(bus') = Len(bus) + 1
  BY DEF TypeOK, Notify
<1>2. Len(bus') <= MaxEvents
  BY <1>1, Bounds DEF TypeOK, Notify
<1>3. waiting' \subseteq 1..Len(bus')
  <2>1. Len(bus) \in Nat /\ waiting' = waiting \cup {Len(bus) + 1}
    BY DEF TypeOK, Notify
  <2>2. waiting \subseteq 1..Len(bus)
    BY DEF TypeOK
  <2>3. ASSUME NEW e \in waiting'
        PROVE  e \in 1..(Len(bus) + 1)
    BY <2>1, <2>2
  <2>4. QED
    BY <2>3, <1>1
<1>4. QED
  BY <1>1, <1>2, <1>3 DEF TypeOK, Notify, adminVars, historyVars

LEMMA FanOutType ==
    ASSUME TypeOK, NEW e \in EventId, FanOut(e)
    PROVE  TypeOK'
<1> DEFINE told == {<<e, n>> : n \in {m \in EndpointId : Wants(m, bus[e])}}
<1> DEFINE next(w) == [step |-> "create", delivery |-> w, target |-> TargetOf(w[2])]
<1>1. ASSUME NEW w \in told
      PROVE  next(w) \in Task
  <2>1. PICK n \in EndpointId : w = <<e, n>> /\ Live(n)
    BY <1>1 DEF Wants
  <2>2. w \in Delivery /\ TargetOf(w[2]) \in Target
    BY <2>1, TargetType DEF Delivery
  <2>3. QED
    BY <2>2 DEF Task
<1>2. task' = [w \in Sender |-> IF w \in told THEN next(w) ELSE task[w]]
  BY DEF FanOut
<1> HIDE DEF told, next
<1>3. task' \in [Sender -> Task]
  BY <1>1, <1>2 DEF TypeOK
<1>4. QED
  BY <1>3 DEF TypeOK, FanOut, adminVars, historyVars

LEMMA CreateDeliveryType ==
    ASSUME TypeOK, NEW w \in Sender, CreateDelivery(w)
    PROVE  TypeOK'
<1>1. task[w] \in Task /\ task[w].step = "create"
  BY DEF TypeOK, CreateDelivery
<1>2. task[w].delivery \in Delivery /\ task[w].target \in Target
  BY <1>1, CreateTask
<1> DEFINE d == task[w].delivery
<1>3. NextTry(d, task[w].target, 0, 0) \in Task
  BY <1>2, NextTryType
<1>4. task' \in [Sender -> Task]
  BY <1>3, IdleTask, GotoType DEF CreateDelivery
<1>5. [status |-> "PENDING", attempts |-> 0] \in Record
  BY DEF Record
<1>6. deliveries' \in [Delivery -> Record \cup {NULL}]
  BY <1>2, <1>5 DEF TypeOK, CreateDelivery
<1>7. QED
  BY <1>4, <1>6 DEF TypeOK, CreateDelivery, adminVars, historyVars

LEMMA FindEndpointType ==
    ASSUME TypeOK, NEW w \in Sender, FindEndpoint(w)
    PROVE  TypeOK'
<1>1. task[w] \in Task /\ task[w].step = "findEndpoint"
  BY DEF TypeOK, FindEndpoint
<1>2. task[w].delivery \in Delivery /\ task[w].attempts \in Nat
  BY <1>1, FindTask
<1> DEFINE d == task[w].delivery
<1>3. Live(d[2]) => NextTry(d, TargetOf(d[2]), task[w].attempts, 0) \in Task
  BY <1>2, TargetType, NextTryType
<1>4. task' \in [Sender -> Task]
  BY <1>3, IdleTask, GotoType DEF FindEndpoint
<1>5. QED
  BY <1>4 DEF TypeOK, FindEndpoint, adminVars, historyVars

LEMMA PostType ==
    ASSUME TypeOK, NEW w \in Sender, Post(w)
    PROVE  TypeOK'
<1>1. task[w] \in Task /\ task[w].step = "post"
  BY DEF TypeOK, Post
<1>2. task[w].delivery \in Delivery
  BY <1>1, SendTask
<1>3. task' \in [Sender -> Task]
  BY <1>1, AwaitType, GotoType DEF Post
<1>4. posts' \in [Delivery -> Nat]
  BY <1>2 DEF TypeOK, Post
<1>5. QED
  BY <1>3, <1>4 DEF TypeOK, Post, adminVars

LEMMA AcceptedType ==
    ASSUME TypeOK, NEW w \in Sender, Accepted(w)
    PROVE  TypeOK'
<1>1. task[w] \in Task /\ task[w].step = "await"
  BY DEF TypeOK, Accepted
<1>2. task[w].delivery \in Delivery /\ task[w].attempts \in Nat
  BY <1>1, SendTask
<1>3. task' \in [Sender -> Task]
  BY <1>2, FinalizingType, GotoType DEF Accepted
<1>4. QED
  BY <1>2, <1>3 DEF TypeOK, Accepted, adminVars

LEMMA RefusedType ==
    ASSUME TypeOK, NEW w \in Sender, Refused(w)
    PROVE  TypeOK'
<1>1. task[w] \in Task /\ task[w].step = "await"
  BY DEF TypeOK, Refused
<1>2. AfterRefusal(task[w]) \in Task
  BY <1>1, SendTask, NextTryType DEF AfterRefusal
<1>3. task' \in [Sender -> Task]
  BY <1>2, GotoType DEF Refused
<1>4. QED
  BY <1>3 DEF TypeOK, Refused, adminVars, historyVars

LEMMA FinalizeType ==
    ASSUME TypeOK, NEW w \in Sender, Finalize(w)
    PROVE  TypeOK'
<1>1. task[w] \in Task /\ task[w].step = "finalize"
  BY DEF TypeOK, Finalize
<1>2. [status |-> task[w].status, attempts |-> task[w].attempts] \in Record
  BY <1>1, FinalTask DEF Record
<1>3. deliveries' \in [Delivery -> Record \cup {NULL}]
  BY <1>2 DEF TypeOK, Finalize
<1>4. task' \in [Sender -> Task]
  BY IdleTask, GotoType DEF Finalize
<1>5. QED
  BY <1>3, <1>4 DEF TypeOK, Finalize, adminVars, historyVars

LEMMA RedeliverType ==
    ASSUME TypeOK, NEW r \in Resender, NEW user \in User, NEW d \in Delivery, Redeliver(r, user, d)
    PROVE  TypeOK'
<1>1. deliveries[d] \in Record
  BY DEF TypeOK, Redeliver
<1>2. [step |-> "findEndpoint", delivery |-> d, attempts |-> deliveries[d].attempts] \in Task
  BY <1>1 DEF Record, Task
<1>3. task' \in [Sender -> Task]
  BY <1>2, GotoType DEF Redeliver, Sender
<1>4. redelivered' \in 0..MaxRedeliveries
  BY Bounds, Counting DEF TypeOK, Redeliver
<1>5. QED
  BY <1>3, <1>4 DEF TypeOK, Redeliver, adminVars, historyVars

LEMMA FailureType ==
    ASSUME TypeOK, Failure
    PROVE  failures' \in 0..MaxFailures
BY Bounds, Counting DEF TypeOK, Failure

LEMMA CallFailsType ==
    ASSUME TypeOK, NEW w \in Sender, CallFails(w)
    PROVE  TypeOK'
<1>1. failures' \in 0..MaxFailures /\ task' \in [Sender -> Task]
  BY FailureType, IdleTask, GotoType DEF CallFails
<1>2. QED
  BY <1>1 DEF TypeOK, CallFails, adminVars, historyVars

LEMMA FanOutFailsType ==
    ASSUME TypeOK, NEW e \in EventId, FanOutFails(e)
    PROVE  TypeOK'
BY FailureType DEF TypeOK, FanOutFails, adminVars, historyVars

LEMMA CrashType ==
    ASSUME TypeOK, Crash
    PROVE  TypeOK'
BY FailureType, IdleTask DEF TypeOK, Crash, adminVars, historyVars

LEMMA InitTypeOK == Init => TypeOK
BY Bounds, IdleTask DEF Init, TypeOK

LEMMA NextTypeOK == TypeOK /\ [Next]_vars => TypeOK'
<1> SUFFICES ASSUME TypeOK, [Next]_vars
             PROVE  TypeOK'
  OBVIOUS
<1>1. CASE UNCHANGED vars
  BY <1>1 DEF TypeOK, vars, adminVars, historyVars
<1>2. CASE Crash
  BY <1>2, CrashType
<1>3. ASSUME NEW payload \in Payload, Notify(payload)
      PROVE  TypeOK'
  BY <1>3, NotifyType
<1>4. CASE Step
  <2>1. ASSUME NEW user \in User, NEW types \in Filter, NEW url \in Url, Register(user, types, url)
        PROVE  TypeOK'
    BY <2>1, RegisterType
  <2>2. ASSUME NEW user \in User, NEW n \in EndpointId, NEW patch \in EndpointPatch,
               Update(user, n, patch)
        PROVE  TypeOK'
    BY <2>2, UpdateType
  <2>3. ASSUME NEW user \in User, NEW n \in EndpointId, RotateSecret(user, n) \/ Remove(user, n)
        PROVE  TypeOK'
    BY <2>3, RotateType, RemoveType
  <2>4. ASSUME NEW user \in User, NEW r \in Resender, NEW d \in Delivery, Redeliver(r, user, d)
        PROVE  TypeOK'
    BY <2>4, RedeliverType
  <2>5. ASSUME NEW e \in EventId, FanOut(e) \/ FanOutFails(e)
        PROVE  TypeOK'
    BY <2>5, FanOutType, FanOutFailsType
  <2>6. ASSUME NEW w \in Sender, Work(w) \/ CallFails(w)
        PROVE  TypeOK'
    BY <2>6, CreateDeliveryType, FindEndpointType, PostType, AcceptedType, RefusedType,
       FinalizeType, CallFailsType DEF Work
  <2>7. QED
    BY <1>4, <2>1, <2>2, <2>3, <2>4, <2>5, <2>6 DEF Step
<1>5. QED
  BY <1>1, <1>2, <1>3, <1>4 DEF Next

\* Every reachable state of endpoints, deliveries and retry loops is well typed.
THEOREM TypeCorrect == Spec => []TypeOK
BY InitTypeOK, NextTypeOK, PTL DEF Spec

-----------------------------------------------------------------------------
(***************************************************************************)
(* What no step undoes: an endpoint keeps its owner for as long as it is   *)
(* there and its id is not used again, events stay on the bus, requests    *)
(* and acknowledgements are not taken back.  So what a loop believes stays *)
(* true, and a step has only to answer for the loops and records it        *)
(* changes.                                                                *)
(***************************************************************************)
EndpointsKept ==
    /\ registered <= registered'
    /\ \A n \in EndpointId :
          n <= registered /\ endpoints'[n] # NULL =>
              endpoints[n] # NULL /\ endpoints'[n].owner = endpoints[n].owner
    /\ \A n \in EndpointId : endpoints'[n] # NULL => n <= registered'

BusKept == \A e \in DOMAIN bus : e \in DOMAIN bus' /\ bus'[e] = bus[e]

HistoryKept == acked \subseteq acked' /\ \A d \in Delivery : posts[d] <= posts'[d]

RecordTrue(d) ==
    /\ deliveries[d].status = "SUCCEEDED" => d \in acked
    /\ deliveries[d].status = "FAILED" => posts[d] >= MaxAttempts
    /\ deliveries[d].attempts <= posts[d]

LoopsFollow == \A w \in Sender : task'[w] = task[w] \/ LoopBelievesTrue(task[w])'

RecordsFollow ==
    \A d \in Delivery : deliveries'[d] # NULL =>
        /\ endpoints'[d[2]] # NULL
        /\ deliveries'[d] = deliveries[d] \/ (OwnPair(d)' /\ RecordTrue(d)')

PostsFollow == \A d \in Delivery : posts'[d] = posts[d] \/ OwnPair(d)'

LEMMA OwnPairStays ==
    ASSUME TypeOK, TypeOK', EndpointsKept, BusKept, NEW d \in Delivery, OwnPair(d)
    PROVE  OwnPair(d)'
<1>1. d[1] \in DOMAIN bus' /\ bus'[d[1]] = bus[d[1]]
  BY DEF OwnPair, BusKept
<1>2. d[2] <= registered'
  <2>1. d[2] <= registered /\ registered <= registered'
    BY DEF OwnPair, EndpointsKept
  <2>2. d[2] \in Nat /\ registered \in Nat /\ registered' \in Nat
    BY PairParts, Bounds DEF TypeOK, EndpointId
  <2>3. QED
    BY <2>1, <2>2
<1>3. ASSUME endpoints'[d[2]] # NULL
      PROVE  endpoints'[d[2]].owner = bus[d[1]].user
  BY <1>3, PairParts DEF OwnPair, EndpointsKept, Live
<1>4. QED
  BY <1>1, <1>2, <1>3 DEF OwnPair, Live

LEMMA LoopStays ==
    ASSUME TypeOK, TypeOK', EndpointsKept, BusKept, HistoryKept,
           NEW w \in Sender, LoopBelievesTrue(task[w]), task'[w] = task[w]
    PROVE  LoopBelievesTrue(task[w])'
<1> DEFINE t == task[w]
<1>1. t \in Task
  BY DEF TypeOK
<1>2. CASE t = Idle
  BY <1>2 DEF LoopBelievesTrue
<1>3. CASE t # Idle
  <2>1. t.delivery \in Delivery
    BY <1>1, <1>3, BusyTask
  <2>2. OwnPair(t.delivery)'
    <3>1. OwnPair(t.delivery)
      BY <1>3 DEF LoopBelievesTrue
    <3>2. \A d \in Delivery : OwnPair(d) => OwnPair(d)'
      BY OwnPairStays
    <3>3. QED
      BY <2>1, <3>1, <3>2 DEF OwnPair, Live
  <2>3. /\ posts[t.delivery] \in Nat /\ posts'[t.delivery] \in Nat
        /\ posts[t.delivery] <= posts'[t.delivery]
    BY <2>1 DEF TypeOK, HistoryKept
  <2>4. t.step # "create" => t.attempts <= posts'[t.delivery]
    BY <1>1, <1>3, <2>3, BusyTask, FindTask, SendTask, FinalTask DEF LoopBelievesTrue
  <2>5. t.step \in {"post", "await"} => t.tried <= posts'[t.delivery]
    BY <1>1, <1>3, <2>3, SendTask DEF LoopBelievesTrue
  <2>6. t.step = "finalize" =>
           IF t.status = "SUCCEEDED" THEN t.delivery \in acked'
           ELSE posts'[t.delivery] >= MaxAttempts
    BY <1>3, <2>3, Bounds DEF LoopBelievesTrue, HistoryKept
  <2>7. QED
    BY <2>2, <2>4, <2>5, <2>6 DEF LoopBelievesTrue
<1>4. QED
  BY <1>2, <1>3

LEMMA InvariantStays ==
    ASSUME TypeOK, TypeOK', DeliveryInv, EndpointsKept, BusKept, HistoryKept,
           LoopsFollow, RecordsFollow, PostsFollow
    PROVE  DeliveryInv'
<1>1. ASSUME NEW d \in Delivery, deliveries'[d] # NULL
      PROVE  endpoints'[d[2]] # NULL /\ OwnPair(d)' /\ RecordTrue(d)'
  <2>1. endpoints'[d[2]] # NULL
    BY <1>1 DEF RecordsFollow
  <2>2. CASE deliveries'[d] = deliveries[d]
    <3>1. d \in Recorded /\ deliveries[d] \in Record
      BY <1>1, <2>2 DEF Recorded, TypeOK
    <3>2. OwnPair(d)'
      BY <3>1, OwnPairStays DEF DeliveryInv
    <3>3. posts[d] \in Nat /\ posts'[d] \in Nat /\ posts[d] <= posts'[d]
      BY DEF TypeOK, HistoryKept
    <3>4. RecordTrue(d)'
      BY <2>2, <3>1, <3>3, Bounds
         DEF RecordTrue, DeliveryInv, AcknowledgedIsReal, FailedWasRetried, NoInventedAttempts,
             HistoryKept, Record
    <3>5. QED
      BY <2>1, <3>2, <3>4
  <2>3. QED
    BY <1>1, <2>1, <2>2 DEF RecordsFollow
<1>2. ASSUME NEW d \in Delivery, posts'[d] > 0
      PROVE  OwnPair(d)'
  BY <1>2, OwnPairStays DEF PostsFollow, DeliveryInv
<1>3. ASSUME NEW w \in Sender
      PROVE  LoopBelievesTrue(task[w])'
  BY LoopStays DEF LoopsFollow, DeliveryInv
<1>4. \A n \in EndpointId : Live(n)' => n <= registered'
  BY DEF EndpointsKept, Live
<1>5. \A d \in Recorded' : Live(d[2])' /\ OwnPair(d)'
  BY <1>1, PairParts DEF Recorded, Live
<1>6. AcknowledgedIsReal' /\ FailedWasRetried' /\ NoInventedAttempts'
  BY <1>1 DEF Recorded, RecordTrue, AcknowledgedIsReal, FailedWasRetried, NoInventedAttempts
<1>7. QED
  BY <1>2, <1>3, <1>4, <1>5, <1>6 DEF DeliveryInv

-----------------------------------------------------------------------------
(***************************************************************************)
(* Steps that leave a part alone.                                          *)
(***************************************************************************)
LEMMA SameEndpoints ==
    ASSUME TypeOK, DeliveryInv, UNCHANGED <<endpoints, registered>>
    PROVE  EndpointsKept
<1>1. registered \in Nat /\ registered <= registered
  BY Bounds DEF TypeOK
<1>2. QED
  BY <1>1 DEF EndpointsKept, DeliveryInv, Live

LEMMA SameHistory == ASSUME TypeOK, UNCHANGED historyVars PROVE HistoryKept /\ PostsFollow
<1>1. \A d \in Delivery : posts[d] \in Nat
  BY DEF TypeOK
<1>2. QED
  BY <1>1 DEF historyVars, HistoryKept, PostsFollow

LEMMA SameRecords ==
    ASSUME TypeOK, DeliveryInv, UNCHANGED <<endpoints, deliveries>>
    PROVE  RecordsFollow
BY DEF RecordsFollow, DeliveryInv, Recorded, Live

LEMMA OneLoopFollows ==
    ASSUME TypeOK, NEW w \in Sender, NEW t, Goto(w, t), LoopBelievesTrue(task[w])'
    PROVE  LoopsFollow
BY DEF TypeOK, Goto, LoopsFollow

LEMMA IdleFollows ==
    ASSUME TypeOK, NEW w \in Sender, Goto(w, Idle)
    PROVE  LoopsFollow
<1>1. task'[w] = Idle
  BY DEF TypeOK, Goto
<1>2. LoopBelievesTrue(task[w])'
  BY <1>1 DEF LoopBelievesTrue
<1>3. QED
  BY <1>2, OneLoopFollows

\* A step of one loop that writes no record.
LEMMA LoopStep ==
    ASSUME TypeOK, TypeOK', DeliveryInv, LoopsFollow, HistoryKept, PostsFollow,
           UNCHANGED <<adminVars, bus, deliveries>>
    PROVE  DeliveryInv'
<1>1. EndpointsKept /\ RecordsFollow
  BY SameEndpoints, SameRecords DEF adminVars
<1>2. BusKept
  BY DEF BusKept
<1>3. QED
  BY <1>1, <1>2, InvariantStays

\* A step that changes endpoints and perhaps removes deliveries.
LEMMA AdminStep ==
    ASSUME TypeOK, TypeOK', DeliveryInv, EndpointsKept, UNCHANGED <<bus, task, historyVars>>,
           \A d \in Delivery : deliveries'[d] # NULL =>
               deliveries'[d] = deliveries[d] /\ endpoints'[d[2]] # NULL
    PROVE  DeliveryInv'
<1>1. BusKept /\ LoopsFollow /\ RecordsFollow
  BY DEF BusKept, LoopsFollow, RecordsFollow
<1>2. HistoryKept /\ PostsFollow
  BY SameHistory
<1>3. QED
  BY <1>1, <1>2, InvariantStays

-----------------------------------------------------------------------------
(***************************************************************************)
(* One step per action.                                                    *)
(***************************************************************************)
LEMMA RegisterSafe ==
    ASSUME TypeOK, TypeOK', DeliveryInv, NEW user \in User, NEW types \in Filter, NEW url \in Url,
           Register(user, types, url)
    PROVE  DeliveryInv'
<1>1. /\ registered \in Nat /\ registered' = registered + 1
      /\ \A n \in EndpointId : n # registered + 1 => endpoints'[n] = endpoints[n]
  BY Bounds DEF TypeOK, Register
<1>2. EndpointsKept
  <2>1. ASSUME NEW n \in EndpointId, n <= registered
        PROVE  endpoints'[n] = endpoints[n]
    BY <1>1, <2>1
  <2>2. ASSUME NEW n \in EndpointId, endpoints'[n] # NULL
        PROVE  n <= registered'
    <3>1. CASE n = registered + 1
      BY <1>1, <3>1
    <3>2. CASE n # registered + 1
      <4>1. Live(n)
        BY <1>1, <2>2, <3>2 DEF Live
      <4>2. n <= registered /\ n \in Nat
        BY <4>1 DEF DeliveryInv, EndpointId
      <4>3. QED
        BY <4>2, <1>1
    <3>3. QED
      BY <3>1, <3>2
  <2>3. QED
    BY <1>1, <2>1, <2>2 DEF EndpointsKept
<1>3. ASSUME NEW d \in Delivery, deliveries'[d] # NULL
      PROVE  deliveries'[d] = deliveries[d] /\ endpoints'[d[2]] # NULL
  <2>1. deliveries' = deliveries /\ Live(d[2]) /\ d[2] <= registered
    BY <1>3, PairParts DEF Register, DeliveryInv, Recorded
  <2>2. QED
    BY <1>2, <1>1, <2>1, PairParts DEF Live, EndpointId
<1>4. QED
  BY <1>2, <1>3, AdminStep DEF Register

LEMMA UpdateSafe ==
    ASSUME TypeOK, TypeOK', DeliveryInv, NEW user \in User, NEW n \in EndpointId,
           NEW patch \in EndpointPatch, Update(user, n, patch)
    PROVE  DeliveryInv'
<1> DEFINE row == [endpoints[n] EXCEPT !.enabled = Given(patch, "enabled", @),
                                       !.url = Given(patch, "url", @),
                                       !.types = Given(patch, "types", @)]
<1>1. endpoints[n] \in Endpoint /\ endpoints[n] # NULL
  BY LiveIsEndpoint DEF Update, Edit, Live
<1>2. endpoints' = [endpoints EXCEPT ![n] = row]
  BY <1>1 DEF Update, TypeOK, Endpoint
<1>3. row \in Endpoint /\ row.owner = endpoints[n].owner
  BY <1>1, UpdatedEndpoint DEF Endpoint
<1>4. row # NULL
  BY <1>3, DispatcherAssumption
<1> HIDE DEF row
<1>5. /\ \A m \in EndpointId : m # n => endpoints'[m] = endpoints[m]
      /\ endpoints'[n] = row /\ endpoints[n] # NULL /\ endpoints'[n].owner = endpoints[n].owner
  BY <1>1, <1>2, <1>3 DEF TypeOK
<1>6. EndpointsKept
  <2>1. registered' = registered /\ registered <= registered
    BY Bounds DEF Update, TypeOK
  <2>2. \A m \in EndpointId : endpoints'[m] # NULL => m <= registered
    BY <1>5 DEF DeliveryInv, Live
  <2>3. QED
    BY <1>5, <2>1, <2>2 DEF EndpointsKept
<1>7. ASSUME NEW d \in Delivery, deliveries'[d] # NULL
      PROVE  deliveries'[d] = deliveries[d] /\ endpoints'[d[2]] # NULL
  BY <1>4, <1>5, <1>7, PairParts DEF Update, DeliveryInv, Recorded, Live
<1>8. QED
  BY <1>6, <1>7, AdminStep DEF Update

LEMMA RotateSafe ==
    ASSUME TypeOK, TypeOK', DeliveryInv, NEW user \in User, NEW n \in EndpointId, RotateSecret(user, n)
    PROVE  DeliveryInv'
<1> DEFINE row == [endpoints[n] EXCEPT !.secret = @ + 1]
<1>1. endpoints[n] \in Endpoint /\ endpoints[n] # NULL
  BY LiveIsEndpoint DEF RotateSecret, Edit, Live
<1>2. endpoints' = [endpoints EXCEPT ![n] = row]
  BY DEF RotateSecret
<1>3. row \in Endpoint /\ row.owner = endpoints[n].owner
  BY <1>1 DEF Endpoint
<1>4. row # NULL
  BY <1>3, DispatcherAssumption
<1> HIDE DEF row
<1>5. /\ \A m \in EndpointId : m # n => endpoints'[m] = endpoints[m]
      /\ endpoints'[n] = row /\ endpoints[n] # NULL /\ endpoints'[n].owner = endpoints[n].owner
  BY <1>1, <1>2, <1>3 DEF TypeOK
<1>6. EndpointsKept
  <2>1. registered' = registered /\ registered <= registered
    BY Bounds DEF RotateSecret, TypeOK
  <2>2. \A m \in EndpointId : endpoints'[m] # NULL => m <= registered
    BY <1>5 DEF DeliveryInv, Live
  <2>3. QED
    BY <1>5, <2>1, <2>2 DEF EndpointsKept
<1>7. ASSUME NEW d \in Delivery, deliveries'[d] # NULL
      PROVE  deliveries'[d] = deliveries[d] /\ endpoints'[d[2]] # NULL
  BY <1>4, <1>5, <1>7, PairParts DEF RotateSecret, DeliveryInv, Recorded, Live
<1>8. QED
  BY <1>6, <1>7, AdminStep DEF RotateSecret

LEMMA RemoveSafe ==
    ASSUME TypeOK, TypeOK', DeliveryInv, NEW user \in User, NEW n \in EndpointId, Remove(user, n)
    PROVE  DeliveryInv'
<1>1. /\ \A m \in EndpointId : m # n => endpoints'[m] = endpoints[m]
      /\ endpoints'[n] = NULL
  BY DEF TypeOK, Remove
<1>2. EndpointsKept
  <2>1. registered' = registered /\ registered <= registered
    BY Bounds DEF Remove, TypeOK
  <2>2. \A m \in EndpointId : endpoints'[m] # NULL => m <= registered
    BY <1>1 DEF DeliveryInv, Live
  <2>3. QED
    BY <1>1, <2>1, <2>2 DEF EndpointsKept
<1>3. ASSUME NEW d \in Delivery, deliveries'[d] # NULL
      PROVE  deliveries'[d] = deliveries[d] /\ endpoints'[d[2]] # NULL
  <2>1. d[2] # n /\ deliveries'[d] = deliveries[d]
    BY <1>3 DEF Remove, WithoutThoseOf
  <2>2. QED
    BY <1>1, <1>3, <2>1, PairParts DEF DeliveryInv, Recorded, Live
<1>4. QED
  BY <1>2, <1>3, AdminStep DEF Remove

LEMMA NotifySafe ==
    ASSUME TypeOK, TypeOK', DeliveryInv, NEW payload \in Payload, Notify(payload)
    PROVE  DeliveryInv'
<1>1. EndpointsKept /\ RecordsFollow /\ HistoryKept /\ PostsFollow
  BY SameEndpoints, SameRecords, SameHistory DEF Notify, adminVars
<1>2. BusKept
  BY DEF BusKept, TypeOK, Notify
<1>3. LoopsFollow
  BY DEF LoopsFollow, Notify
<1>4. QED
  BY <1>1, <1>2, <1>3, InvariantStays

LEMMA FanOutSafe ==
    ASSUME TypeOK, TypeOK', DeliveryInv, NEW e \in EventId, FanOut(e)
    PROVE  DeliveryInv'
<1> DEFINE told == {<<e, n>> : n \in {m \in EndpointId : Wants(m, bus[e])}}
<1>1. ASSUME NEW w \in Sender, w \in told
      PROVE  LoopBelievesTrue(task[w])'
  <2>1. PICK n \in EndpointId : w = <<e, n>> /\ Wants(n, bus[e])
    BY <1>1
  <2>2. /\ task'[w].step = "create" /\ task'[w].delivery = w
        /\ UNCHANGED <<bus, endpoints, registered>>
    BY <1>1 DEF FanOut, adminVars
  <2>3. e \in DOMAIN bus
    BY DEF TypeOK, FanOut
  <2>4. n <= registered /\ endpoints[n].owner = bus[e].user
    BY <2>1 DEF DeliveryInv, Wants
  <2>5. OwnPair(w)'
    BY <2>1, <2>2, <2>3, <2>4 DEF OwnPair, Live
  <2>6. QED
    BY <2>2, <2>5 DEF LoopBelievesTrue, OwnPair, Live
<1>2. ASSUME NEW w \in Sender, w \notin told
      PROVE  task'[w] = task[w]
  BY <1>2 DEF FanOut
<1>3. LoopsFollow
  BY <1>1, <1>2 DEF LoopsFollow
<1>4. QED
  BY <1>3, SameHistory, LoopStep DEF FanOut

\* The head of the loop asks for no more than what the loop has just made true.
LEMMA NextTryTrue ==
    ASSUME TypeOK, NEW d \in Delivery, NEW target, NEW attempts \in Nat, NEW tried \in Nat,
           OwnPair(d), attempts <= posts[d], tried <= posts[d]
    PROVE  LoopBelievesTrue(NextTry(d, target, attempts, tried))
<1>1. posts[d] \in Nat /\ MaxAttempts \in Nat
  BY Bounds DEF TypeOK
<1>2. CASE tried < MaxAttempts
  <2>1. NextTry(d, target, attempts, tried) = Trying(d, target, attempts, tried)
    BY <1>2 DEF NextTry
  <2>2. QED
    BY <2>1 DEF LoopBelievesTrue, Trying
<1>3. CASE ~(tried < MaxAttempts)
  <2>1. NextTry(d, target, attempts, tried) = Finalizing(d, "FAILED", attempts)
    BY <1>3 DEF NextTry
  <2>2. posts[d] >= MaxAttempts
    BY <1>1, <1>3
  <2>3. QED
    BY <2>1, <2>2 DEF LoopBelievesTrue, Finalizing
<1>4. QED
  BY <1>2, <1>3

LEMMA CreateDeliverySafe ==
    ASSUME TypeOK, TypeOK', DeliveryInv, NEW w \in Sender, CreateDelivery(w)
    PROVE  DeliveryInv'
<1> DEFINE d == task[w].delivery
           t == NextTry(d, task[w].target, 0, 0)
<1>1. task[w] \in Task /\ task[w].step = "create"
  BY DEF TypeOK, CreateDelivery
<1>2. d \in Delivery /\ OwnPair(d) /\ posts[d] \in Nat
  BY <1>1, CreateTask, IdleTask DEF DeliveryInv, LoopBelievesTrue, TypeOK
<1>3. EndpointsKept /\ HistoryKept /\ PostsFollow
  BY SameEndpoints, SameHistory DEF CreateDelivery, adminVars
<1>4. UNCHANGED <<endpoints, registered, bus, posts, acked>>
  BY DEF CreateDelivery, adminVars, historyVars
<1>5. BusKept
  BY <1>4 DEF BusKept
<1>6. CASE Live(d[2])
  <2>1. deliveries' = [deliveries EXCEPT ![d] = [status |-> "PENDING", attempts |-> 0]] /\ Goto(w, t)
    BY <1>6 DEF CreateDelivery
  <2>2. LoopBelievesTrue(t)
    BY <1>2, NextTryTrue
  <2>3. task'[w] = t
    BY <2>1 DEF Goto, TypeOK
  <2>4. LoopBelievesTrue(task[w])'
    BY <1>4, <2>2, <2>3 DEF LoopBelievesTrue, OwnPair, Live
  <2>5. LoopsFollow
    BY <2>1, <2>4, OneLoopFollows
  <2>6. ASSUME NEW c \in Delivery, deliveries'[c] # NULL
        PROVE  /\ endpoints'[c[2]] # NULL
               /\ deliveries'[c] = deliveries[c] \/ (OwnPair(c)' /\ RecordTrue(c)')
    <3>1. CASE c = d
      <4>1. deliveries'[c] = [status |-> "PENDING", attempts |-> 0]
        BY <1>2, <2>1, <3>1 DEF TypeOK
      <4>2. RecordTrue(c)'
        BY <1>2, <1>4, <3>1, <4>1 DEF RecordTrue
      <4>3. OwnPair(c)'
        BY <1>2, <1>4, <3>1 DEF OwnPair, Live
      <4>4. QED
        BY <1>4, <1>6, <3>1, <4>2, <4>3 DEF Live
    <3>2. CASE c # d
      BY <1>4, <2>1, <2>6, <3>2 DEF TypeOK, DeliveryInv, Recorded, Live
    <3>3. QED
      BY <3>1, <3>2
  <2>7. RecordsFollow
    BY <2>6 DEF RecordsFollow
  <2>8. QED
    BY <1>3, <1>5, <2>5, <2>7, InvariantStays
<1>7. CASE ~Live(d[2])
  <2>1. Goto(w, Idle) /\ UNCHANGED deliveries
    BY <1>7 DEF CreateDelivery
  <2>2. QED
    BY <1>3, <2>1, IdleFollows, LoopStep DEF CreateDelivery
<1>8. QED
  BY <1>6, <1>7

LEMMA FindEndpointSafe ==
    ASSUME TypeOK, TypeOK', DeliveryInv, NEW w \in Sender, FindEndpoint(w)
    PROVE  DeliveryInv'
<1> DEFINE d == task[w].delivery
           t == NextTry(d, TargetOf(d[2]), task[w].attempts, 0)
<1>1. task[w] \in Task /\ task[w].step = "findEndpoint"
  BY DEF TypeOK, FindEndpoint
<1>2. /\ d \in Delivery /\ OwnPair(d) /\ posts[d] \in Nat
      /\ task[w].attempts \in Nat /\ task[w].attempts <= posts[d]
  BY <1>1, FindTask, IdleTask DEF DeliveryInv, LoopBelievesTrue, TypeOK
<1>3. HistoryKept /\ PostsFollow
  BY SameHistory DEF FindEndpoint
<1>4. UNCHANGED <<endpoints, registered, bus, posts, acked>>
  BY DEF FindEndpoint, adminVars, historyVars
<1>5. CASE Live(d[2])
  <2>1. Goto(w, t)
    BY <1>5 DEF FindEndpoint
  <2>2. LoopBelievesTrue(t)
    BY <1>2, NextTryTrue
  <2>3. task'[w] = t
    BY <2>1 DEF Goto, TypeOK
  <2>4. LoopBelievesTrue(task[w])'
    BY <1>4, <2>2, <2>3 DEF LoopBelievesTrue, OwnPair, Live
  <2>5. QED
    BY <1>3, <2>1, <2>4, OneLoopFollows, LoopStep DEF FindEndpoint
<1>6. CASE ~Live(d[2])
  BY <1>3, <1>6, IdleFollows, LoopStep DEF FindEndpoint
<1>7. QED
  BY <1>5, <1>6

LEMMA PostSafe ==
    ASSUME TypeOK, TypeOK', DeliveryInv, NEW w \in Sender, Post(w)
    PROVE  DeliveryInv'
<1> DEFINE u == [task[w] EXCEPT !.step = "await", !.attempts = @ + 1, !.tried = @ + 1]
<1>1. task[w] \in Task /\ task[w].step = "post"
  BY DEF TypeOK, Post
<1>2. PICK d \in Delivery : d = task[w].delivery
  BY <1>1, SendTask
<1>3. /\ OwnPair(d) /\ posts[d] \in Nat
      /\ task[w].attempts \in Nat /\ task[w].attempts <= posts[d]
      /\ task[w].tried \in Nat /\ task[w].tried <= posts[d]
  BY <1>1, <1>2, SendTask, IdleTask DEF DeliveryInv, LoopBelievesTrue, TypeOK
<1>4. /\ u.step = "await" /\ u.delivery = d
      /\ u.attempts = task[w].attempts + 1 /\ u.tried = task[w].tried + 1
  BY <1>1, <1>2, AwaitType
<1>5. task'[w] = u
  BY DEF Post, Goto, TypeOK
<1>6. /\ UNCHANGED <<endpoints, registered, bus, acked>>
      /\ posts'[d] = posts[d] + 1
      /\ \A c \in Delivery : c # d => posts'[c] = posts[c]
  BY <1>2, <1>3 DEF Post, adminVars, TypeOK
<1> HIDE DEF u
<1>7. OwnPair(d)'
  BY <1>3, <1>6 DEF OwnPair, Live
<1>8. LoopBelievesTrue(task[w])'
  <2>1. /\ task'[w].step = "await" /\ task'[w].delivery = d
        /\ task'[w].attempts <= posts'[d] /\ task'[w].tried <= posts'[d]
    BY <1>3, <1>4, <1>5, <1>6
  <2>2. QED
    BY <1>7, <2>1 DEF LoopBelievesTrue, OwnPair, Live
<1>9. LoopsFollow
  BY <1>8, OneLoopFollows, <1>5 DEF Post, u
<1>10. HistoryKept /\ PostsFollow
  <2>1. \A c \in Delivery : posts[c] \in Nat
    BY DEF TypeOK
  <2>2. PostsFollow
    BY <1>6, <1>7 DEF PostsFollow
  <2>3. HistoryKept
    BY <1>6, <2>1 DEF HistoryKept
  <2>4. QED
    BY <2>2, <2>3
<1>11. QED
  BY <1>9, <1>10, LoopStep DEF Post

LEMMA AcceptedSafe ==
    ASSUME TypeOK, TypeOK', DeliveryInv, NEW w \in Sender, Accepted(w)
    PROVE  DeliveryInv'
<1> DEFINE d == task[w].delivery
           t == Finalizing(d, "SUCCEEDED", task[w].attempts)
<1>1. task[w] \in Task /\ task[w].step = "await"
  BY DEF TypeOK, Accepted
<1>2. d \in Delivery /\ OwnPair(d) /\ task[w].attempts <= posts[d]
  BY <1>1, SendTask, IdleTask DEF DeliveryInv, LoopBelievesTrue, TypeOK
<1>3. task'[w] = t /\ UNCHANGED <<endpoints, registered, bus, posts>> /\ acked' = acked \cup {d}
  BY DEF Accepted, Goto, TypeOK, adminVars
<1>4. LoopBelievesTrue(task[w])'
  BY <1>2, <1>3 DEF LoopBelievesTrue, Finalizing, OwnPair, Live
<1>5. HistoryKept /\ PostsFollow
  <2>1. \A c \in Delivery : posts[c] \in Nat
    BY DEF TypeOK
  <2>2. QED
    BY <1>3, <2>1 DEF HistoryKept, PostsFollow
<1>6. QED
  BY <1>4, <1>5, OneLoopFollows, LoopStep DEF Accepted

LEMMA RefusedSafe ==
    ASSUME TypeOK, TypeOK', DeliveryInv, NEW w \in Sender, Refused(w)
    PROVE  DeliveryInv'
<1> DEFINE d == task[w].delivery
           t == AfterRefusal(task[w])
<1>1. task[w] \in Task /\ task[w].step = "await"
  BY DEF TypeOK, Refused
<1>2. /\ d \in Delivery /\ OwnPair(d)
      /\ task[w].attempts \in Nat /\ task[w].attempts <= posts[d]
      /\ task[w].tried \in Nat /\ task[w].tried <= posts[d]
  BY <1>1, SendTask, IdleTask DEF DeliveryInv, LoopBelievesTrue, TypeOK
<1>3. LoopBelievesTrue(t)
  BY <1>2, NextTryTrue DEF AfterRefusal
<1>4. task'[w] = t /\ UNCHANGED <<endpoints, registered, bus, posts, acked>>
  BY DEF Refused, Goto, TypeOK, adminVars, historyVars
<1>5. LoopBelievesTrue(task[w])'
  BY <1>3, <1>4 DEF LoopBelievesTrue, OwnPair, Live
<1>6. QED
  BY <1>5, SameHistory, OneLoopFollows, LoopStep DEF Refused

LEMMA FinalizeSafe ==
    ASSUME TypeOK, TypeOK', DeliveryInv, NEW w \in Sender, Finalize(w)
    PROVE  DeliveryInv'
<1> DEFINE d == task[w].delivery
           row == [status |-> task[w].status, attempts |-> task[w].attempts]
<1>1. task[w] \in Task /\ task[w].step = "finalize"
  BY DEF TypeOK, Finalize
<1>2. /\ d \in Delivery /\ OwnPair(d) /\ task[w].attempts <= posts[d]
      /\ task[w].status \in {"SUCCEEDED", "FAILED"}
      /\ IF task[w].status = "SUCCEEDED" THEN d \in acked ELSE posts[d] >= MaxAttempts
  BY <1>1, FinalTask, IdleTask DEF DeliveryInv, LoopBelievesTrue
<1>3. UNCHANGED <<endpoints, registered, bus, posts, acked>>
  BY DEF Finalize, adminVars, historyVars
<1>4. EndpointsKept /\ HistoryKept /\ PostsFollow
  BY <1>3, SameEndpoints, SameHistory DEF Finalize
<1>5. BusKept /\ LoopsFollow
  BY <1>3, IdleFollows DEF BusKept, Finalize
<1>6. ASSUME NEW c \in Delivery, deliveries'[c] # NULL
      PROVE  /\ endpoints'[c[2]] # NULL
             /\ deliveries'[c] = deliveries[c] \/ (OwnPair(c)' /\ RecordTrue(c)')
  <2>1. deliveries[c] # NULL
    BY <1>6 DEF Finalize, TypeOK
  <2>2. endpoints'[c[2]] # NULL
    BY <1>3, <2>1 DEF DeliveryInv, Recorded, Live
  <2>3. CASE c = d
    <3>1. deliveries'[c] = row
      BY <1>2, <2>1, <2>3 DEF Finalize, TypeOK
    <3>2. RecordTrue(c)'
      BY <1>2, <1>3, <2>3, <3>1 DEF RecordTrue
    <3>3. OwnPair(c)'
      BY <1>2, <1>3, <2>3 DEF OwnPair, Live
    <3>4. QED
      BY <2>2, <3>2, <3>3
  <2>4. CASE c # d
    <3>1. deliveries'[c] = deliveries[c]
      BY <2>4 DEF Finalize, TypeOK
    <3>2. QED
      BY <2>2, <3>1
  <2>5. QED
    BY <2>3, <2>4
<1>7. RecordsFollow
  BY <1>6 DEF RecordsFollow
<1>8. QED
  BY <1>4, <1>5, <1>7, InvariantStays

LEMMA RedeliverSafe ==
    ASSUME TypeOK, TypeOK', DeliveryInv, NEW r \in Resender, NEW user \in User, NEW d \in Delivery,
           Redeliver(r, user, d)
    PROVE  DeliveryInv'
<1> DEFINE t == [step |-> "findEndpoint", delivery |-> d, attempts |-> deliveries[d].attempts]
<1>1. d \in Recorded /\ r \in Sender
  BY DEF Redeliver, Recorded, Sender
<1>2. OwnPair(d) /\ deliveries[d].attempts <= posts[d]
  BY <1>1 DEF DeliveryInv, NoInventedAttempts
<1>3. task'[r] = t /\ UNCHANGED <<endpoints, registered, bus, posts, acked>>
  BY <1>1 DEF Redeliver, Goto, TypeOK, adminVars, historyVars
<1>4. LoopBelievesTrue(task[r])'
  BY <1>2, <1>3 DEF LoopBelievesTrue, OwnPair, Live
<1>5. QED
  BY <1>1, <1>4, SameHistory, OneLoopFollows, LoopStep DEF Redeliver

LEMMA FailuresSafe ==
    ASSUME TypeOK, TypeOK', DeliveryInv,
           \/ \E w \in Sender : CallFails(w)
           \/ \E e \in EventId : FanOutFails(e)
           \/ Crash
    PROVE  DeliveryInv'
<1>1. UNCHANGED <<adminVars, bus, deliveries, historyVars>>
  BY DEF CallFails, FanOutFails, Crash
<1>2. LoopsFollow
  <2>1. ASSUME NEW w \in Sender, CallFails(w)
        PROVE  LoopsFollow
    BY <2>1, IdleFollows DEF CallFails
  <2>2. CASE \E e \in EventId : FanOutFails(e)
    BY <2>2 DEF FanOutFails, LoopsFollow
  <2>3. CASE Crash
    BY <2>3 DEF Crash, LoopsFollow, LoopBelievesTrue
  <2>4. QED
    BY <2>1, <2>2, <2>3
<1>3. QED
  BY <1>1, <1>2, SameHistory, LoopStep

-----------------------------------------------------------------------------
(***************************************************************************)
(* The invariant of the specification, and what follows from it.           *)
(***************************************************************************)
LEMMA InitInv == Init => DeliveryInv
BY IdleTask
   DEF Init, DeliveryInv, Recorded, Live, LoopBelievesTrue,
       AcknowledgedIsReal, FailedWasRetried, NoInventedAttempts

LEMMA NextInv == TypeOK /\ TypeOK' /\ DeliveryInv /\ [Next]_vars => DeliveryInv'
<1> SUFFICES ASSUME TypeOK, TypeOK', DeliveryInv, [Next]_vars
             PROVE  DeliveryInv'
  OBVIOUS
<1>1. CASE UNCHANGED vars
  <2>1. UNCHANGED <<adminVars, bus, deliveries, historyVars, task>>
    BY <1>1 DEF vars
  <2>2. LoopsFollow
    BY <2>1 DEF LoopsFollow
  <2>3. QED
    BY <2>1, <2>2, SameHistory, LoopStep
<1>2. CASE Crash
  BY <1>2, FailuresSafe
<1>3. ASSUME NEW payload \in Payload, Notify(payload)
      PROVE  DeliveryInv'
  BY <1>3, NotifySafe
<1>4. CASE Step
  <2>1. ASSUME NEW user \in User, NEW types \in Filter, NEW url \in Url, Register(user, types, url)
        PROVE  DeliveryInv'
    BY <2>1, RegisterSafe
  <2>2. ASSUME NEW user \in User, NEW n \in EndpointId, NEW patch \in EndpointPatch,
               Update(user, n, patch)
        PROVE  DeliveryInv'
    BY <2>2, UpdateSafe
  <2>3. ASSUME NEW user \in User, NEW n \in EndpointId, RotateSecret(user, n) \/ Remove(user, n)
        PROVE  DeliveryInv'
    BY <2>3, RotateSafe, RemoveSafe
  <2>4. ASSUME NEW user \in User, NEW r \in Resender, NEW d \in Delivery, Redeliver(r, user, d)
        PROVE  DeliveryInv'
    BY <2>4, RedeliverSafe
  <2>5. ASSUME NEW e \in EventId, FanOut(e) \/ FanOutFails(e)
        PROVE  DeliveryInv'
    BY <2>5, FanOutSafe, FailuresSafe
  <2>6. ASSUME NEW w \in Sender, Work(w) \/ CallFails(w)
        PROVE  DeliveryInv'
    BY <2>6, CreateDeliverySafe, FindEndpointSafe, PostSafe, AcceptedSafe, RefusedSafe,
       FinalizeSafe, FailuresSafe DEF Work
  <2>7. QED
    BY <1>4, <2>1, <2>2, <2>3, <2>4, <2>5, <2>6 DEF Step
<1>5. QED
  BY <1>1, <1>2, <1>3, <1>4 DEF Next

\* Whatever loops over one delivery overlap, crash or fail, each is right about
\* its attempts, its verdict and its addressee when it writes them.
THEOREM DeliveriesTrue == Spec => []DeliveryInv
<1>1. TypeOK /\ [Next]_vars => TypeOK'
  BY NextTypeOK
<1>2. QED
  BY <1>1, InitTypeOK, InitInv, NextInv, PTL DEF Spec

\* A delivery is recorded as SUCCEEDED only if the receiver acknowledged it.
THEOREM SuccessAcknowledged == Spec => []AcknowledgedIsReal
<1>1. DeliveryInv => AcknowledgedIsReal
  BY DEF DeliveryInv
<1>2. QED
  BY <1>1, DeliveriesTrue, PTL

\* A delivery is recorded as FAILED only after a whole round of attempts.
THEOREM FailureRetried == Spec => []FailedWasRetried
<1>1. DeliveryInv => FailedWasRetried
  BY DEF DeliveryInv
<1>2. QED
  BY <1>1, DeliveriesTrue, PTL

\* No record claims more attempts than were made.
THEOREM AttemptsReal == Spec => []NoInventedAttempts
<1>1. DeliveryInv => NoInventedAttempts
  BY DEF DeliveryInv
<1>2. QED
  BY <1>1, DeliveriesTrue, PTL

\* Events, and the records of their deliveries, stay with their consumer.
THEOREM EventsStayHome == Spec => []OwnEventsOnly
<1>1. DeliveryInv => OwnEventsOnly
  BY DEF DeliveryInv, OwnEventsOnly, WebhookLogs, OwnPair, Recorded
<1>2. QED
  BY <1>1, DeliveriesTrue, PTL

-----------------------------------------------------------------------------
(***************************************************************************)
(* Bounded retries: no loop knows of the others, but each has a number of  *)
(* tries left and uses one up with every request.                          *)
(***************************************************************************)
LEMMA OneRound ==
    ASSUME NEW w
    PROVE  /\ IsFiniteSet({w} \X (1..MaxAttempts))
           /\ Cardinality({w} \X (1..MaxAttempts)) = MaxAttempts
<1>1. IsFiniteSet(1..MaxAttempts) /\ Cardinality(1..MaxAttempts) = MaxAttempts
  BY Bounds, FS_Interval
<1>2. IsFiniteSet({w}) /\ Cardinality({w}) = 1
  BY FS_Singleton
<1>3. /\ IsFiniteSet({w} \X (1..MaxAttempts))
      /\ Cardinality({w} \X (1..MaxAttempts)) = Cardinality({w}) * Cardinality(1..MaxAttempts)
  BY <1>1, <1>2, FS_Product
<1>4. QED
  BY <1>1, <1>2, <1>3, Bounds

LEMMA MoreBudget ==
    ASSUME NEW n \in Nat
    PROVE  /\ MaxAttempts * (1 + n) \in Nat
           /\ MaxAttempts * (1 + (n + 1)) = MaxAttempts * (1 + n) + MaxAttempts
BY Bounds

\* A step that adds no tries and no requests.
LEMMA BudgetShrinks ==
    ASSUME TypeOK, NEW d \in Delivery, WithinBudget(d),
           TriesLeft(d)' \subseteq TriesLeft(d), posts'[d] = posts[d], redelivered' = redelivered
    PROVE  WithinBudget(d)'
<1>1. posts[d] \in Nat /\ redelivered \in Nat
  BY Bounds DEF TypeOK
<1>2. /\ IsFiniteSet(TriesLeft(d)') /\ Cardinality(TriesLeft(d)') <= Cardinality(TriesLeft(d))
      /\ Cardinality(TriesLeft(d)) \in Nat /\ Cardinality(TriesLeft(d)') \in Nat
  BY FS_Subset, FS_CardinalityType DEF WithinBudget
<1> DEFINE left == Cardinality(TriesLeft(d))
           next == Cardinality(TriesLeft(d)')
           budget == MaxAttempts * (1 + redelivered)
<1>3. budget \in Nat /\ posts[d] + left <= budget
  BY <1>1, MoreBudget DEF WithinBudget
<1> HIDE DEF budget
<1>4. posts[d] + next <= budget
  BY <1>1, <1>2, <1>3
<1>5. QED
  BY <1>2, <1>4 DEF WithinBudget, budget

\* What a loop may do next without having more tries than before.
GoesOn(w, t) ==
    \/ t = Idle
    \/ t.step = "finalize" /\ t.delivery = task[w].delivery
    \/ /\ t.step = "post" /\ t.delivery = task[w].delivery
       /\ t.tried \in Nat /\ t.tried < MaxAttempts
       /\ \/ task[w].step \in {"create", "findEndpoint"}
          \/ task[w].step = "await" /\ t.tried = task[w].tried

LEMMA LoopGoesOn ==
    ASSUME TypeOK, TypeOK', RetryInv, NEW w \in Sender, NEW t, task[w] # Idle,
           Goto(w, t), GoesOn(w, t), UNCHANGED <<bus, waiting, posts, redelivered>>
    PROVE  RetryInv'
<1>1. task' = [task EXCEPT ![w] = t] /\ task'[w] = t
  BY DEF Goto, TypeOK
<1>2. \A x \in Sender \ {w} : task'[x] = task[x]
  BY <1>1 DEF TypeOK
<1>3. ASSUME NEW d \in Delivery
      PROVE  TriesLeft(d)' \subseteq TriesLeft(d)
  <2>1. ASSUME NEW k \in 1..MaxAttempts, MayTry(w, d, k)'
        PROVE  MayTry(w, d, k)
    BY <1>1, <2>1, IdleTask DEF MayTry, GoesOn
  <2>2. ASSUME NEW x \in Sender \ {w}, NEW k \in 1..MaxAttempts, MayTry(x, d, k)'
        PROVE  MayTry(x, d, k)
    BY <1>2, <2>2 DEF MayTry
  <2>3. QED
    BY <2>1, <2>2 DEF TriesLeft
<1>4. \A d \in Delivery : WithinBudget(d)'
  BY <1>3, BudgetShrinks DEF RetryInv
<1>5. ASSUME NEW x \in Sender
      PROVE  InTurn(x)'
  BY <1>1, <1>2, IdleTask DEF RetryInv, InTurn, GoesOn
<1>6. QED
  BY <1>4, <1>5 DEF RetryInv

LEMMA NextTryGoesOn ==
    ASSUME NEW w, NEW target, NEW attempts, NEW tried \in Nat,
           \/ task[w].step \in {"create", "findEndpoint"}
           \/ task[w].step = "await" /\ tried = task[w].tried
    PROVE  GoesOn(w, NextTry(task[w].delivery, target, attempts, tried))
BY DEF GoesOn, NextTry, Trying, Finalizing

\* Tasks and events untouched: nothing about tries changes.
LEMMA QuietRetries ==
    ASSUME TypeOK, RetryInv, UNCHANGED <<bus, waiting, posts, redelivered, task>>
    PROVE  RetryInv'
<1>1. \A d \in Delivery : TriesLeft(d)' = TriesLeft(d)
  BY DEF TriesLeft, MayTry
<1>2. \A d \in Delivery : WithinBudget(d)'
  BY <1>1, BudgetShrinks DEF RetryInv
<1>3. QED
  BY <1>2 DEF RetryInv, InTurn

LEMMA WorkInBudget ==
    ASSUME TypeOK, TypeOK', RetryInv, NEW w \in Sender,
           \/ CreateDelivery(w) \/ FindEndpoint(w) \/ Accepted(w)
           \/ Refused(w) \/ Finalize(w) \/ CallFails(w)
    PROVE  RetryInv'
<1>1. task[w] \in Task /\ task[w] # Idle
  BY IdleTask DEF TypeOK, CreateDelivery, FindEndpoint, Accepted, Refused, Finalize, CallFails
<1>2. UNCHANGED <<bus, waiting, posts, redelivered>>
  BY DEF CreateDelivery, FindEndpoint, Accepted, Refused, Finalize, CallFails, historyVars
<1>3. PICK t : Goto(w, t) /\ GoesOn(w, t)
  <2>1. GoesOn(w, Idle)
    BY DEF GoesOn
  <2>2. CASE CreateDelivery(w)
    <3>1. GoesOn(w, NextTry(task[w].delivery, task[w].target, 0, 0))
      BY <2>2, NextTryGoesOn DEF CreateDelivery
    <3>2. QED
      BY <2>1, <2>2, <3>1 DEF CreateDelivery
  <2>3. CASE FindEndpoint(w)
    <3>1. GoesOn(w, NextTry(task[w].delivery, TargetOf(task[w].delivery[2]), task[w].attempts, 0))
      BY <2>3, NextTryGoesOn DEF FindEndpoint
    <3>2. QED
      BY <2>1, <2>3, <3>1 DEF FindEndpoint
  <2>4. CASE Accepted(w)
    BY <2>4 DEF Accepted, GoesOn, Finalizing
  <2>5. CASE Refused(w)
    <3>1. task[w].tried \in Nat /\ task[w].step = "await"
      BY <1>1, <2>5, SendTask DEF Refused
    <3>2. GoesOn(w, AfterRefusal(task[w]))
      BY <3>1, NextTryGoesOn DEF AfterRefusal
    <3>3. QED
      BY <2>5, <3>2 DEF Refused
  <2>6. CASE Finalize(w) \/ CallFails(w)
    BY <2>1, <2>6 DEF Finalize, CallFails
  <2>7. QED
    BY <2>2, <2>3, <2>4, <2>5, <2>6
<1>4. QED
  BY <1>1, <1>2, <1>3, LoopGoesOn

\* A request uses up the try it makes.
LEMMA PostInBudget ==
    ASSUME TypeOK, TypeOK', RetryInv, NEW w \in Sender, Post(w)
    PROVE  RetryInv'
<1> DEFINE u == [task[w] EXCEPT !.step = "await", !.attempts = @ + 1, !.tried = @ + 1]
<1>1. task[w] \in Task /\ task[w].step = "post" /\ task[w] # Idle
  BY IdleTask DEF TypeOK, Post
<1>2. PICK d \in Delivery, k \in Nat : d = task[w].delivery /\ k = task[w].tried
  BY <1>1, SendTask
<1>3. u.step = "await" /\ u.delivery = d /\ u.tried = k + 1
  BY <1>1, <1>2, AwaitType
<1>4. /\ task'[w] = u /\ \A x \in Sender \ {w} : task'[x] = task[x]
      /\ UNCHANGED <<bus, waiting, redelivered>>
      /\ posts'[d] = posts[d] + 1 /\ \A c \in Delivery \ {d} : posts'[c] = posts[c]
  BY <1>2 DEF Post, Goto, TypeOK
<1> HIDE DEF u
<1>5. InTurn(w) /\ k + 1 \in 1..MaxAttempts
  BY <1>1, <1>2, Bounds DEF RetryInv, InTurn
<1>6. ASSUME NEW c \in Delivery
      PROVE  TriesLeft(c)' \subseteq TriesLeft(c)
  <2>1. ASSUME NEW x \in Sender, NEW j \in 1..MaxAttempts, MayTry(x, c, j)'
        PROVE  MayTry(x, c, j)
    BY <1>1, <1>2, <1>3, <1>4, <2>1 DEF MayTry
  <2>2. QED
    BY <2>1 DEF TriesLeft
<1>7. <<w, k + 1>> \in TriesLeft(d) /\ <<w, k + 1>> \notin TriesLeft(d)'
  <2>1. MayTry(w, d, k + 1)
    BY <1>1, <1>2 DEF MayTry
  <2>2. ~(w = d /\ d[1] \notin DOMAIN bus' \ waiting')
    BY <1>1, <1>4, <1>5 DEF InTurn
  <2>3. ~MayTry(w, d, k + 1)'
    BY <1>2, <1>3, <1>4, <2>2 DEF MayTry
  <2>4. QED
    BY <1>5, <2>1, <2>3 DEF TriesLeft
<1>8. WithinBudget(d)'
  <2> DEFINE left == TriesLeft(d)
             next == TriesLeft(d)'
             budget == MaxAttempts * (1 + redelivered)
  <2>1. IsFiniteSet(left) /\ Cardinality(left) \in Nat
    BY FS_CardinalityType DEF RetryInv, WithinBudget
  <2>2. IsFiniteSet(left \ {<<w, k + 1>>}) /\ Cardinality(left \ {<<w, k + 1>>}) = Cardinality(left) - 1
    BY <1>7, <2>1, FS_RemoveElement
  <2>3. next \subseteq left \ {<<w, k + 1>>}
    BY <1>6, <1>7
  <2>4. IsFiniteSet(next) /\ Cardinality(next) <= Cardinality(left) - 1 /\ Cardinality(next) \in Nat
    BY <2>2, <2>3, FS_Subset, FS_CardinalityType
  <2>5. budget \in Nat /\ posts[d] \in Nat /\ posts[d] + Cardinality(left) <= budget
    BY MoreBudget DEF TypeOK, RetryInv, WithinBudget
  <2> HIDE DEF left, next, budget
  <2>6. posts'[d] + Cardinality(next) <= budget
    BY <1>4, <2>1, <2>4, <2>5
  <2>7. QED
    BY <1>4, <2>4, <2>6 DEF WithinBudget, next, budget
<1>9. \A c \in Delivery : WithinBudget(c)'
  BY <1>4, <1>6, <1>8, BudgetShrinks DEF RetryInv
<1>10. \A x \in Sender : InTurn(x)'
  BY <1>1, <1>2, <1>3, <1>4, IdleTask DEF RetryInv, InTurn
<1>11. QED
  BY <1>9, <1>10 DEF RetryInv

\* A redeliver request brings a round of its own.
LEMMA RedeliverInBudget ==
    ASSUME TypeOK, TypeOK', RetryInv, NEW r \in Resender, NEW user \in User, NEW d \in Delivery,
           Redeliver(r, user, d)
    PROVE  RetryInv'
<1>1. r \in Sender /\ r \notin Delivery
  BY DispatcherAssumption DEF Sender
<1>2. /\ task'[r] = [step |-> "findEndpoint", delivery |-> d, attempts |-> deliveries[d].attempts]
      /\ \A x \in Sender \ {r} : task'[x] = task[x]
      /\ UNCHANGED <<bus, waiting, posts>> /\ redelivered' = redelivered + 1
  BY <1>1 DEF Redeliver, Goto, TypeOK, historyVars
<1>3. ASSUME NEW c \in Delivery
      PROVE  WithinBudget(c)'
  <2> DEFINE left == TriesLeft(c)
             next == TriesLeft(c)'
             round == {r} \X (1..MaxAttempts)
             budget == MaxAttempts * (1 + redelivered)
  <2>1. next \subseteq left \cup round
    BY <1>2 DEF TriesLeft, MayTry
  <2>2. IsFiniteSet(left) /\ Cardinality(left) \in Nat
    BY FS_CardinalityType DEF RetryInv, WithinBudget
  <2>3. IsFiniteSet(round) /\ Cardinality(round) = MaxAttempts
    BY OneRound
  <2>4. /\ IsFiniteSet(left \cup round)
        /\ Cardinality(left \cup round) = Cardinality(left) + MaxAttempts - Cardinality(left \cap round)
    BY <2>2, <2>3, FS_Union
  <2>5. Cardinality(left \cap round) \in Nat
    BY <2>2, FS_Subset, FS_CardinalityType
  <2>6. /\ IsFiniteSet(next) /\ Cardinality(next) \in Nat
        /\ Cardinality(next) <= Cardinality(left \cup round)
    BY <2>1, <2>4, FS_Subset, FS_CardinalityType
  <2>7. /\ budget \in Nat /\ posts[c] \in Nat /\ posts[c] + Cardinality(left) <= budget
        /\ MaxAttempts * (1 + redelivered') = budget + MaxAttempts
    BY <1>2, Bounds, MoreBudget DEF TypeOK, RetryInv, WithinBudget
  <2> HIDE DEF left, next, round, budget
  <2>8. posts'[c] + Cardinality(next) <= budget + MaxAttempts
    BY <1>2, <2>2, <2>4, <2>5, <2>6, <2>7, Bounds
  <2>9. QED
    BY <2>6, <2>7, <2>8 DEF WithinBudget, next
<1>4. \A x \in Sender : InTurn(x)'
  BY <1>1, <1>2 DEF RetryInv, InTurn
<1>5. QED
  BY <1>3, <1>4 DEF RetryInv

\* The loops of an event begin with the round that was set aside for them.
LEMMA FanOutInBudget ==
    ASSUME TypeOK, TypeOK', RetryInv, NEW e \in EventId, FanOut(e) \/ FanOutFails(e)
    PROVE  RetryInv'
<1>1. UNCHANGED <<bus, posts, redelivered>> /\ waiting' = waiting \ {e} /\ e \in waiting
  BY DEF FanOut, FanOutFails, historyVars
<1>2. e \in DOMAIN bus
  BY <1>1 DEF TypeOK
<1>3. ASSUME NEW w \in Sender
      PROVE  \/ task'[w] = task[w]
             \/ w \in Delivery /\ w[1] = e /\ task'[w].step = "create" /\ task'[w].delivery = w
  <2>1. CASE FanOutFails(e)
    BY <2>1 DEF FanOutFails
  <2>2. CASE FanOut(e)
    <3>1. \A n \in EndpointId : <<e, n>> \in Delivery /\ <<e, n>>[1] = e
      BY DEF Delivery
    <3>2. QED
      BY <2>2, <3>1 DEF FanOut
  <2>3. QED
    BY <2>1, <2>2
<1>4. ASSUME NEW d \in Delivery
      PROVE  TriesLeft(d)' \subseteq TriesLeft(d)
  <2>1. ASSUME NEW x \in Sender, NEW j \in 1..MaxAttempts, MayTry(x, d, j)'
        PROVE  MayTry(x, d, j)
    BY <1>1, <1>2, <1>3, <2>1 DEF MayTry
  <2>2. QED
    BY <2>1 DEF TriesLeft
<1>5. \A d \in Delivery : WithinBudget(d)'
  BY <1>1, <1>4, BudgetShrinks DEF RetryInv
<1>6. \A w \in Sender : InTurn(w)'
  BY <1>1, <1>2, <1>3 DEF RetryInv, InTurn
<1>7. QED
  BY <1>5, <1>6 DEF RetryInv

LEMMA NotifyInBudget ==
    ASSUME TypeOK, TypeOK', RetryInv, NEW payload \in Payload, Notify(payload)
    PROVE  RetryInv'
<1>1. UNCHANGED <<posts, redelivered, task>>
  BY DEF Notify, historyVars
<1>2. \A e : e \in DOMAIN bus \ waiting <=> e \in DOMAIN bus' \ waiting'
  <2>1. bus \in Seq(Payload) /\ waiting \subseteq DOMAIN bus
    BY DEF TypeOK
  <2>2. bus' = Append(bus, payload) /\ waiting' = waiting \cup {Len(bus) + 1}
    BY DEF Notify
  <2>3. QED
    BY <2>1, <2>2
<1>3. \A d \in Delivery : TriesLeft(d)' = TriesLeft(d)
  BY <1>1, <1>2 DEF TriesLeft, MayTry
<1>4. \A d \in Delivery : WithinBudget(d)'
  BY <1>1, <1>3, BudgetShrinks DEF RetryInv
<1>5. QED
  BY <1>1, <1>2, <1>4 DEF RetryInv, InTurn

LEMMA CrashInBudget ==
    ASSUME TypeOK, TypeOK', RetryInv, Crash
    PROVE  RetryInv'
<1>1. /\ UNCHANGED <<bus, posts, redelivered>> /\ waiting' = {}
      /\ \A w \in Sender : task'[w] = Idle
  BY DEF Crash, historyVars
<1>2. ASSUME NEW d \in Delivery
      PROVE  TriesLeft(d)' \subseteq TriesLeft(d)
  <2>1. ASSUME NEW x \in Sender, NEW j \in 1..MaxAttempts, MayTry(x, d, j)'
        PROVE  MayTry(x, d, j)
    BY <1>1, <2>1, IdleTask DEF MayTry
  <2>2. QED
    BY <2>1 DEF TriesLeft
<1>3. \A d \in Delivery : WithinBudget(d)'
  BY <1>1, <1>2, BudgetShrinks DEF RetryInv
<1>4. QED
  BY <1>1, <1>3, IdleTask DEF RetryInv, InTurn

LEMMA InitBudget == Init => RetryInv
<1> SUFFICES ASSUME Init
             PROVE  RetryInv
  OBVIOUS
<1>1. ASSUME NEW d \in Delivery
      PROVE  WithinBudget(d)
  <2>1. TriesLeft(d) \subseteq {d} \X (1..MaxAttempts)
    BY IdleTask DEF Init, TriesLeft, MayTry
  <2>2. /\ IsFiniteSet(TriesLeft(d)) /\ Cardinality(TriesLeft(d)) <= MaxAttempts
        /\ Cardinality(TriesLeft(d)) \in Nat
    <3> DEFINE round == {d} \X (1..MaxAttempts)
    <3>1. IsFiniteSet(round) /\ Cardinality(round) = MaxAttempts
      BY OneRound
    <3> HIDE DEF round
    <3>2. IsFiniteSet(TriesLeft(d)) /\ Cardinality(TriesLeft(d)) <= Cardinality(round)
      BY <2>1, <3>1, FS_Subset DEF round
    <3>3. QED
      BY <3>1, <3>2, FS_CardinalityType
  <2>3. posts[d] = 0 /\ redelivered = 0 /\ MaxAttempts * (1 + 0) = MaxAttempts
    BY Bounds DEF Init
  <2>4. QED
    BY <2>2, <2>3 DEF WithinBudget
<1>2. \A w \in Sender : InTurn(w)
  BY IdleTask DEF Init, InTurn
<1>3. QED
  BY <1>1, <1>2 DEF RetryInv

LEMMA NextBudget == TypeOK /\ TypeOK' /\ RetryInv /\ [Next]_vars => RetryInv'
<1> SUFFICES ASSUME TypeOK, TypeOK', RetryInv, [Next]_vars
             PROVE  RetryInv'
  OBVIOUS
<1>1. CASE UNCHANGED vars
  BY <1>1, QuietRetries DEF vars, historyVars
<1>2. CASE Crash
  BY <1>2, CrashInBudget
<1>3. ASSUME NEW payload \in Payload, Notify(payload)
      PROVE  RetryInv'
  BY <1>3, NotifyInBudget
<1>4. CASE Step
  <2>1. ASSUME NEW user \in User, NEW types, NEW url, Register(user, types, url)
        PROVE  RetryInv'
    BY <2>1, QuietRetries DEF Register, historyVars
  <2>2. ASSUME NEW user \in User, NEW n \in EndpointId,
               \/ \E patch \in EndpointPatch : Update(user, n, patch)
               \/ RotateSecret(user, n) \/ Remove(user, n)
        PROVE  RetryInv'
    BY <2>2, QuietRetries DEF Update, RotateSecret, Remove, historyVars
  <2>3. ASSUME NEW user \in User, NEW r \in Resender, NEW d \in Delivery, Redeliver(r, user, d)
        PROVE  RetryInv'
    BY <2>3, RedeliverInBudget
  <2>4. ASSUME NEW e \in EventId, FanOut(e) \/ FanOutFails(e)
        PROVE  RetryInv'
    BY <2>4, FanOutInBudget
  <2>5. ASSUME NEW w \in Sender, Work(w) \/ CallFails(w)
        PROVE  RetryInv'
    BY <2>5, WorkInBudget, PostInBudget DEF Work
  <2>6. QED
    BY <1>4, <2>1, <2>2, <2>3, <2>4, <2>5 DEF Step
<1>5. QED
  BY <1>1, <1>2, <1>3, <1>4 DEF Next

\* However rounds of one delivery overlap, fail or are cut off by a crash, all
\* requests made and still to be made are covered by the rounds asked for.
THEOREM RetriesBudgeted == Spec => []RetryInv
<1>1. TypeOK /\ [Next]_vars => TypeOK'
  BY NextTypeOK
<1>2. QED
  BY <1>1, InitTypeOK, InitBudget, NextBudget, PTL DEF Spec

\* A receiver sees one round of requests for the event and one for every
\* redeliver request, and no more.
THEOREM PostsBounded == Spec => []BoundedPosts
<1>1. TypeOK /\ RetryInv => BoundedPosts
  <2> SUFFICES ASSUME TypeOK, RetryInv, NEW d \in Delivery
               PROVE  posts[d] <= MaxAttempts * (1 + redelivered)
    BY DEF BoundedPosts
  <2> DEFINE left == Cardinality(TriesLeft(d))
             budget == MaxAttempts * (1 + redelivered)
  <2>1. left \in Nat /\ posts[d] + left <= budget
    BY FS_CardinalityType DEF RetryInv, WithinBudget
  <2>2. posts[d] \in Nat /\ budget \in Nat
    BY Bounds, MoreBudget DEF TypeOK
  <2> HIDE DEF left, budget
  <2>3. posts[d] <= budget
    BY <2>1, <2>2
  <2>4. QED
    BY <2>3 DEF budget
<1>2. QED
  BY <1>1, TypeCorrect, RetriesBudgeted, PTL
=============================================================================
