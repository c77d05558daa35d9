------------------------------ MODULE ConsoleProofs ------------------------------
(***************************************************************************)
(* Proofs about Console: the guards serve exactly the keys that were       *)
(* issued for a route, and concurrent handlers of one product respect its  *)
(* owner, each other's deletes and each other's acknowledged updates.      *)
(***************************************************************************)
EXTENDS Console, FiniteSetTheorems, TLAPS

LEMMA Bounds == MaxRequests \in Nat /\ Len(Shelf) \in Nat
BY ConsoleAssumption

LEMMA NullIsNoValue == NULL \notin {401, 403, 503} /\ NULL # "admin"
BY ConsoleAssumption

-----------------------------------------------------------------------------
(***************************************************************************)
(* The guards against what a key was issued for.                           *)
(***************************************************************************)
LEMMA ForwardedContext ==
    ASSUME NEW request \in Request, request.headers.secret = GatewaySecret,
           request.headers.username # NULL
    PROVE  /\ Consumer(request) # NULL
           /\ request.headers.username = request.key.username
           /\ Consumer(request).username = request.key.username
           /\ Consumer(request).role = ParseRole(FirstHeader(request.key.role))
           /\ Consumer(request).permissions = request.key.scopes
<1>1. PICK form \in {"list", "json"} :
         request.headers = Forwarded(request.key, form)
  BY GatewayForwards
<1>2. /\ Consumer(request) # NULL /\ request.headers.permissions # NULL
  BY GatewayForwards DEF Consumer
<1>3. /\ request.headers.username = request.key.username
      /\ request.headers.role = request.key.role
      /\ request.headers.permissions.form # "malformed"
      /\ request.headers.permissions.scopes = request.key.scopes
  BY <1>1 DEF Forwarded
<1>4. Consumer(request) =
         [username    |-> request.headers.username,
          environment |-> ParseEnvironment(FirstHeader(request.headers.environment)),
          role        |-> ParseRole(FirstHeader(request.headers.role)),
          permissions |-> ParsePermissions(request.headers.permissions)]
  BY <1>2 DEF Consumer, ContextOf
<1>5. ParsePermissions(request.headers.permissions) = request.key.scopes
  BY <1>2, <1>3 DEF ParsePermissions
<1>6. QED
  BY <1>2, <1>3, <1>4, <1>5

\* An administrator's role is the only one parsed as it.
LEMMA AdminRole ==
    ASSUME NEW role
    PROVE  (ParseRole(FirstHeader(role)) = "admin") <=> (role = "admin")
BY NullIsNoValue DEF ParseRole, FirstHeader

\* Whoever passes the guards of a route holds a key that was issued for it.
LEMMA PassedIsEntitled ==
    ASSUME NEW request \in Request, ~IsPublic(request.route),
           Refusal(IsPublic(request.route), request.headers, Required(request.route)) = NULL
    PROVE  Entitled(request)
<1> DEFINE headers == request.headers
           required == Required(request.route)
<1>1. ApisixRefusal(headers) = NULL /\ PermissionRefusal(headers, required) = NULL
  BY DEF Refusal
<1>2. headers.secret = GatewaySecret /\ ContextOf(headers) # NULL
  BY <1>1, NullIsNoValue DEF ApisixRefusal, HasValidSecret
<1>3. headers.username # NULL
  BY <1>2 DEF ContextOf, FirstHeader
<1>4. required = {} \/ Granted(ContextOf(headers), required)
  BY <1>1, <1>2, NullIsNoValue DEF PermissionRefusal
<1>5. headers.username = request.key.username
  BY <1>2, <1>3, ForwardedContext
<1>6. request.key.role = "admin" \/ required \subseteq request.key.scopes
  BY <1>2, <1>3, <1>4, ForwardedContext, AdminRole DEF Granted, Consumer
<1>7. QED
  BY <1>2, <1>5, <1>6 DEF Entitled

\* No key is refused a route that it was issued for.
LEMMA EntitledPasses ==
    ASSUME NEW request \in Request, Entitled(request)
    PROVE  Refusal(IsPublic(request.route), request.headers, Required(request.route)) = NULL
<1> DEFINE headers == request.headers
           required == Required(request.route)
<1>1. headers.secret = GatewaySecret /\ headers.username # NULL
  BY GatewayForwards DEF Entitled
<1>2. ContextOf(headers) # NULL
  BY <1>1, ForwardedContext DEF Consumer
<1>3. Granted(ContextOf(headers), required)
  BY <1>1, ForwardedContext, AdminRole DEF Entitled, Granted, Consumer
<1>4. ApisixRefusal(headers) = NULL
  BY <1>1, <1>2, SecretConfigured DEF ApisixRefusal, HasValidSecret
<1>5. PermissionRefusal(headers, required) = NULL
  BY <1>2, <1>3 DEF PermissionRefusal
<1>6. QED
  BY <1>4, <1>5 DEF Refusal

\* The service runs with a secret, so the guards answer nothing else.
LEMMA RefusalStatus ==
    ASSUME NEW isPublic, NEW headers, NEW required
    PROVE  Refusal(isPublic, headers, required) \in {NULL, 401, 403}
<1>1. ApisixRefusal(headers) \in {NULL, 401, 403}
  <2>1. GatewaySecret # ""
    BY SecretConfigured
  <2>2. CASE headers.secret # GatewaySecret
    <3>1. ApisixRefusal(headers) = 403
      BY <2>1, <2>2 DEF ApisixRefusal, HasValidSecret
    <3>2. QED
      BY <3>1
  <2>3. CASE headers.secret = GatewaySecret /\ ContextOf(headers) = NULL
    BY <2>1, <2>3 DEF ApisixRefusal, HasValidSecret
  <2>4. CASE headers.secret = GatewaySecret /\ ContextOf(headers) # NULL
    BY <2>1, <2>4 DEF ApisixRefusal, HasValidSecret
  <2>5. QED
    BY <2>2, <2>3, <2>4
<1>2. PermissionRefusal(headers, required) \in {NULL, 401, 403}
  BY DEF PermissionRefusal
<1>3. QED
  BY <1>1, <1>2 DEF Refusal

LEMMA EntitledCaller ==
    ASSUME NEW request \in Request, Entitled(request)
    PROVE  Consumer(request).username = request.key.username
BY ForwardedContext, GatewayForwards DEF Entitled

-----------------------------------------------------------------------------
(***************************************************************************)
(* What no step undoes: requests are kept, ids count up, and a product     *)
(* that is there was there, with the same owner, since its id was given    *)
(* out.  A step then answers only for the tasks and answers it changes.    *)
(***************************************************************************)
RequestsKept == \A n \in DOMAIN asked : n \in DOMAIN asked' /\ asked'[n] = asked[n]

ProductsKept ==
    /\ stocked <= stocked'
    /\ \A i \in ProductId : i <= stocked /\ products'[i] # NULL =>
          products[i] # NULL /\ products'[i].owner = products[i].owner

TasksFollow == \A n \in Number : task'[n] = task[n] \/ TaskTrue(n)'

HonestAnswer(n) ==
    answers[n] # NULL =>
        /\ answers[n].status < 400 /\ ~IsPublic(asked[n].route) =>
              /\ Entitled(asked[n])
              /\ \A row \in answers[n].rows : row.owner = asked[n].key.username
        /\ answers[n].status \in {401, 403} => ~Entitled(asked[n])

AnswersFollow == \A n \in Number : answers'[n] = answers[n] \/ (AnswerTrue(n)' /\ HonestAnswer(n)')

LEMMA NumberOfRequest ==
    ASSUME Shape, NEW n \in DOMAIN asked
    PROVE  n \in Number /\ asked[n] \in Request
BY Bounds DEF Shape, Number

LEMMA TaskStays ==
    ASSUME ConsoleInv, Shape', RequestsKept, ProductsKept, NEW n \in Number, task'[n] = task[n]
    PROVE  TaskTrue(n)'
<1>1. CASE task[n] = Idle
  BY <1>1 DEF TaskTrue
<1>2. CASE task[n] # Idle
  <2>1. TaskTrue(n) /\ n \in DOMAIN asked /\ n \in DOMAIN asked' /\ asked'[n] = asked[n]
    BY <1>2 DEF ConsoleInv, TaskTrue, RequestsKept
  <2>2. ~IsPublic(asked'[n].route) => Entitled(asked'[n])
    BY <1>2, <2>1 DEF TaskTrue
  <2>3. ASSUME task'[n].step = "write"
        PROVE  CheckedOwner(n)'
    <3>1. CheckedOwner(n) /\ stocked \in Nat /\ stocked' \in Nat /\ stocked <= stocked'
      BY <1>2, <2>1, <2>3 DEF TaskTrue, At, ConsoleInv, Shape, ProductsKept
    <3>2. asked[n].id \in 1..stocked' /\ asked[n].id <= stocked
      BY <3>1 DEF CheckedOwner
    <3>3. QED
      BY <2>1, <3>1, <3>2 DEF CheckedOwner, ProductsKept, Stored
  <2>4. QED
    BY <2>1, <2>2, <2>3 DEF TaskTrue, At, Entitled
<1>3. QED
  BY <1>1, <1>2

LEMMA AnswerStays ==
    ASSUME ConsoleInv, Shape', RequestsKept, ProductsKept, NEW n \in Number, answers'[n] = answers[n]
    PROVE  AnswerTrue(n)' /\ HonestAnswer(n)'
<1>1. CASE answers[n] = NULL
  BY <1>1 DEF AnswerTrue, HonestAnswer
<1>2. CASE answers[n] # NULL
  <2>1. AnswerTrue(n) /\ n \in DOMAIN asked /\ n \in DOMAIN asked' /\ asked'[n] = asked[n]
    BY <1>2 DEF ConsoleInv, AnswerTrue, RequestsKept
  <2>2. stocked \in Nat /\ stocked' \in Nat /\ stocked <= stocked'
    BY DEF ConsoleInv, Shape, ProductsKept
  <2>3. AnswerTrue(n)'
    BY <1>2, <2>1, <2>2 DEF AnswerTrue, ProductsKept, Stored
  <2>4. HonestAnswer(n)'
    BY <1>2, <2>1 DEF ConsoleInv, ServedToEntitled, EntitledIsServed, HonestAnswer, Entitled
  <2>5. QED
    BY <2>3, <2>4
<1>3. QED
  BY <1>1, <1>2

LEMMA InvariantStays ==
    ASSUME ConsoleInv, Shape', RowsInPlace', RequestsKept, ProductsKept, TasksFollow, AnswersFollow,
           RemovedOnce', NoUpdateLost'
    PROVE  ConsoleInv'
<1>1. ASSUME NEW n \in Number PROVE TaskTrue(n)'
  BY TaskStays DEF TasksFollow
<1>2. ASSUME NEW n \in Number PROVE AnswerTrue(n)' /\ HonestAnswer(n)'
  BY AnswerStays DEF AnswersFollow
<1>3. ASSUME NEW n \in DOMAIN asked' PROVE n \in Number
  BY Bounds DEF Shape, Number
<1>4. ServedToEntitled' /\ EntitledIsServed'
  BY <1>2, <1>3 DEF ServedToEntitled, EntitledIsServed, HonestAnswer
<1>5. QED
  BY <1>1, <1>2, <1>4 DEF ConsoleInv

-----------------------------------------------------------------------------
(***************************************************************************)
(* Steps that acknowledge no update, or no delete.                         *)
(***************************************************************************)
Unacknowledged(route) ==
    \A n \in Number :
        answers'[n] = answers[n] \/ answers'[n].status # 200 \/ asked'[n].route # route

\* Rows are added or deleted, but none is rewritten.
RowsStay == \A i \in Stored' : i <= stocked => i \in Stored /\ products'[i] = products[i]

LEMMA OldAcknowledgement ==
    ASSUME ConsoleInv, Shape', RequestsKept, NEW n \in DOMAIN asked', NEW route,
           Unacknowledged(route), asked'[n].route = route, answers'[n] # NULL, answers'[n].status = 200
    PROVE  n \in DOMAIN asked /\ n \in Number /\ asked'[n] = asked[n] /\ answers'[n] = answers[n]
<1>1. n \in Number
  BY Bounds DEF Shape, Number
<1>2. answers'[n] = answers[n]
  BY <1>1 DEF Unacknowledged
<1>3. n \in DOMAIN asked
  BY <1>1, <1>2 DEF ConsoleInv, AnswerTrue
<1>4. QED
  BY <1>1, <1>2, <1>3 DEF RequestsKept

LEMMA RemovedOnceStays ==
    ASSUME ConsoleInv, Shape', RequestsKept, Unacknowledged("remove")
    PROVE  RemovedOnce'
<1>1. ASSUME NEW n \in DOMAIN asked', asked'[n].route = "remove",
             answers'[n] # NULL, answers'[n].status = 200
      PROVE  n \in DOMAIN asked /\ asked'[n] = asked[n] /\ answers'[n] = answers[n]
  BY <1>1, OldAcknowledgement
<1>2. QED
  BY <1>1 DEF ConsoleInv, RemovedOnce

LEMMA NoUpdateLostStays ==
    ASSUME ConsoleInv, Shape', RequestsKept, RowsStay, Unacknowledged("update")
    PROVE  NoUpdateLost'
<1>1. ASSUME NEW i \in Stored', NEW field \in {"amount", "asset", "active"},
             NEW n \in Updates(i, field)', answers'[n] # NULL, answers'[n].status = 200
      PROVE  \E m \in Updates(i, field)' : products'[i][field] = Changes(asked'[m].body)[field]
  <2>1. n \in DOMAIN asked' /\ asked'[n].route = "update" /\ asked'[n].id = i
    BY <1>1 DEF Updates
  <2>2. n \in DOMAIN asked /\ n \in Number /\ asked'[n] = asked[n] /\ answers'[n] = answers[n]
    BY <1>1, <2>1, OldAcknowledgement
  <2>3. i <= stocked
    BY <1>1, <2>1, <2>2 DEF ConsoleInv, AnswerTrue, Shape
  <2>4. i \in Stored /\ products'[i] = products[i]
    BY <1>1, <2>3 DEF RowsStay
  <2>5. n \in Updates(i, field)
    BY <1>1, <2>2 DEF Updates
  <2>6. PICK m \in Updates(i, field) : products[i][field] = Changes(asked[m].body)[field]
    BY <1>1, <2>2, <2>4, <2>5 DEF ConsoleInv, NoUpdateLost
  <2>7. m \in DOMAIN asked' /\ asked'[m] = asked[m]
    BY <2>6 DEF Updates, RequestsKept
  <2>8. m \in Updates(i, field)'
    BY <2>6, <2>7 DEF Updates
  <2>9. QED
    BY <2>4, <2>6, <2>7, <2>8
<1>2. QED
  BY <1>1 DEF NoUpdateLost

LEMMA RowsStayKept ==
    ASSUME Shape, Shape', RowsStay, stocked <= stocked'
    PROVE  ProductsKept
BY DEF RowsStay, ProductsKept, Stored

NothingAcknowledged == Unacknowledged("update") /\ Unacknowledged("remove")

LEMMA QuietStep ==
    ASSUME ConsoleInv, Shape', RequestsKept, TasksFollow, AnswersFollow, NothingAcknowledged,
           UNCHANGED <<products, stocked>>
    PROVE  ConsoleInv'
<1>1. RowsStay /\ RowsInPlace' /\ ProductsKept
  BY DEF RowsStay, ProductsKept, RowsInPlace, ConsoleInv, Shape, Stored
<1>2. QED
  BY <1>1, RemovedOnceStays, NoUpdateLostStays, InvariantStays DEF NothingAcknowledged

-----------------------------------------------------------------------------
(***************************************************************************)
(* Ends of handlers.                                                       *)
(***************************************************************************)
LEMMA Responded ==
    ASSUME Shape, NEW n \in Number, NEW request, NEW status, NEW rows,
           Respond(n, request, status, rows)
    PROVE  /\ task'[n] = Idle /\ answers'[n].status = status /\ answers'[n].rows = rows
           /\ \A m \in Number : m # n => task'[m] = task[m] /\ answers'[m] = answers[m]
           /\ DOMAIN task' = Number /\ DOMAIN answers' = Number
BY DEF Shape, Respond, Goto, Answer

\* What is known of a request whose handler is suspended.
LEMMA Suspended ==
    ASSUME ConsoleInv, NEW n \in Number, task[n].step # "idle"
    PROVE  /\ task[n] # Idle /\ n \in DOMAIN asked /\ asked[n] \in Request /\ asked[n].valid
           /\ task[n].step \in StepsOf(asked[n].route)
           /\ ~IsPublic(asked[n].route) =>
                 /\ Entitled(asked[n])
                 /\ Consumer(asked[n]).username = asked[n].key.username
<1>1. task[n] # Idle
  BY DEF Idle
<1>2. TaskTrue(n) /\ Shape
  BY DEF ConsoleInv
<1>3. n \in DOMAIN asked /\ asked[n] \in Request
  BY <1>1, <1>2, NumberOfRequest DEF TaskTrue
<1>4. QED
  BY <1>1, <1>2, <1>3, EntitledCaller DEF TaskTrue

\* An answer may be given if it is no refusal and shows only the caller's rows.
LEMMA AnswerAllowed ==
    ASSUME ConsoleInv, NEW n \in Number, task[n].step # "idle", UNCHANGED asked,
           NEW status \in {200, 201, 404, 500, 503}, NEW rows,
           \/ status >= 400 \/ IsPublic(asked[n].route)
           \/ \A row \in rows : row.owner = Consumer(asked[n]).username,
           answers'[n].status = status, answers'[n].rows = rows
    PROVE  HonestAnswer(n)'
<1>1. ~IsPublic(asked[n].route) =>
         Entitled(asked[n]) /\ Consumer(asked[n]).username = asked[n].key.username
  BY Suspended
<1>2. status \notin {401, 403}
  OBVIOUS
<1>3. ASSUME status < 400, ~IsPublic(asked[n].route)
      PROVE  Entitled(asked[n]) /\ \A row \in rows : row.owner = asked[n].key.username
  BY <1>1, <1>3
<1>4. QED
  BY <1>2, <1>3 DEF HonestAnswer, Entitled

LEMMA EndStep ==
    ASSUME ConsoleInv, NEW n \in Number, task[n].step # "idle",
           UNCHANGED <<products, stocked, asked>>,
           NEW status \in {200, 201, 404, 500, 503}, NEW rows, Respond(n, asked[n], status, rows),
           \/ status >= 400 \/ IsPublic(asked[n].route)
           \/ \A row \in rows : row.owner = Consumer(asked[n]).username,
           status # 200 \/ asked[n].route \notin {"update", "remove"}
    PROVE  ConsoleInv'
<1>1. Shape
  BY DEF ConsoleInv
<1>2. /\ task'[n] = Idle /\ answers'[n].status = status /\ answers'[n].rows = rows
      /\ \A m \in Number : m # n => task'[m] = task[m] /\ answers'[m] = answers[m]
      /\ DOMAIN task' = Number /\ DOMAIN answers' = Number
  BY <1>1, Responded
<1>3. n \in DOMAIN asked
  BY Suspended
<1>4. Shape'
  BY <1>1, <1>2 DEF Shape
<1>5. TasksFollow
  BY <1>2 DEF TasksFollow, TaskTrue
<1>6. HonestAnswer(n)'
  BY <1>2, AnswerAllowed
<1>7. AnswerTrue(n)'
  BY <1>2, <1>3 DEF AnswerTrue
<1>8. AnswersFollow /\ NothingAcknowledged
  BY <1>2, <1>6, <1>7 DEF AnswersFollow, NothingAcknowledged, Unacknowledged
<1>9. RequestsKept
  BY DEF RequestsKept
<1>10. QED
  BY <1>4, <1>5, <1>8, <1>9, QuietStep

LEMMA ReceiveSafe ==
    ASSUME ConsoleInv, NEW request \in Request, Receive(request)
    PROVE  ConsoleInv'
<1> DEFINE refused == Refusal(IsPublic(request.route), request.headers, Required(request.route))
<1>1. Shape
  BY DEF ConsoleInv
<1>n. PICK n \in Number : n = Len(asked) + 1
  BY <1>1, Bounds DEF Shape, Receive, Number
<1>2. asked' = Append(asked, request) /\ UNCHANGED <<products, stocked>>
  BY DEF Receive, tables
<1>3. /\ asked' \in Seq(Request) /\ Len(asked') <= MaxRequests
      /\ n \in DOMAIN asked' /\ asked'[n] = request /\ n \notin DOMAIN asked
  BY <1>n, <1>1, <1>2, Bounds DEF Shape, Number
<1>4. RequestsKept
  BY <1>1, <1>2 DEF RequestsKept, Shape
<1>5. ASSUME NEW status \in {200, 400, 401, 403, 503},
             NEW rows, rows = {},
             answers'[n].status = status, answers'[n].rows = rows,
             \A m \in Number : m # n => answers'[m] = answers[m],
             DOMAIN answers' = Number,
             status = 200 => IsPublic(request.route),
             status \in {401, 403} => ~Entitled(request)
      PROVE  AnswersFollow /\ NothingAcknowledged
  <2>1. HonestAnswer(n)'
    BY <1>3, <1>5 DEF HonestAnswer, Entitled
  <2>2. IsPublic(request.route) => request.route \notin {"update", "remove"}
    BY DEF IsPublic
  <2>3. AnswerTrue(n)'
    BY <1>3, <1>5, <2>2 DEF AnswerTrue
  <2>4. QED
    BY <1>3, <1>5, <2>1, <2>2, <2>3 DEF AnswersFollow, NothingAcknowledged, Unacknowledged
<1>6. CASE refused # NULL
  <2>1. Answer(n, refused, {}) /\ UNCHANGED task
    BY <1>n, <1>6 DEF Receive
  <2>2. refused \in {401, 403}
    BY <1>6, RefusalStatus
  <2>3. ~Entitled(request)
    BY <1>6, EntitledPasses
  <2>4. /\ answers'[n].status = refused /\ answers'[n].rows = {}
        /\ \A m \in Number : m # n => answers'[m] = answers[m]
        /\ DOMAIN answers' = Number
    BY <1>1, <1>2, <2>1 DEF Answer, Shape
  <2>5. AnswersFollow /\ NothingAcknowledged
    BY <1>5, <2>2, <2>3, <2>4
  <2>6. Shape' /\ TasksFollow
    BY <1>1, <1>2, <1>3, <2>1, <2>4 DEF Shape, TasksFollow
  <2>7. QED
    BY <1>2, <1>4, <2>5, <2>6, QuietStep
<1>7. ASSUME NEW status \in {200, 400}, Respond(n, request, status, {}),
             status = 200 => IsPublic(request.route)
      PROVE  ConsoleInv'
  <2>1. /\ task'[n] = Idle /\ answers'[n].status = status /\ answers'[n].rows = {}
        /\ \A m \in Number : m # n => task'[m] = task[m] /\ answers'[m] = answers[m]
        /\ DOMAIN task' = Number /\ DOMAIN answers' = Number
    BY <1>1, <1>2, <1>7, Responded
  <2>2. AnswersFollow /\ NothingAcknowledged
    BY <1>5, <1>7, <2>1
  <2>3. Shape' /\ TasksFollow
    BY <1>1, <1>2, <1>3, <2>1 DEF Shape, TasksFollow, TaskTrue
  <2>4. QED
    BY <1>2, <1>4, <2>2, <2>3, QuietStep
<1>8. CASE refused = NULL /\ request.valid /\ request.route # "liveness"
  <2>1. /\ Goto(n, [step |-> FirstStep[request.route]]) /\ UNCHANGED answers
    BY <1>n, <1>8 DEF Receive
  <2>2. /\ task'[n] = [step |-> FirstStep[request.route]]
        /\ \A m \in Number : m # n => task'[m] = task[m]
        /\ DOMAIN task' = Number
    BY <1>1, <1>2, <2>1 DEF Goto, Shape
  <2>3. request.route \in {"create", "list", "get", "update", "remove", "readiness"}
    BY <1>8, Validated
  <2>4. FirstStep[request.route] \in StepsOf(request.route) /\ FirstStep[request.route] # "write"
    BY <2>3 DEF FirstStep, StepsOf, NextStep
  <2>5. ~IsPublic(request.route) => Entitled(request)
    BY <1>8, PassedIsEntitled
  <2>6. TaskTrue(n)'
    BY <1>3, <1>8, <2>2, <2>4, <2>5 DEF TaskTrue, At, Entitled
  <2>7. TasksFollow /\ Shape'
    BY <1>1, <1>2, <1>3, <2>1, <2>2, <2>6 DEF TasksFollow, Shape
  <2>8. AnswersFollow /\ NothingAcknowledged
    BY <2>1 DEF AnswersFollow, NothingAcknowledged, Unacknowledged
  <2>9. QED
    BY <1>2, <1>4, <2>7, <2>8, QuietStep
<1>9. request.valid \in BOOLEAN
  BY Validated
<1>10. CASE refused = NULL /\ ~request.valid
  BY <1>n, <1>7, <1>10 DEF Receive
<1>11. CASE refused = NULL /\ request.valid /\ request.route = "liveness"
  BY <1>n, <1>7, <1>11 DEF Receive, IsPublic
<1>12. QED
  BY <1>6, <1>8, <1>9, <1>10, <1>11

\* A handler goes on to its next call.
LEMMA NextCall ==
    ASSUME ConsoleInv, NEW n \in Number, NEW t, Goto(n, t),
           UNCHANGED <<products, stocked, asked, answers>>,
           TaskTrue(n)'
    PROVE  ConsoleInv'
<1>1. Shape /\ RequestsKept
  BY DEF ConsoleInv, RequestsKept
<1>2. DOMAIN task' = Number /\ \A m \in Number : m # n => task'[m] = task[m]
  BY <1>1 DEF Goto, Shape
<1>3. Shape' /\ TasksFollow
  BY <1>1, <1>2 DEF Shape, TasksFollow
<1>4. AnswersFollow /\ NothingAcknowledged
  BY DEF AnswersFollow, NothingAcknowledged, Unacknowledged
<1>5. QED
  BY <1>1, <1>3, <1>4, QuietStep

LEMMA StepOfRoute ==
    ASSUME NEW request \in Request
    PROVE  LET route == request.route
           IN  /\ "ping" \in StepsOf(route) => route = "readiness"
               /\ "resolve" \in StepsOf(route) => route \in DOMAIN NextStep
               /\ "insert" \in StepsOf(route) => route = "create"
               /\ "list" \in StepsOf(route) => route = "list"
               /\ "find" \in StepsOf(route) => route \in {"get", "update", "remove"}
               /\ "write" \in StepsOf(route) => route \in {"update", "remove"}
BY DEF StepsOf, NextStep

LEMMA PingSafe ==
    ASSUME ConsoleInv, NEW n \in Number, Ping(n)
    PROVE  ConsoleInv'
<1>1. /\ asked[n] \in Request /\ "ping" \in StepsOf(asked[n].route)
  BY Suspended DEF Ping, At
<1>2. asked[n].route = "readiness"
  BY <1>1, StepOfRoute
<1>3. Respond(n, asked[n], 200, {}) /\ UNCHANGED <<products, stocked, asked>>
  BY <1>2 DEF Ping, Success, StatusOf, tables
<1>4. QED
  BY <1>2, <1>3, EndStep DEF Ping, At

LEMMA ResolveConsumerSafe ==
    ASSUME ConsoleInv, NEW n \in Number, ResolveConsumer(n)
    PROVE  ConsoleInv'
<1>1. /\ n \in DOMAIN asked /\ asked[n] \in Request /\ asked[n].valid
      /\ "resolve" \in StepsOf(asked[n].route)
      /\ ~IsPublic(asked[n].route) => Entitled(asked[n])
  BY Suspended DEF ResolveConsumer, At
<1>2. asked[n].route \in DOMAIN NextStep
  BY <1>1, StepOfRoute
<1> DEFINE t == [step |-> NextStep[asked[n].route]]
<1>3. Goto(n, t) /\ UNCHANGED <<products, stocked, asked, answers>>
  BY DEF ResolveConsumer, historyVars
<1>4. task'[n] = t
  BY <1>3 DEF Goto, ConsoleInv, Shape
<1>5. t.step \in StepsOf(asked[n].route) /\ t.step # "write"
  BY <1>2 DEF StepsOf, NextStep
<1>6. TaskTrue(n)'
  BY <1>1, <1>3, <1>4, <1>5 DEF TaskTrue, At, Entitled
<1>7. QED
  BY <1>3, <1>6, NextCall

LEMMA FindAllSafe ==
    ASSUME ConsoleInv, NEW n \in Number, FindAll(n)
    PROVE  ConsoleInv'
<1> DEFINE rows == {products[i] : i \in {j \in Stored : Owns(Consumer(asked[n]).username, j)}}
<1>1. asked[n] \in Request /\ "list" \in StepsOf(asked[n].route)
  BY Suspended DEF FindAll, At
<1>2. asked[n].route = "list"
  BY <1>1, StepOfRoute
<1>3. Respond(n, asked[n], 200, rows) /\ UNCHANGED <<products, stocked, asked>>
  BY <1>2 DEF FindAll, Success, StatusOf, tables
<1>4. \A row \in rows : row.owner = Consumer(asked[n]).username
  BY DEF Owns
<1>5. task[n].step # "idle"
  BY DEF FindAll, At
<1> HIDE DEF rows
<1>6. QED
  BY <1>2, <1>3, <1>4, <1>5, EndStep

LEMMA FindOneSafe ==
    ASSUME ConsoleInv, NEW n \in Number, FindOne(n)
    PROVE  ConsoleInv'
<1> DEFINE i == asked[n].id
           t == [step |-> "write", seen |-> products[i]]
<1>1. /\ n \in DOMAIN asked /\ asked[n] \in Request /\ asked[n].valid
      /\ "find" \in StepsOf(asked[n].route) /\ task[n].step # "idle"
      /\ ~IsPublic(asked[n].route) =>
            Entitled(asked[n]) /\ Consumer(asked[n]).username = asked[n].key.username
  BY Suspended DEF FindOne, At
<1>2. asked[n].route \in {"get", "update", "remove"}
  BY <1>1, StepOfRoute
<1>3. UNCHANGED <<products, stocked, asked>>
  BY DEF FindOne, tables
<1>4. CASE ~Owns(Consumer(asked[n]).username, i)
  <2>1. Respond(n, asked[n], 404, {})
    BY <1>4 DEF FindOne, Fails
  <2>2. QED
    BY <1>1, <1>3, <2>1, EndStep
<1>5. CASE Owns(Consumer(asked[n]).username, i) /\ asked[n].route = "get"
  <2>1. Respond(n, asked[n], 200, {products[i]})
    BY <1>5 DEF FindOne, Success, StatusOf
  <2>2. \A row \in {products[i]} : row.owner = Consumer(asked[n]).username
    BY <1>5 DEF Owns
  <2>3. QED
    BY <1>1, <1>3, <1>5, <2>1, <2>2, EndStep
<1>6. CASE Owns(Consumer(asked[n]).username, i) /\ asked[n].route # "get"
  <2>1. Goto(n, t) /\ UNCHANGED answers
    BY <1>6 DEF FindOne
  <2>2. task'[n] = t
    BY <2>1 DEF Goto, ConsoleInv, Shape
  <2>3. i \in Stored /\ products[i].owner = asked[n].key.username /\ Entitled(asked[n])
    BY <1>1, <1>2, <1>6 DEF Owns, IsPublic
  <2>4. i \in 1..stocked
    BY <2>3, Bounds DEF ConsoleInv, Shape, RowsInPlace, Stored, ProductId
  <2>5. "write" \in StepsOf(asked[n].route)
    BY <1>2, <1>6 DEF StepsOf, NextStep
  <2>6. TaskTrue(n)'
    BY <1>1, <1>3, <2>2, <2>3, <2>4, <2>5 DEF TaskTrue, At, CheckedOwner, Entitled, Stored
  <2>7. QED
    BY <1>3, <2>1, <2>6, NextCall
<1>7. QED
  BY <1>4, <1>5, <1>6

LEMMA CallFailsSafe ==
    ASSUME ConsoleInv, NEW n \in Number, CallFails(n)
    PROVE  ConsoleInv'
<1>1. task[n].step # "idle" /\ UNCHANGED <<products, stocked, asked>>
  BY DEF CallFails, At, tables
<1>2. PICK status \in {500, 503} : Respond(n, asked[n], status, {})
  BY DEF CallFails, Fails
<1>3. QED
  BY <1>1, <1>2, EndStep

LEMMA OthersSafe ==
    ASSUME ConsoleInv,
           \/ \E n \in Number : WriteLine(n) \/ LineFails(n)
           \/ Crash
           \/ UNCHANGED vars
    PROVE  ConsoleInv'
<1>1. UNCHANGED <<products, stocked, asked, answers>>
  BY DEF WriteLine, LineFails, Crash, tables, historyVars, vars
<1>2. TasksFollow /\ DOMAIN task' = Number
  <2>1. CASE Crash
    BY <2>1 DEF Crash, TasksFollow, TaskTrue
  <2>2. CASE UNCHANGED task
    BY <2>2 DEF TasksFollow, ConsoleInv, Shape
  <2>3. QED
    BY <2>1, <2>2 DEF WriteLine, LineFails, vars
<1>3. Shape' /\ RequestsKept
  BY <1>1, <1>2 DEF ConsoleInv, Shape, RequestsKept
<1>4. AnswersFollow /\ NothingAcknowledged
  BY <1>1 DEF AnswersFollow, NothingAcknowledged, Unacknowledged
<1>5. QED
  BY <1>1, <1>2, <1>3, <1>4, QuietStep

-----------------------------------------------------------------------------
(***************************************************************************)
(* The steps that change a product.                                        *)
(***************************************************************************)
LEMMA WrittenEnds ==
    ASSUME ConsoleInv, NEW n \in Number, task[n].step # "idle", UNCHANGED asked,
           NEW rows, Written(n, rows),
           \A row \in rows : row.owner = Consumer(asked[n]).username,
           DOMAIN products' = ProductId, stocked' \in Nat
    PROVE  /\ Shape' /\ RequestsKept /\ TasksFollow /\ task'[n] = Idle
           /\ HonestAnswer(n)'
           /\ answers'[n].status \in {StatusOf(asked[n].route), 500}
           /\ \A m \in Number : m # n => answers'[m] = answers[m]
<1>1. Shape
  BY DEF ConsoleInv
<1>2. PICK status \in {StatusOf(asked[n].route), 500}, shown \in {rows, {}} :
         Respond(n, asked[n], status, shown)
  BY DEF Written, Success, Fails
<1>3. /\ task'[n] = Idle /\ answers'[n].status = status /\ answers'[n].rows = shown
      /\ \A m \in Number : m # n => task'[m] = task[m] /\ answers'[m] = answers[m]
      /\ DOMAIN task' = Number /\ DOMAIN answers' = Number
  BY <1>1, <1>2, Responded
<1>4. Shape' /\ RequestsKept /\ TasksFollow
  BY <1>1, <1>3 DEF Shape, RequestsKept, TasksFollow, TaskTrue
<1>5. \A row \in shown : row.owner = Consumer(asked[n]).username
  OBVIOUS
<1>6. status \in {200, 201, 404, 500, 503}
  BY DEF StatusOf
<1>7. HonestAnswer(n)'
  BY <1>3, <1>5, <1>6, AnswerAllowed
<1>8. QED
  BY <1>2, <1>3, <1>4, <1>7

LEMMA InsertSafe ==
    ASSUME ConsoleInv, NEW n \in Number, Insert(n)
    PROVE  ConsoleInv'
<1> DEFINE row == NewProduct(Consumer(asked[n]).username, asked[n].body)
<1>1. /\ n \in DOMAIN asked /\ asked[n] \in Request /\ "insert" \in StepsOf(asked[n].route)
      /\ task[n].step # "idle"
  BY Suspended DEF Insert, At
<1>2. asked[n].route = "create"
  BY <1>1, StepOfRoute
<1>3. /\ stocked \in Nat /\ stocked' = stocked + 1 /\ UNCHANGED asked
      /\ products' = [products EXCEPT ![stocked'] = row] /\ Written(n, {row})
  BY DEF ConsoleInv, Shape, Insert
<1>4. row.owner = Consumer(asked[n]).username /\ DOMAIN row = Field
  BY DEF NewProduct, Field
<1> HIDE DEF row
<1>5. /\ DOMAIN products' = ProductId
      /\ \A i \in ProductId : i # stocked + 1 => products'[i] = products[i]
      /\ stocked + 1 \in ProductId => products'[stocked + 1] = row
  BY <1>3 DEF ConsoleInv, Shape
<1>6. /\ Shape' /\ RequestsKept /\ TasksFollow /\ HonestAnswer(n)'
      /\ answers'[n].status \in {201, 500}
      /\ \A m \in Number : m # n => answers'[m] = answers[m]
  BY <1>1, <1>2, <1>3, <1>4, <1>5, WrittenEnds DEF StatusOf
<1>7. AnswersFollow /\ NothingAcknowledged
  BY <1>1, <1>2, <1>3, <1>6
     DEF AnswersFollow, NothingAcknowledged, Unacknowledged, AnswerTrue
<1>8. RowsStay
  BY <1>3, <1>5 DEF RowsStay, Stored, ProductId
<1>9. RowsInPlace'
  <2>1. ASSUME NEW i \in Stored'
        PROVE  i <= stocked' /\ DOMAIN products'[i] = Field
    <3>1. CASE i = stocked + 1
      BY <1>3, <1>4, <1>5, <2>1, <3>1 DEF Stored
    <3>2. CASE i # stocked + 1
      <4>1. i \in Stored /\ products'[i] = products[i] /\ i \in Nat
        BY <1>5, <2>1, <3>2 DEF Stored, ProductId
      <4>2. QED
        BY <1>3, <4>1 DEF ConsoleInv, RowsInPlace
    <3>3. QED
      BY <3>1, <3>2
  <2>2. QED
    BY <2>1 DEF RowsInPlace
<1>10. ProductsKept
  BY <1>3, <1>6, <1>8, RowsStayKept DEF ConsoleInv
<1>11. QED
  BY <1>6, <1>7, <1>8, <1>9, <1>10, RemovedOnceStays, NoUpdateLostStays, InvariantStays
     DEF NothingAcknowledged

\* What the ownership check of update and remove is still worth at the write.
LEMMA Writing ==
    ASSUME ConsoleInv, NEW n \in Number, At(n, "write"), asked[n].id \in Stored
    PROVE  /\ task[n].step # "idle" /\ n \in DOMAIN asked /\ asked[n] \in Request
           /\ asked[n].valid /\ asked[n].route \in {"update", "remove"}
           /\ Entitled(asked[n]) /\ Consumer(asked[n]).username = asked[n].key.username
           /\ asked[n].id \in 1..stocked
           /\ products[asked[n].id].owner = asked[n].key.username
           /\ DOMAIN products[asked[n].id] = Field
<1>1. task[n].step # "idle"
  BY DEF At
<1>2. /\ task[n] # Idle /\ n \in DOMAIN asked /\ asked[n] \in Request /\ asked[n].valid
      /\ "write" \in StepsOf(asked[n].route)
      /\ ~IsPublic(asked[n].route) =>
            Entitled(asked[n]) /\ Consumer(asked[n]).username = asked[n].key.username
  BY <1>1, Suspended DEF At
<1>3. asked[n].route \in {"update", "remove"}
  BY <1>2, StepOfRoute
<1>4. CheckedOwner(n)
  BY <1>2 DEF ConsoleInv, TaskTrue
<1>5. QED
  BY <1>1, <1>2, <1>3, <1>4 DEF CheckedOwner, ConsoleInv, RowsInPlace, IsPublic

LEMMA GoneSafe ==
    ASSUME ConsoleInv, NEW n \in Number, At(n, "write"), Gone(n), UNCHANGED <<stocked, asked>>
    PROVE  ConsoleInv'
BY EndStep DEF Gone, Fails, At

LEMMA RemoveSafe ==
    ASSUME ConsoleInv, NEW n \in Number, Remove(n)
    PROVE  ConsoleInv'
<1> DEFINE i == asked[n].id
<1>1. CASE i \notin Stored
  BY <1>1, GoneSafe DEF Remove
<1>2. CASE i \in Stored
  <2>1. /\ task[n].step # "idle" /\ n \in DOMAIN asked /\ asked[n].valid /\ i \in 1..stocked
        /\ asked[n].route = "remove"
    BY <1>2, Writing DEF Remove
  <2>2. /\ UNCHANGED <<stocked, asked>> /\ stocked \in Nat /\ Written(n, {})
        /\ products' = [products EXCEPT ![i] = NULL]
    BY <1>2 DEF Remove, ConsoleInv, Shape
  <2>3. /\ DOMAIN products' = ProductId
        /\ \A j \in ProductId : j # i => products'[j] = products[j]
        /\ products'[i] = NULL
    BY <1>2, <2>2 DEF ConsoleInv, Shape, Stored
  <2>4. /\ Shape' /\ RequestsKept /\ TasksFollow /\ HonestAnswer(n)'
        /\ answers'[n].status \in {200, 500}
        /\ \A m \in Number : m # n => answers'[m] = answers[m]
    BY <2>1, <2>2, <2>3, WrittenEnds DEF StatusOf
  <2>5. AnswersFollow
    <3>1. AnswerTrue(n)'
      BY <2>1, <2>2, <2>3 DEF AnswerTrue, Stored
    <3>2. QED
      BY <2>4, <3>1 DEF AnswersFollow
  <2>6. RowsStay /\ RowsInPlace'
    BY <2>2, <2>3 DEF RowsStay, RowsInPlace, Stored, ConsoleInv
  <2>7. ProductsKept
    BY <2>2, <2>4, <2>6, RowsStayKept DEF ConsoleInv
  <2>8. NoUpdateLost'
    <3>1. Unacknowledged("update")
      BY <2>1, <2>2, <2>4 DEF Unacknowledged
    <3>2. QED
      BY <2>4, <2>6, <3>1, NoUpdateLostStays
  <2>9. RemovedOnce'
    <3>1. ASSUME NEW m \in DOMAIN asked, m # n, asked[m].route = "remove", asked[m].id = i,
                 answers'[m] # NULL, answers'[m].status = 200
          PROVE  FALSE
      <4>1. m \in Number
        BY <3>1, NumberOfRequest DEF ConsoleInv
      <4>2. answers'[m] = answers[m]
        BY <2>4, <3>1, <4>1
      <4>3. AnswerTrue(m)
        BY <4>1 DEF ConsoleInv
      <4>4. QED
        BY <1>2, <3>1, <4>2, <4>3 DEF AnswerTrue
    <3>2. ASSUME NEW m \in DOMAIN asked, m # n
          PROVE  answers'[m] = answers[m]
      BY <2>4, <3>2, NumberOfRequest DEF ConsoleInv
    <3>3. QED
      BY <2>2, <3>1, <3>2 DEF RemovedOnce, ConsoleInv
  <2>10. QED
    BY <2>4, <2>5, <2>6, <2>7, <2>8, <2>9, InvariantStays
<1>3. QED
  BY <1>1, <1>2

LEMMA UpdateSafe ==
    ASSUME ConsoleInv, NEW n \in Number, Update(n)
    PROVE  ConsoleInv'
<1>1. CASE asked[n].id \notin Stored
  BY <1>1, GoneSafe DEF Update
<1>2. CASE asked[n].id \in Stored
  <2>0. PICK i \in ProductId : i = asked[n].id /\ i \in Stored
    BY <1>2 DEF Stored
  <2> DEFINE row == Patched(products[i], task[n].seen, asked[n].body)
             changes == Changes(asked[n].body)
  <2>1. /\ task[n].step # "idle" /\ n \in DOMAIN asked /\ asked[n] \in Request
        /\ asked[n].valid /\ i \in 1..stocked /\ asked[n].route = "update"
        /\ Consumer(asked[n]).username = asked[n].key.username
        /\ products[i].owner = asked[n].key.username /\ DOMAIN products[i] = Field
    BY <1>2, <2>0, Writing DEF Update
  <2>2. /\ UNCHANGED <<stocked, asked>> /\ stocked \in Nat /\ Written(n, {row})
        /\ products' = [products EXCEPT ![i] = row]
    BY <1>2, <2>0 DEF Update, ConsoleInv, Shape
  <2>3. /\ DOMAIN row = Field /\ row.owner = products[i].owner
        /\ \A field \in Field : row[field] = IF field \in DOMAIN changes THEN changes[field]
                                             ELSE products[i][field]
    <3>1. DOMAIN asked[n].body \subseteq {"amount", "assetCode", "active"}
      BY <2>1, Validated DEF GoodChange
    <3>2. "owner" \notin DOMAIN changes
      BY <3>1 DEF Changes
    <3> HIDE DEF changes
    <3>3. row = [field \in Field |-> IF field \in DOMAIN changes THEN changes[field]
                                     ELSE products[i][field]]
      BY <2>1 DEF Patched, changes
    <3> HIDE DEF row
    <3>4. QED
      BY <3>2, <3>3 DEF Field
  <2> HIDE DEF row, changes
  <2>4. /\ DOMAIN products' = ProductId
        /\ \A j \in ProductId : j # i => products'[j] = products[j]
        /\ products'[i] = row
    BY <2>0, <2>2 DEF ConsoleInv, Shape
  <2>5. /\ Shape' /\ RequestsKept /\ TasksFollow /\ HonestAnswer(n)'
        /\ answers'[n].status \in {200, 500}
        /\ \A m \in Number : m # n => answers'[m] = answers[m]
    BY <2>1, <2>2, <2>3, <2>4, WrittenEnds DEF StatusOf
  <2>6. AnswersFollow
    <3>1. AnswerTrue(n)'
      BY <2>0, <2>1, <2>2 DEF AnswerTrue
    <3>2. QED
      BY <2>5, <3>1 DEF AnswersFollow
  <2>7. RowsInPlace'
    BY <2>1, <2>2, <2>3, <2>4 DEF RowsInPlace, Stored, ConsoleInv
  <2>8. ProductsKept
    BY <2>0, <2>2, <2>3, <2>4 DEF ProductsKept, Stored
  <2>9. RemovedOnce'
    <3>1. Unacknowledged("remove")
      BY <2>1, <2>2, <2>5 DEF Unacknowledged
    <3>2. QED
      BY <2>5, <3>1, RemovedOnceStays
  <2>10. NoUpdateLost'
    <3>1. ASSUME NEW j \in Stored', NEW field \in {"amount", "asset", "active"},
                 NEW m \in Updates(j, field), answers'[m] # NULL, answers'[m].status = 200
          PROVE  \E k \in Updates(j, field) : products'[j][field] = Changes(asked[k].body)[field]
      <4>1. CASE j = i /\ field \in DOMAIN changes
        <5>1. n \in Updates(j, field)
          BY <2>0, <2>1, <4>1 DEF Updates, changes
        <5>2. products'[j][field] = Changes(asked[n].body)[field]
          BY <2>3, <2>4, <4>1 DEF Field, changes
        <5>3. QED
          BY <5>1, <5>2
      <4>2. CASE ~(j = i /\ field \in DOMAIN changes)
        <5>1. j \in Stored /\ products'[j][field] = products[j][field]
          <6>1. CASE j = i
            BY <2>0, <2>3, <2>4, <4>2, <6>1 DEF Field
          <6>2. CASE j # i
            BY <2>4, <3>1, <6>2 DEF Stored
          <6>3. QED
            BY <6>1, <6>2
        <5>2. m \in DOMAIN asked /\ m \in Number /\ asked[m].id = j
              /\ field \in DOMAIN Changes(asked[m].body)
          BY NumberOfRequest DEF Updates, ConsoleInv
        <5>3. m # n
          BY <2>0, <4>2, <5>2 DEF changes
        <5>4. answers[m] # NULL /\ answers[m].status = 200
          BY <2>5, <3>1, <5>2, <5>3
        <5>5. QED
          BY <3>1, <5>1, <5>4 DEF ConsoleInv, NoUpdateLost
      <4>3. QED
        BY <4>1, <4>2
    <3>2. \A j \in ProductId, field \in {"amount", "asset", "active"} :
             Updates(j, field)' = Updates(j, field)
      BY <2>2 DEF Updates
    <3>3. Stored' \subseteq ProductId
      BY DEF Stored
    <3>4. QED
      BY <2>2, <3>1, <3>2, <3>3 DEF NoUpdateLost
  <2>11. QED
    BY <2>5, <2>6, <2>7, <2>8, <2>9, <2>10, InvariantStays
<1>3. QED
  BY <1>1, <1>2

-----------------------------------------------------------------------------
(***************************************************************************)
(* The invariant of the specification, and what follows from it.           *)
(***************************************************************************)
LEMMA InitInv == Init => ConsoleInv
<1> SUFFICES ASSUME Init
             PROVE  ConsoleInv
  OBVIOUS
<1>1. Shape
  BY Bounds DEF Init, Shape
<1>2. RowsInPlace
  <2>1. ASSUME NEW i \in Stored
        PROVE  i <= stocked /\ DOMAIN products[i] = Field
    <3>1. i \in DOMAIN Shelf /\ products[i] = Shelf[i]
      BY <2>1 DEF Init, Stored
    <3>2. i <= Len(Shelf) /\ Shelf[i] \in Product
      BY <3>1, ConsoleAssumption
    <3>3. QED
      BY <3>1, <3>2 DEF Init, Product, Field
  <2>2. QED
    BY <2>1 DEF RowsInPlace
<1>3. asked = <<>> /\ \A n \in Number : task[n] = Idle /\ answers[n] = NULL
  BY DEF Init
<1>4. QED
  BY <1>1, <1>2, <1>3
     DEF ConsoleInv, TaskTrue, AnswerTrue, ServedToEntitled, EntitledIsServed,
         RemovedOnce, NoUpdateLost, Updates

LEMMA NextInv == ConsoleInv /\ [Next]_vars => ConsoleInv'
<1> SUFFICES ASSUME ConsoleInv, [Next]_vars
             PROVE  ConsoleInv'
  OBVIOUS
<1>1. ASSUME NEW request \in Request, Receive(request)
      PROVE  ConsoleInv'
  BY <1>1, ReceiveSafe
<1>2. ASSUME NEW n \in Number, Continue(n)
      PROVE  ConsoleInv'
  BY <1>2, PingSafe, ResolveConsumerSafe, InsertSafe, FindAllSafe, FindOneSafe, UpdateSafe,
     RemoveSafe DEF Continue
<1>3. ASSUME NEW n \in Number, CallFails(n) \/ WriteLine(n) \/ LineFails(n)
      PROVE  ConsoleInv'
  BY <1>3, CallFailsSafe, OthersSafe
<1>4. CASE Crash \/ UNCHANGED vars
  BY <1>4, OthersSafe
<1>5. QED
  BY <1>1, <1>2, <1>3, <1>4 DEF Next

\* A step that changes a product is the end of a handler of its owner's key.
OwnersStep ==
    \A i \in ProductId :
        products'[i] # products[i] =>
            \E n \in Number :
                /\ task[n] # Idle /\ task'[n] = Idle /\ Entitled(asked[n])
                /\ \A row \in {products[i], products'[i]} \ {NULL} :
                      row.owner = asked[n].key.username

LEMMA InsertByOwner ==
    ASSUME ConsoleInv, NEW n \in Number, Insert(n)
    PROVE  OwnersStep
<1> DEFINE row == NewProduct(Consumer(asked[n]).username, asked[n].body)
<1>1. /\ asked[n] \in Request /\ "insert" \in StepsOf(asked[n].route)
      /\ task[n].step # "idle" /\ task[n] # Idle
      /\ ~IsPublic(asked[n].route) =>
            Entitled(asked[n]) /\ Consumer(asked[n]).username = asked[n].key.username
  BY Suspended DEF Insert, At
<1>2. asked[n].route = "create"
  BY <1>1, StepOfRoute
<1>3. Entitled(asked[n]) /\ row.owner = asked[n].key.username
  BY <1>1, <1>2 DEF IsPublic, NewProduct
<1>4. /\ stocked \in Nat /\ stocked' = stocked + 1 /\ UNCHANGED asked
      /\ products' = [products EXCEPT ![stocked'] = row] /\ Written(n, {row})
  BY DEF ConsoleInv, Shape, Insert
<1>5. task'[n] = Idle
  <2>1. \A r \in {row} : r.owner = Consumer(asked[n]).username
    BY DEF NewProduct
  <2>2. DOMAIN products' = ProductId /\ stocked' \in Nat
    BY <1>4 DEF ConsoleInv, Shape
  <2> HIDE DEF row
  <2>3. QED
    BY <1>1, <1>4, <2>1, <2>2, WrittenEnds
<1> HIDE DEF row
<1>6. ASSUME NEW i \in ProductId, products'[i] # products[i]
      PROVE  products[i] = NULL /\ products'[i] = row
  <2>1. i = stocked + 1 /\ products'[i] = row
    BY <1>4, <1>6 DEF ConsoleInv, Shape
  <2>2. i \notin Stored
    BY <1>4, <2>1 DEF ConsoleInv, RowsInPlace
  <2>3. QED
    BY <2>1, <2>2 DEF Stored
<1>7. QED
  BY <1>1, <1>3, <1>5, <1>6 DEF OwnersStep

LEMMA RemoveByOwner ==
    ASSUME ConsoleInv, NEW n \in Number, Remove(n)
    PROVE  OwnersStep
<1> DEFINE i == asked[n].id
<1>1. CASE i \notin Stored
  BY <1>1 DEF Remove, Gone, OwnersStep
<1>2. CASE i \in Stored
  <2>1. /\ task[n].step # "idle" /\ Entitled(asked[n])
        /\ products[i].owner = asked[n].key.username
    BY <1>2, Writing DEF Remove
  <2>2. /\ UNCHANGED <<stocked, asked>> /\ stocked \in Nat /\ Written(n, {})
        /\ products' = [products EXCEPT ![i] = NULL]
    BY <1>2 DEF Remove, ConsoleInv, Shape
  <2>3. /\ DOMAIN products' = ProductId
        /\ \A j \in ProductId : j # i => products'[j] = products[j]
        /\ products'[i] = NULL
    BY <1>2, <2>2 DEF ConsoleInv, Shape, Stored
  <2>4. task'[n] = Idle /\ task[n] # Idle
    BY <2>1, <2>2, <2>3, WrittenEnds, Suspended
  <2>5. QED
    BY <2>1, <2>3, <2>4 DEF OwnersStep
<1>3. QED
  BY <1>1, <1>2

LEMMA UpdateByOwner ==
    ASSUME ConsoleInv, NEW n \in Number, Update(n)
    PROVE  OwnersStep
<1> DEFINE i == asked[n].id
           row == Patched(products[i], task[n].seen, asked[n].body)
<1>1. CASE i \notin Stored
  BY <1>1 DEF Update, Gone, OwnersStep
<1>2. CASE i \in Stored
  <2>1. /\ task[n].step # "idle" /\ Entitled(asked[n]) /\ asked[n] \in Request
        /\ asked[n].valid /\ asked[n].route = "update"
        /\ Consumer(asked[n]).username = asked[n].key.username
        /\ products[i].owner = asked[n].key.username /\ DOMAIN products[i] = Field
    BY <1>2, Writing DEF Update
  <2>2. /\ UNCHANGED <<stocked, asked>> /\ stocked \in Nat /\ Written(n, {row})
        /\ products' = [products EXCEPT ![i] = row]
    BY <1>2 DEF Update, ConsoleInv, Shape
  <2>3. row.owner = asked[n].key.username
    <3>1. "owner" \notin DOMAIN Changes(asked[n].body)
      <4>1. DOMAIN asked[n].body \subseteq {"amount", "assetCode", "active"}
        BY <2>1, Validated DEF GoodChange
      <4>2. QED
        BY <4>1 DEF Changes
    <3>2. QED
      BY <2>1, <3>1 DEF Patched, Field
  <2> HIDE DEF row
  <2>4. /\ DOMAIN products' = ProductId
        /\ \A j \in ProductId : j # i => products'[j] = products[j]
        /\ products'[i] = row
    BY <1>2, <2>2 DEF ConsoleInv, Shape, Stored
  <2>5. task'[n] = Idle /\ task[n] # Idle
    BY <2>1, <2>2, <2>3, <2>4, WrittenEnds, Suspended
  <2>6. QED
    BY <2>1, <2>3, <2>4, <2>5 DEF OwnersStep
<1>3. QED
  BY <1>1, <1>2

LEMMA NextByOwner == ConsoleInv /\ [Next]_vars => [OwnersStep]_vars
<1> SUFFICES ASSUME ConsoleInv, Next
             PROVE  OwnersStep
  OBVIOUS
<1>1. CASE UNCHANGED products
  BY <1>1 DEF OwnersStep
<1>2. ASSUME NEW n \in Number, Insert(n) \/ Update(n) \/ Remove(n)
      PROVE  OwnersStep
  BY <1>2, InsertByOwner, UpdateByOwner, RemoveByOwner
<1>3. QED
  BY <1>1, <1>2
     DEF Next, Continue, Receive, Ping, ResolveConsumer, FindAll, FindOne, CallFails,
         WriteLine, LineFails, Crash, tables

\* Whatever requests run side by side, fail or are cut off by a stop, a handler
\* that writes by id alone writes what its ownership check allowed.
THEOREM ConsoleCorrect == Spec => []ConsoleInv
BY InitInv, NextInv, PTL DEF Spec

\* Only a key that was issued for a route is served, with rows of its consumer.
THEOREM EntitledOnly == Spec => []ServedToEntitled
<1>1. ConsoleInv => ServedToEntitled
  BY DEF ConsoleInv
<1>2. QED
  BY <1>1, ConsoleCorrect, PTL

\* No key is refused what it was issued for.
THEOREM NobodyLockedOut == Spec => []EntitledIsServed
<1>1. ConsoleInv => EntitledIsServed
  BY DEF ConsoleInv
<1>2. QED
  BY <1>1, ConsoleCorrect, PTL

\* Of several deletes of a product one is acknowledged.
THEOREM OneDelete == Spec => []RemovedOnce
<1>1. ConsoleInv => RemovedOnce
  BY DEF ConsoleInv
<1>2. QED
  BY <1>1, ConsoleCorrect, PTL

\* No update of other fields undoes an acknowledged one.
THEOREM UpdatesKept == Spec => []NoUpdateLost
<1>1. ConsoleInv => NoUpdateLost
  BY DEF ConsoleInv
<1>2. QED
  BY <1>1, ConsoleCorrect, PTL

\* A product changes only at the hands of an entitled key of its owner.
THEOREM OwnersChange == Spec => ChangedByOwner
<1>1. Spec => [][OwnersStep]_vars
  BY ConsoleCorrect, NextByOwner, PTL DEF Spec
<1>2. QED
  BY <1>1 DEF OwnersStep, ChangedByOwner

-----------------------------------------------------------------------------
(***************************************************************************)
(* The shape of the data.                                                  *)
(***************************************************************************)
LEMMA CountAnswered ==
    /\ IsFiniteSet(Answered) /\ IsFiniteSet(Answered)'
    /\ Cardinality(Answered) \in 0..MaxRequests /\ Cardinality(Answered)' \in 0..MaxRequests
<1>1. IsFiniteSet(Number) /\ Cardinality(Number) = MaxRequests
  BY FS_Interval, Bounds DEF Number
<1>2. ASSUME NEW S \in SUBSET Number
      PROVE  IsFiniteSet(S) /\ Cardinality(S) \in 0..MaxRequests
  BY <1>1, FS_Subset, FS_CardinalityType, Bounds
<1>3. Answered \subseteq Number /\ Answered' \subseteq Number
  BY DEF Answered
<1>4. QED
  BY <1>2, <1>3

JustAnswered(n) == n \notin Answered /\ Answered' = Answered \cup {n}

LEMMA AnswerCounted ==
    ASSUME NEW n \in Number, JustAnswered(n)
    PROVE  /\ Cardinality(Answered)' = Cardinality(Answered) + 1
           /\ Cardinality(Answered) \in Nat /\ Cardinality(Answered)' <= MaxRequests
<1>1. Cardinality(Answered)' = Cardinality(Answered) + 1
  BY CountAnswered, FS_AddElement DEF JustAnswered
<1>2. Cardinality(Answered) \in Nat /\ Cardinality(Answered)' <= MaxRequests
  BY CountAnswered, Bounds
<1>3. QED
  BY <1>1, <1>2

LEMMA StoreStays ==
    ASSUME StoreTyped, UNCHANGED <<products, stocked>>, consumers' \subseteq Username,
           Answered \subseteq Answered'
    PROVE  StoreTyped'
<1>1. Cardinality(Answered) <= Cardinality(Answered)'
  BY CountAnswered, FS_Subset
<1>2. stocked' \in Len(Shelf)..(Len(Shelf) + Cardinality(Answered)')
  <2>1. stocked \in Len(Shelf)..(Len(Shelf) + Cardinality(Answered)) /\ stocked' = stocked
    BY DEF StoreTyped
  <2>2. Cardinality(Answered) \in Nat /\ Cardinality(Answered)' \in Nat
    BY CountAnswered, Bounds
  <2>3. QED
    BY <1>1, <2>1, <2>2, Bounds
<1>3. QED
  BY <1>2 DEF StoreTyped, Stored

LEMMA AnswerTyped ==
    ASSUME Shape, AnswersTyped, LogTyped, TasksTyped, NEW n \in Number, n \notin Answered,
           n <= Len(asked'), Len(asked) <= Len(asked'), Len(asked') \in Nat, UNCHANGED requestLog,
           NEW status \in {200, 201, 400, 401, 403, 404, 500, 503}, NEW rows, rows \subseteq Product,
           Answer(n, status, rows), logging' \in {logging, logging \cup {n}},
           task'[n] = Idle, \A m \in Number : m # n => task'[m] = task[m]
    PROVE  Answered' = Answered \cup {n} /\ AnswersTyped' /\ LogTyped' /\ TasksTyped'
<1> DEFINE answer == [status |-> status, rows |-> rows]
<1>1. answer \in [status : Nat, rows : SUBSET Product]
  OBVIOUS
<1>2. answer # NULL
  BY <1>1, NullNoAnswer
<1>3. /\ answers'[n] = answer
      /\ \A m \in Number : m # n => answers'[m] = answers[m]
  BY DEF Answer, Shape
<1>4. answer.status = status /\ answer.rows = rows
  OBVIOUS
<1> HIDE DEF answer
<1>5. Answered' = Answered \cup {n}
  BY <1>2, <1>3 DEF Answered
<1>6. AnswersTyped'
  <2>1. ASSUME NEW m \in Answered'
        PROVE  /\ m <= Len(asked') /\ answers'[m].rows \subseteq Product
               /\ answers'[m].status \in {200, 201, 400, 401, 403, 404, 500, 503}
    <3>1. CASE m = n
      BY <1>3, <1>4, <3>1
    <3>2. CASE m # n
      <4>1. m \in Answered /\ answers'[m] = answers[m] /\ m \in Nat /\ Len(asked) \in Nat
        BY <1>3, <1>5, <3>2 DEF Answered, Number, Shape
      <4>2. QED
        BY <4>1 DEF AnswersTyped
    <3>3. QED
      BY <3>1, <3>2
  <2>2. QED
    BY <2>1 DEF AnswersTyped
<1>7. LogTyped'
  BY <1>5 DEF LogTyped
<1>8. TasksTyped'
  <2>1. ASSUME NEW m \in Number, task'[m] # Idle
        PROVE  m <= Len(asked') /\ m \notin Answered' /\ task'[m].step \in Steps \cup {"write"}
    <3>1. m # n /\ task'[m] = task[m] /\ m \in Nat /\ Len(asked) \in Nat
      BY <2>1 DEF Number, Shape
    <3>2. QED
      BY <1>5, <2>1, <3>1 DEF TasksTyped
  <2>2. QED
    BY <2>1 DEF TasksTyped
<1>9. QED
  BY <1>5, <1>6, <1>7, <1>8

\* The handler of request n ends.
LEMMA EndTyped ==
    ASSUME ConsoleInv, TypeOK, NEW n \in Number, task[n].step # "idle",
           requestLog' = requestLog, asked' = asked,
           NEW status \in {200, 201, 404, 500, 503}, NEW rows, rows \subseteq Product,
           Respond(n, asked[n], status, rows)
    PROVE  JustAnswered(n) /\ AnswersTyped' /\ LogTyped' /\ TasksTyped'
<1>1. Shape /\ AnswersTyped /\ LogTyped /\ TasksTyped
  BY DEF ConsoleInv, TypeOK
<1>2. task[n] # Idle
  BY Suspended
<1>3. n \notin Answered /\ n <= Len(asked') /\ Len(asked') \in Nat /\ Len(asked) <= Len(asked')
  BY <1>1, <1>2 DEF TasksTyped, Shape
<1>4. Answer(n, status, rows) /\ logging' \in {logging, logging \cup {n}}
  BY DEF Respond
<1>5. task'[n] = Idle /\ \A m \in Number : m # n => task'[m] = task[m]
  BY <1>1 DEF Respond, Goto, Shape
<1>6. UNCHANGED requestLog /\ status \in {200, 201, 400, 401, 403, 404, 500, 503}
  OBVIOUS
<1>7. QED
  BY <1>1, <1>3, <1>4, <1>5, <1>6, AnswerTyped DEF JustAnswered

LEMMA EndKeepsTypes ==
    ASSUME ConsoleInv, TypeOK, NEW n \in Number, task[n].step # "idle",
           UNCHANGED <<tables, requestLog, asked>>,
           NEW status \in {200, 201, 404, 500, 503}, NEW rows, rows \subseteq Product,
           Respond(n, asked[n], status, rows), faults' \in 0..MaxFaults
    PROVE  TypeOK'
<1>0. /\ requestLog' = requestLog /\ asked' = asked /\ Respond(n, asked[n], status, rows)
      /\ status \in {200, 201, 404, 500, 503} /\ rows \subseteq Product
  OBVIOUS
<1>1. JustAnswered(n) /\ AnswersTyped' /\ LogTyped' /\ TasksTyped'
  BY <1>0, EndTyped
<1>2. StoreTyped'
  BY <1>1, StoreStays DEF TypeOK, StoreTyped, tables, JustAnswered
<1>3. QED
  BY <1>1, <1>2 DEF TypeOK

LEMMA CallerTyped ==
    ASSUME ConsoleInv, NEW n \in Number, task[n].step # "idle", ~IsPublic(asked[n].route)
    PROVE  Consumer(asked[n]).username \in Username
<1>1. asked[n] \in Request /\ Consumer(asked[n]).username = asked[n].key.username
  BY Suspended
<1>2. QED
  BY <1>1 DEF Username

LEMMA AssetResolved ==
    ASSUME NEW assetCode \in STRING \cup {NULL}
    PROVE  ResolveAsset(assetCode) \in STRING /\ ResolveAsset(assetCode) \notin {"", "xlm"}
<1>1. CASE assetCode \in {NULL, "", "xlm", "native"}
  <2>1. ResolveAsset(assetCode) = "native"
    BY <1>1 DEF ResolveAsset
  <2>2. "native" \notin {"", "xlm"}
    OBVIOUS
  <2>3. QED
    BY <2>1, <2>2, NativeIsAName, Zenon
<1>2. CASE assetCode \notin {NULL, "", "xlm", "native"}
  <2>1. ResolveAsset(assetCode) = assetCode
    BY <1>2 DEF ResolveAsset
  <2>2. QED
    BY <1>2, <2>1
<1>3. QED
  BY <1>1, <1>2

LEMMA NewTyped ==
    ASSUME ConsoleInv, NEW n \in Number, At(n, "insert")
    PROVE  LET row == NewProduct(Consumer(asked[n]).username, asked[n].body)
           IN  CleanRow(row)
<1> DEFINE dto == asked[n].body
           row == NewProduct(Consumer(asked[n]).username, dto)
<1>1. /\ asked[n] \in Request /\ asked[n].valid /\ task[n].step # "idle"
      /\ "insert" \in StepsOf(asked[n].route)
  BY Suspended DEF At
<1>2. asked[n].route = "create"
  BY <1>1, StepOfRoute
<1>3. Consumer(asked[n]).username \in Username
  BY <1>1, <1>2, CallerTyped DEF IsPublic
<1>4. dto \in NewBody
  BY <1>1, <1>2, Validated
<1>5. /\ dto.amount \in STRING \cup {NULL} /\ dto.assetCode \in STRING \cup {NULL}
      /\ dto.active \in BOOLEAN \cup {NULL}
  BY <1>4 DEF NewBody
<1>6. OrElse(dto.active, TRUE) \in BOOLEAN
  BY <1>5 DEF OrElse
<1>7. row = [owner |-> Consumer(asked[n]).username, amount |-> dto.amount,
             asset |-> ResolveAsset(dto.assetCode), active |-> OrElse(dto.active, TRUE)]
  BY DEF NewProduct
<1>8. ResolveAsset(dto.assetCode) \in STRING /\ ResolveAsset(dto.assetCode) \notin {"", "xlm"}
  BY <1>5, AssetResolved
<1> DEFINE asset == ResolveAsset(dto.assetCode)
           active == OrElse(dto.active, TRUE)
           amount == dto.amount
<1>9. /\ amount \in STRING \cup {NULL} /\ active \in BOOLEAN
      /\ asset \in STRING /\ asset \notin {"", "xlm"}
  BY <1>5, <1>6, <1>8
<1> HIDE DEF asset, active, amount
<1>10. row = [owner |-> Consumer(asked[n]).username, amount |-> amount, asset |-> asset,
              active |-> active]
  BY <1>7 DEF asset, active, amount
<1> HIDE DEF dto, row
<1>11. row \in Product /\ row.asset = asset
  BY <1>3, <1>9, <1>10 DEF Product
<1>12. QED
  BY <1>9, <1>11 DEF row, dto, CleanRow

LEMMA PatchTyped ==
    ASSUME NEW row, CleanRow(row), NEW seen, NEW dto, GoodChange(dto)
    PROVE  CleanRow(Patched(row, seen, dto))
<1> DEFINE changes == Changes(dto)
           patched == Patched(row, seen, dto)
<1>1. /\ DOMAIN changes \subseteq {"amount", "asset", "active"}
      /\ "amount" \in DOMAIN changes => changes["amount"] \in STRING \cup {NULL}
      /\ "active" \in DOMAIN changes => changes["active"] \in BOOLEAN
      /\ "asset" \in DOMAIN changes =>
            changes["asset"] \in STRING /\ changes["asset"] \notin {"", "xlm"}
  <2>1. DOMAIN changes = {IF f = "assetCode" THEN "asset" ELSE f : f \in DOMAIN dto}
    BY DEF Changes
  <2>2. \A field \in DOMAIN changes :
           changes[field] = IF field = "asset" THEN ResolveAsset(dto["assetCode"]) ELSE dto[field]
    BY DEF Changes
  <2>3. /\ "amount" \in DOMAIN changes => "amount" \in DOMAIN dto
        /\ "active" \in DOMAIN changes => "active" \in DOMAIN dto
        /\ "asset" \in DOMAIN changes => "assetCode" \in DOMAIN dto
        /\ DOMAIN changes \subseteq {"amount", "asset", "active"}
    BY <2>1 DEF GoodChange
  <2> HIDE DEF changes
  <2>4. QED
    BY <2>2, <2>3, AssetResolved DEF GoodChange
<1>2. patched = [field \in DOMAIN row |-> IF field \in DOMAIN changes THEN changes[field] ELSE row[field]]
  BY DEF Patched
<1>3. /\ DOMAIN row = {"owner", "amount", "asset", "active"}
      /\ row["owner"] \in Username /\ row["amount"] \in STRING \cup {NULL}
      /\ row["asset"] \in STRING /\ row["asset"] \notin {"", "xlm"} /\ row["active"] \in BOOLEAN
  BY DEF CleanRow, Product
<1> HIDE DEF changes, patched
<1>4. /\ patched["owner"] \in Username /\ patched["amount"] \in STRING \cup {NULL}
      /\ patched["asset"] \in STRING /\ patched["asset"] \notin {"", "xlm"}
      /\ patched["active"] \in BOOLEAN
  BY <1>1, <1>2, <1>3
<1>5. patched = [owner |-> patched["owner"], amount |-> patched["amount"],
                 asset |-> patched["asset"], active |-> patched["active"]]
  BY <1>2, <1>3
<1>6. patched \in Product /\ patched.asset \notin {"", "xlm"}
  BY <1>4, <1>5 DEF Product
<1>7. QED
  BY <1>6 DEF patched, CleanRow

\* A call that changes a row is answered, or loses its reply.
LEMMA WriteTyped ==
    ASSUME ConsoleInv, TypeOK, NEW n \in Number, task[n].step # "idle",
           requestLog' = requestLog, asked' = asked, NEW rows, rows \subseteq Product, Written(n, rows)
    PROVE  /\ JustAnswered(n) /\ AnswersTyped' /\ LogTyped' /\ TasksTyped'
           /\ faults' \in 0..MaxFaults
<1>1. PICK status \in {StatusOf(asked[n].route), 500}, shown \in {rows, {}} :
         Respond(n, asked[n], status, shown)
  BY DEF Written, Success, Fails
<1>2. status \in {200, 201, 404, 500, 503} /\ shown \subseteq Product
  BY DEF StatusOf
<1>3. JustAnswered(n) /\ AnswersTyped' /\ LogTyped' /\ TasksTyped'
  BY <1>1, <1>2, EndTyped
<1>4. faults \in 0..MaxFaults /\ MaxFaults \in Nat
  BY ConsoleAssumption DEF TypeOK
<1>5. faults' \in 0..MaxFaults
  BY <1>4 DEF Written, Fault
<1>6. QED
  BY <1>3, <1>5

LEMMA GoneTyped ==
    ASSUME ConsoleInv, TypeOK, NEW n \in Number, At(n, "write"), Gone(n),
           UNCHANGED <<stocked, consumers, requestLog, asked>>
    PROVE  TypeOK'
<1>1. /\ Respond(n, asked[n], 500, {}) /\ faults' \in 0..MaxFaults /\ task[n].step # "idle"
      /\ UNCHANGED <<tables, requestLog, asked>> /\ {} \subseteq Product
  BY DEF Gone, Fails, TypeOK, tables, At
<1>2. QED
  BY <1>1, EndKeepsTypes

\* A row is written over one that is there.
LEMMA RowTyped ==
    ASSUME StoreTyped, Shape, NEW i \in ProductId, i <= stocked', NEW row,
           row # NULL => CleanRow(row),
           products' = [products EXCEPT ![i] = row], stocked' \in Nat, stocked <= stocked'
    PROVE  \A j \in Stored' : CleanRow(products'[j]) /\ j <= stocked'
<1>1. SUFFICES ASSUME NEW j \in Stored'
               PROVE  CleanRow(products'[j]) /\ j <= stocked'
  OBVIOUS
<1>2. CASE j = i
  <2>1. products'[j] = row /\ row # NULL
    BY <1>1, <1>2 DEF Shape, Stored
  <2>2. QED
    BY <1>2, <2>1
<1>3. CASE j # i
  <2>1. j \in ProductId /\ products'[j] # NULL
    BY <1>1 DEF Stored
  <2>2. products'[j] = products[j] /\ j \in Stored
    BY <1>3, <2>1 DEF Shape, Stored
  <2>3. j \in Nat
    BY <2>1, Bounds DEF ProductId
  <2>a. stocked \in Nat
    BY DEF Shape
  <2>4. CleanRow(products[j]) /\ j <= stocked
    BY <2>2 DEF StoreTyped
  <2>5. QED
    BY <2>2, <2>3, <2>4, <2>a
<1>4. QED
  BY <1>2, <1>3

LEMMA InsertTyped ==
    ASSUME ConsoleInv, TypeOK, NEW n \in Number, Insert(n)
    PROVE  TypeOK'
<1> DEFINE row == NewProduct(Consumer(asked[n]).username, asked[n].body)
<1>1. At(n, "insert") /\ task[n].step # "idle"
  BY DEF Insert, At
<1>2. CleanRow(row)
  BY <1>1, NewTyped
<1>3. /\ stocked' = stocked + 1 /\ products' = [products EXCEPT ![stocked'] = row]
      /\ Written(n, {row})
      /\ consumers' = consumers /\ requestLog' = requestLog /\ asked' = asked
  BY DEF Insert
<1> HIDE DEF row
<1>4. {row} \subseteq Product
  BY <1>2 DEF CleanRow
<1>5. /\ JustAnswered(n) /\ AnswersTyped' /\ LogTyped' /\ TasksTyped'
      /\ faults' \in 0..MaxFaults
  BY <1>1, <1>3, <1>4, WriteTyped
<1>6. /\ Cardinality(Answered)' = Cardinality(Answered) + 1
      /\ Cardinality(Answered) \in Nat /\ Cardinality(Answered)' <= MaxRequests
  BY <1>5, AnswerCounted
<1>7. StoreTyped /\ stocked \in Len(Shelf)..(Len(Shelf) + Cardinality(Answered)) /\ Shape
  BY DEF TypeOK, StoreTyped, ConsoleInv
<1>8. /\ stocked' \in Len(Shelf)..(Len(Shelf) + Cardinality(Answered)')
      /\ stocked' \in ProductId /\ stocked' \in Nat /\ stocked <= stocked' /\ stocked' <= stocked'
  BY <1>3, <1>6, <1>7, Bounds DEF ProductId
<1>9. \A j \in Stored' : CleanRow(products'[j]) /\ j <= stocked'
  BY <1>2, <1>3, <1>7, <1>8, RowTyped
<1>10. StoreTyped'
  BY <1>3, <1>7, <1>8, <1>9 DEF StoreTyped
<1>11. QED
  BY <1>5, <1>10 DEF TypeOK

\* The write of an update or a delete.
LEMMA OverwriteTyped ==
    ASSUME ConsoleInv, TypeOK, NEW n \in Number, task[n].step # "idle", NEW i \in Stored, NEW row,
           row # NULL => CleanRow(row),
           products' = [products EXCEPT ![i] = row],
           UNCHANGED <<stocked, consumers, requestLog, asked>>,
           NEW rows, rows \subseteq Product, Written(n, rows)
    PROVE  TypeOK'
<1>1. requestLog' = requestLog /\ asked' = asked /\ stocked' = stocked /\ consumers' = consumers
  OBVIOUS
<1>2. /\ JustAnswered(n) /\ AnswersTyped' /\ LogTyped' /\ TasksTyped'
      /\ faults' \in 0..MaxFaults
  BY <1>1, WriteTyped
<1>3. StoreTyped /\ Shape /\ i \in ProductId /\ i <= stocked /\ stocked \in Nat
  BY DEF TypeOK, StoreTyped, ConsoleInv, Stored, Shape
<1>a. i <= stocked' /\ stocked' \in Nat /\ stocked <= stocked'
  BY <1>1, <1>3
<1>4. \A j \in Stored' : CleanRow(products'[j]) /\ j <= stocked'
  BY <1>3, <1>a, RowTyped
<1>5. /\ Cardinality(Answered)' = Cardinality(Answered) + 1
      /\ Cardinality(Answered) \in Nat
  BY <1>2, AnswerCounted
<1>6. stocked' \in Len(Shelf)..(Len(Shelf) + Cardinality(Answered)')
  <2>1. stocked \in Len(Shelf)..(Len(Shelf) + Cardinality(Answered))
    BY <1>3 DEF StoreTyped
  <2>2. QED
    BY <1>1, <1>5, <2>1, Bounds
<1>7. StoreTyped'
  BY <1>1, <1>3, <1>4, <1>6 DEF StoreTyped
<1>8. QED
  BY <1>2, <1>7 DEF TypeOK

LEMMA RemoveTyped ==
    ASSUME ConsoleInv, TypeOK, NEW n \in Number, Remove(n)
    PROVE  TypeOK'
<1>1. CASE asked[n].id \notin Stored
  BY <1>1, GoneTyped DEF Remove
<1>2. CASE asked[n].id \in Stored
  <2>1. /\ products' = [products EXCEPT ![asked[n].id] = NULL] /\ Written(n, {})
        /\ UNCHANGED <<stocked, consumers, requestLog, asked>> /\ task[n].step # "idle"
        /\ {} \subseteq Product
    BY <1>2 DEF Remove, At
  <2>2. QED
    BY <1>2, <2>1, OverwriteTyped
<1>3. QED
  BY <1>1, <1>2

LEMMA UpdateTyped ==
    ASSUME ConsoleInv, TypeOK, NEW n \in Number, Update(n)
    PROVE  TypeOK'
<1>1. CASE asked[n].id \notin Stored
  BY <1>1, GoneTyped DEF Update
<1>2. CASE asked[n].id \in Stored
  <2>1. PICK i \in Stored : i = asked[n].id
    BY <1>2
  <2> DEFINE row == Patched(products[i], task[n].seen, asked[n].body)
  <2>2. /\ products' = [products EXCEPT ![i] = row] /\ Written(n, {row})
        /\ UNCHANGED <<stocked, consumers, requestLog, asked>> /\ task[n].step # "idle"
    BY <2>1 DEF Update, At
  <2>3. GoodChange(asked[n].body)
    <3>1. asked[n] \in Request /\ asked[n].valid /\ asked[n].route = "update"
      BY <2>2, Suspended DEF Update
    <3>2. QED
      BY <3>1, Validated
  <2>4. CleanRow(row)
    <3>1. CleanRow(products[i])
      BY DEF TypeOK, StoreTyped
    <3>2. QED
      BY <2>3, <3>1, PatchTyped
  <2> HIDE DEF row
  <2>5. {row} \subseteq Product
    BY <2>4 DEF CleanRow
  <2>6. QED
    BY <2>2, <2>4, <2>5, OverwriteTyped
<1>3. QED
  BY <1>1, <1>2

LEMMA ReadTyped ==
    ASSUME ConsoleInv, TypeOK, NEW n \in Number, Ping(n) \/ FindAll(n) \/ CallFails(n)
    PROVE  TypeOK'
<1>1. UNCHANGED <<tables, requestLog, asked>> /\ task[n].step # "idle"
  BY DEF Ping, FindAll, CallFails, At
<1>2. faults' \in 0..MaxFaults
  <2>1. faults \in 0..MaxFaults /\ MaxFaults \in Nat
    BY ConsoleAssumption DEF TypeOK
  <2>2. QED
    BY <2>1 DEF Ping, FindAll, CallFails, Fault
<1>3. {products[i] : i \in Stored} \subseteq Product
  BY DEF TypeOK, StoreTyped, CleanRow
<1>4. PICK status \in {200, 201, 500, 503}, rows \in SUBSET Product :
         Respond(n, asked[n], status, rows)
  <2>1. CASE Ping(n)
    BY <2>1 DEF Ping, Success, StatusOf
  <2>2. CASE FindAll(n)
    BY <1>3, <2>2 DEF FindAll, Success, StatusOf
  <2>3. CASE CallFails(n)
    BY <2>3 DEF CallFails, Fails
  <2>4. QED
    BY <2>1, <2>2, <2>3
<1>5. status \in {200, 201, 404, 500, 503}
  BY <1>4
<1>6. QED
  BY <1>1, <1>2, <1>4, <1>5, EndKeepsTypes

\* A handler goes on to its next call.
LEMMA GotoTyped ==
    ASSUME ConsoleInv, TypeOK, NEW n \in Number, task[n].step # "idle", NEW t,
           t.step \in Steps \cup {"write"}, Goto(n, t), UNCHANGED <<products, stocked>>,
           consumers' \subseteq Username,
           UNCHANGED <<requestLog, logging, faults, asked, answers>>
    PROVE  TypeOK'
<1>1. Answered' = Answered /\ AnswersTyped' /\ LogTyped' /\ faults' \in 0..MaxFaults
  BY DEF TypeOK, Answered, AnswersTyped, LogTyped
<1>2. StoreTyped'
  BY <1>1, StoreStays DEF TypeOK
<1>3. Shape /\ TasksTyped /\ task[n] # Idle
  BY Suspended DEF ConsoleInv, TypeOK
<1>4. TasksTyped'
  <2>1. task'[n] = t /\ \A m \in Number : m # n => task'[m] = task[m]
    BY <1>3 DEF Goto, Shape
  <2>2. QED
    BY <1>1, <1>3, <2>1 DEF TasksTyped
<1>5. QED
  BY <1>1, <1>2, <1>4 DEF TypeOK

LEMMA ResolveConsumerTyped ==
    ASSUME ConsoleInv, TypeOK, NEW n \in Number, ResolveConsumer(n)
    PROVE  TypeOK'
<1> DEFINE t == [step |-> NextStep[asked[n].route]]
<1>1. task[n].step # "idle" /\ "resolve" \in StepsOf(asked[n].route) /\ asked[n] \in Request
  BY Suspended DEF ResolveConsumer, At
<1>2. asked[n].route \in DOMAIN NextStep
  BY <1>1, StepOfRoute
<1>3. t.step \in Steps \cup {"write"}
  BY <1>2 DEF NextStep, Steps
<1>4. consumers' \subseteq Username
  <2>1. Consumer(asked[n]).username \in Username
    BY <1>1, <1>2, CallerTyped DEF IsPublic, NextStep
  <2>2. QED
    BY <2>1 DEF ResolveConsumer, TypeOK, StoreTyped
<1>5. /\ Goto(n, t) /\ UNCHANGED <<products, stocked>>
      /\ UNCHANGED <<requestLog, logging, faults, asked, answers>>
  BY DEF ResolveConsumer, historyVars
<1> HIDE DEF t
<1>6. QED
  BY <1>1, <1>3, <1>4, <1>5, GotoTyped

LEMMA FindOneTyped ==
    ASSUME ConsoleInv, TypeOK, NEW n \in Number, FindOne(n)
    PROVE  TypeOK'
<1> DEFINE i == asked[n].id
           t == [step |-> "write", seen |-> products[i]]
<1>1. /\ UNCHANGED <<tables, requestLog, asked>> /\ UNCHANGED faults /\ task[n].step # "idle"
      /\ faults' \in 0..MaxFaults
  BY DEF FindOne, At, TypeOK
<1>2. \/ Respond(n, asked[n], 404, {})
      \/ i \in Stored /\ Respond(n, asked[n], 200, {products[i]})
      \/ Goto(n, t) /\ UNCHANGED <<logging, answers>>
  BY DEF FindOne, Fails, Success, StatusOf, Owns
<1>3. CASE Respond(n, asked[n], 404, {})
  <2>1. {} \subseteq Product
    OBVIOUS
  <2>2. QED
    BY <1>1, <1>3, <2>1, EndKeepsTypes
<1>4. CASE i \in Stored /\ Respond(n, asked[n], 200, {products[i]})
  <2>1. {products[i]} \subseteq Product
    BY <1>4 DEF TypeOK, StoreTyped, CleanRow
  <2>2. QED
    BY <1>1, <1>4, <2>1, EndKeepsTypes
<1>5. CASE Goto(n, t) /\ UNCHANGED <<logging, answers>>
  <2>1. consumers' \subseteq Username /\ UNCHANGED <<products, stocked>>
        /\ UNCHANGED <<requestLog, logging, faults, asked, answers>>
    BY <1>1, <1>5 DEF tables, TypeOK, StoreTyped
  <2>2. t.step \in Steps \cup {"write"}
    OBVIOUS
  <2> HIDE DEF t
  <2>3. QED
    BY <1>1, <1>5, <2>1, <2>2, GotoTyped
<1>6. QED
  BY <1>2, <1>3, <1>4, <1>5

LEMMA ReceiveTyped ==
    ASSUME ConsoleInv, TypeOK, NEW request \in Request, Receive(request)
    PROVE  TypeOK'
<1> DEFINE refused == Refusal(IsPublic(request.route), request.headers, Required(request.route))
<1>1. Shape /\ AnswersTyped /\ LogTyped /\ TasksTyped /\ StoreTyped
  BY DEF ConsoleInv, TypeOK
<1>n. PICK n \in Number : n = Len(asked) + 1
  BY <1>1, Bounds DEF Shape, Receive, Number
<1>2. /\ Len(asked) \in Nat /\ Len(asked') = n /\ n \in Nat
      /\ requestLog' = requestLog /\ faults' = faults
      /\ UNCHANGED <<products, stocked>> /\ consumers' \subseteq Username
  BY <1>n, <1>1 DEF Receive, Shape, tables, Number, StoreTyped
<1>3. n \notin Answered /\ task[n] = Idle
  BY <1>n, <1>1, <1>2 DEF AnswersTyped, TasksTyped
<1>4. ASSUME NEW status \in {200, 400, 401, 403}, Answer(n, status, {}),
             logging' \in {logging, logging \cup {n}},
             task'[n] = Idle, \A m \in Number : m # n => task'[m] = task[m]
      PROVE  TypeOK'
  <2>1. /\ {} \in SUBSET Product /\ n <= Len(asked') /\ Len(asked) <= Len(asked')
        /\ Len(asked') \in Nat
        /\ status \in {200, 201, 400, 401, 403, 404, 500, 503}
    BY <1>n, <1>2
  <2>2. Answered' = Answered \cup {n} /\ AnswersTyped' /\ LogTyped' /\ TasksTyped'
    BY <1>1, <1>2, <1>3, <1>4, <2>1, AnswerTyped
  <2>3. StoreTyped'
    BY <1>1, <1>2, <2>2, StoreStays
  <2>4. QED
    BY <1>2, <2>2, <2>3 DEF TypeOK
<1>5. ASSUME NEW status \in {200, 400}, Respond(n, request, status, {})
      PROVE  TypeOK'
  <2>1. /\ Answer(n, status, {}) /\ logging' \in {logging, logging \cup {n}}
        /\ task'[n] = Idle /\ \A m \in Number : m # n => task'[m] = task[m]
    BY <1>1, <1>5 DEF Respond, Goto, Shape
  <2>2. QED
    BY <1>4, <2>1
<1>6. CASE refused # NULL
  <2>1. /\ Answer(n, refused, {}) /\ logging' = logging /\ task' = task
        /\ refused \in {401, 403}
    BY <1>n, <1>6, RefusalStatus DEF Receive
  <2>2. QED
    BY <1>3, <1>4, <2>1
<1>7. request.valid \in BOOLEAN
  BY Validated
<1>8. CASE refused = NULL /\ (~request.valid \/ request.route = "liveness")
  BY <1>n, <1>5, <1>7, <1>8 DEF Receive
<1>9. CASE refused = NULL /\ request.valid /\ request.route # "liveness"
  <2> DEFINE t == [step |-> FirstStep[request.route]]
  <2>1. Goto(n, t) /\ answers' = answers /\ logging' = logging
    BY <1>n, <1>9 DEF Receive
  <2>2. request.route \in {"create", "list", "get", "update", "remove", "readiness"}
    BY <1>9, Validated
  <2>3. t.step \in Steps
    BY <2>2 DEF FirstStep, Steps
  <2> HIDE DEF t
  <2>4. Answered' = Answered
    BY <2>1 DEF Answered
  <2>5. task'[n] = t /\ \A m \in Number : m # n => task'[m] = task[m]
    BY <1>1, <2>1 DEF Goto, Shape
  <2>6. ASSUME NEW m \in Number, task'[m] # Idle
        PROVE  m <= Len(asked') /\ m \notin Answered' /\ task'[m].step \in Steps \cup {"write"}
    <3>1. CASE m = n
      BY <1>2, <1>3, <2>3, <2>4, <2>5, <3>1
    <3>2. CASE m # n
      <4>1. task'[m] = task[m] /\ m \in Nat
        BY <2>5, <3>2 DEF Number
      <4>2. m <= Len(asked) /\ m \notin Answered /\ task[m].step \in Steps \cup {"write"}
        BY <1>1, <2>6, <4>1 DEF TasksTyped
      <4>3. QED
        BY <1>n, <1>2, <2>4, <4>1, <4>2
    <3>3. QED
      BY <3>1, <3>2
  <2>7. TasksTyped'
    BY <2>6 DEF TasksTyped
  <2>8. AnswersTyped'
    <3>1. ASSUME NEW m \in Answered
          PROVE  m <= Len(asked')
      <4>1. m \in Nat /\ m <= Len(asked)
        BY <1>1 DEF AnswersTyped, Answered, Number
      <4>2. QED
        BY <1>n, <1>2, <4>1
    <3>2. QED
      BY <1>1, <2>1, <2>4, <3>1 DEF AnswersTyped
  <2>9. LogTyped'
    BY <1>1, <1>2, <2>1, <2>4 DEF LogTyped
  <2>10. StoreTyped'
    BY <1>1, <1>2, <2>4, StoreStays
  <2>11. QED
    BY <1>2, <2>7, <2>8, <2>9, <2>10 DEF TypeOK
<1>10. QED
  BY <1>6, <1>8, <1>9, <1>7

LEMMA OthersTyped ==
    ASSUME ConsoleInv, TypeOK,
           \/ \E n \in Number : WriteLine(n) \/ LineFails(n)
           \/ Crash
           \/ UNCHANGED vars
    PROVE  TypeOK'
<1>1. UNCHANGED <<products, stocked, consumers, asked, answers>>
  BY DEF WriteLine, LineFails, Crash, tables, historyVars, vars
<1>2. Answered' = Answered /\ AnswersTyped'
  BY <1>1 DEF TypeOK, Answered, AnswersTyped
<1>3. StoreTyped'
  <2>1. consumers' \subseteq Username /\ UNCHANGED <<products, stocked>>
    BY <1>1 DEF TypeOK, StoreTyped
  <2>2. QED
    BY <1>2, <2>1, StoreStays DEF TypeOK
<1>4. faults' \in 0..MaxFaults
  <2>1. faults \in 0..MaxFaults /\ MaxFaults \in Nat
    BY ConsoleAssumption DEF TypeOK
  <2>2. QED
    BY <2>1 DEF WriteLine, LineFails, Crash, Fault, vars
<1>5. TasksTyped'
  <2>1. TasksTyped
    BY DEF TypeOK
  <2>2. CASE Crash
    BY <2>2 DEF Crash, TasksTyped
  <2>3. CASE UNCHANGED task
    BY <1>1, <1>2, <2>1, <2>3 DEF TasksTyped
  <2>4. QED
    BY <2>2, <2>3 DEF WriteLine, LineFails, vars
<1>6. LogTyped'
  <2>1. LogTyped
    BY DEF TypeOK
  <2>2. ASSUME NEW n \in Number, WriteLine(n)
        PROVE  LogTyped'
    <3>1. n \in Answered /\ logging' = logging \ {n}
      BY <2>1, <2>2 DEF WriteLine, LogTyped
    <3>2. DOMAIN requestLog' = Number /\ \A m \in Number : m # n => requestLog'[m] = requestLog[m]
      BY <2>1, <2>2 DEF WriteLine, LogTyped
    <3>3. QED
      BY <1>2, <2>1, <3>1, <3>2 DEF LogTyped
  <2>3. CASE UNCHANGED requestLog /\ logging' \subseteq logging
    BY <1>2, <2>1, <2>3 DEF LogTyped
  <2>4. QED
    BY <2>2, <2>3 DEF LineFails, Crash, vars
<1>7. QED
  BY <1>2, <1>3, <1>4, <1>5, <1>6 DEF TypeOK

LEMMA InitTyped == Init => TypeOK
<1> SUFFICES ASSUME Init
             PROVE  TypeOK
  OBVIOUS
<1>1. Answered = {} /\ Cardinality(Answered) = 0
  <2>1. Answered = {}
    BY DEF Init, Answered
  <2>2. QED
    BY <2>1, FS_EmptySet
<1>2. ASSUME NEW i \in Stored
      PROVE  CleanRow(products[i]) /\ i <= stocked
  <2>1. i \in DOMAIN Shelf /\ products[i] = Shelf[i]
    BY <1>2 DEF Init, Stored
  <2>2. i <= Len(Shelf) /\ Shelf[i] \in Product
    BY <2>1, ConsoleAssumption
  <2>3. QED
    BY <2>1, <2>2, CleanShelf DEF Init, CleanRow
<1>3. stocked \in Len(Shelf)..(Len(Shelf) + Cardinality(Answered)) /\ faults \in 0..MaxFaults
  BY <1>1, Bounds, ConsoleAssumption DEF Init
<1>4. consumers \subseteq Username
  BY DEF Init, Username
<1>5. LogTyped /\ TasksTyped /\ AnswersTyped
  BY <1>1 DEF Init, LogTyped, TasksTyped, AnswersTyped
<1>6. QED
  BY <1>2, <1>3, <1>4, <1>5 DEF TypeOK, StoreTyped

LEMMA NextTyped == ConsoleInv /\ TypeOK /\ [Next]_vars => TypeOK'
<1> SUFFICES ASSUME ConsoleInv, TypeOK, [Next]_vars
             PROVE  TypeOK'
  OBVIOUS
<1>1. ASSUME NEW request \in Request, Receive(request)
      PROVE  TypeOK'
  BY <1>1, ReceiveTyped
<1>2. ASSUME NEW n \in Number, Continue(n)
      PROVE  TypeOK'
  BY <1>2, ReadTyped, ResolveConsumerTyped, InsertTyped, FindOneTyped, UpdateTyped, RemoveTyped
     DEF Continue
<1>3. ASSUME NEW n \in Number, CallFails(n) \/ WriteLine(n) \/ LineFails(n)
      PROVE  TypeOK'
  BY <1>3, ReadTyped, OthersTyped
<1>4. CASE Crash \/ UNCHANGED vars
  BY <1>4, OthersTyped
<1>5. QED
  BY <1>1, <1>2, <1>3, <1>4 DEF Next

\* The data keeps its shape: assets under their names, at most one id given
\* out for every request answered, and no handler after its answer.
THEOREM TypeCorrect == Spec => []TypeOK
BY ConsoleCorrect, InitTyped, NextTyped, PTL DEF Spec
=============================================================================
