-------------------------------- MODULE Console --------------------------------
(***************************************************************************)
(* A request from its arrival to its answer and its line in the API log:   *)
(* guards, validation pipe, handler, logging interceptor and exception     *)
(* filter, for the routes of products (src/products/products.service.ts)   *)
(* and the health probes.  Handlers are split at their awaits and run side *)
(* by side; the insert of the log line is awaited by nobody.               *)
(* "n" numbers the requests received; the definitions with a suffix are    *)
(* broken variants to try properties with.                                 *)
(***************************************************************************)
EXTENDS RequestContext, Integers, Sequences, FiniteSets

CONSTANTS
    Request,     \* what clients send: route, headers, key, internal, id, body
    Shelf,       \* products in the database when the process starts
    MaxRequests, \* bound: requests received
    MaxFaults    \* bound: failed database calls and crashes

Username == {request.key.username : request \in Request} \cup {Shelf[i].owner : i \in DOMAIN Shelf}

Product == [owner : Username, amount : STRING \cup {NULL}, asset : STRING, active : BOOLEAN]

ASSUME ConsoleAssumption ==
    /\ MaxRequests \in Nat /\ MaxFaults \in Nat
    /\ NULL \notin Nat \cup {"admin"}
    /\ Shelf \in Seq(Product)

\* The provers know of no string that it is one.
ASSUME NativeIsAName == "native" \in STRING

\* Assets are stored under their names.
ASSUME CleanShelf == \A i \in DOMAIN Shelf : Shelf[i].asset \notin {"", "xlm"}

\* An answer is not the absence of one.
ASSUME NullNoAnswer == NULL \notin [status : Nat, rows : SUBSET Product]

\* The validation pipe lets no field through that the DTO does not have, and no
\* value of another type.  (A null "active" of an update fails in Prisma.)
NewBody == [amount : STRING \cup {NULL}, assetCode : STRING \cup {NULL}, active : BOOLEAN \cup {NULL}]

GoodChange(dto) ==
    /\ DOMAIN dto \subseteq {"amount", "assetCode", "active"}
    /\ "amount" \in DOMAIN dto => dto["amount"] \in STRING \cup {NULL}
    /\ "assetCode" \in DOMAIN dto => dto["assetCode"] \in STRING \cup {NULL}
    /\ "active" \in DOMAIN dto => dto["active"] \in BOOLEAN

ASSUME Validated ==
    \A request \in Request :
        /\ request.route \in {"create", "list", "get", "update", "remove", "liveness", "readiness"}
        /\ request.valid \in BOOLEAN
        /\ request.route = "create" /\ request.valid => request.body \in NewBody
        /\ request.route = "update" /\ request.valid => GoodChange(request.body)

\* External: what carries the secret and names a consumer has the headers that
\* the gateway makes of a key, and every key belongs to a consumer.
ASSUME GatewayForwards ==
    \A request \in Request :
        /\ request.key.username \notin {NULL, ""}
        /\ request.headers.secret = GatewaySecret /\ request.headers.username # NULL =>
              /\ ContextOf(request.headers) # NULL /\ request.headers.permissions # NULL
              /\ \E form \in {"list", "json"} :
                    request.headers = Forwarded(request.key, form)

Number    == 1..MaxRequests
ProductId == 1..(Len(Shelf) + MaxRequests)

VARIABLES
    products,   \* product: a row, or NULL, for every id
    stocked,    \* how many product ids were given out
    consumers,  \* consumer: the usernames that have a row
    requestLog, \* request_log: the line of a request, or NULL
    logging,    \* log lines whose insert is under way
    task,       \* what each request in progress awaits
    faults,     \* failures so far
    asked,      \* history: the requests received
    answers     \* history: the answer to each of them, or NULL

tables      == <<products, stocked, consumers>>
historyVars == <<asked, answers>>
vars == <<tables, requestLog, logging, task, faults, historyVars>>

Idle == [step |-> "idle"]

Init ==
    /\ products = [i \in ProductId |-> IF i \in DOMAIN Shelf THEN Shelf[i] ELSE NULL]
    /\ stocked = Len(Shelf)
    /\ consumers = {Shelf[i].owner : i \in DOMAIN Shelf}
    /\ requestLog = [n \in Number |-> NULL]
    /\ logging = {}
    /\ task = [n \in Number |-> Idle]
    /\ faults = 0
    /\ asked = <<>>
    /\ answers = [n \in Number |-> NULL]

Stored == {i \in ProductId : products[i] # NULL}

Goto(n, step) == task' = [task EXCEPT ![n] = step]

At(n, step) == task[n].step = step

Consumer(request) == ContextOf(request.headers)

-----------------------------------------------------------------------------
(***************************************************************************)
(* The tables of routes: what each requires and how it answers.            *)
(***************************************************************************)
IsPublic(route) == route \in {"liveness", "readiness"}

Required(route) ==
    IF route \in {"create", "update", "remove"} THEN {"products:write"}
    ELSE IF route \in {"list", "get"} THEN {"products:read"}
    ELSE {}

\* Nest sets it before the handler runs.
StatusOf(route) == IF route = "create" THEN 201 ELSE 200

\* persist: probes and the dashboard's own traffic leave no line.
IsLogged(request) == ~IsPublic(request.route) /\ ~request.internal

\* The interceptor's finalize runs before the exception filter sets the
\* status of an error, so it finds the one Nest set.
LogLine(request) ==
    [consumer |-> Consumer(request).username, route |-> request.route,
     status |-> StatusOf(request.route)]

Answer(n, status, rows) == answers' = [answers EXCEPT ![n] = [status |-> status, rows |-> rows]]

\* The handler of request n ends: finalize starts the insert of the line,
\* then the answer or the exception filter's is sent.
Respond_SuccessLogged(n, request, status, rows) ==
    /\ Goto(n, Idle)
    /\ Answer(n, status, rows)
    /\ logging' = IF IsLogged(request) /\ status < 400 THEN logging \cup {n} ELSE logging

Respond(n, request, status, rows) ==
    /\ Goto(n, Idle)
    /\ Answer(n, status, rows)
    /\ logging' = IF IsLogged(request) THEN logging \cup {n} ELSE logging

Fails(n, status) == Respond(n, asked[n], status, {})

Success(n, rows) == Respond(n, asked[n], StatusOf(asked[n].route), rows)

-----------------------------------------------------------------------------
(***************************************************************************)
(* Arrival: middleware, guards and ValidationPipe, none of which awaits    *)
(* anything shared.  A request that a guard refuses never comes to the     *)
(* interceptor; one with an invalid body or query does, and gets a 400.    *)
(***************************************************************************)
FirstStep ==
    [route \in {"create", "list", "get", "update", "remove", "readiness"} |->
        IF route = "readiness" THEN "ping" ELSE "resolve"]

Receive(request) ==
    LET n       == Len(asked) + 1
        refused == Refusal(IsPublic(request.route), request.headers, Required(request.route))
    IN  /\ n <= MaxRequests
        /\ asked' = Append(asked, request)
        /\ IF refused # NULL THEN Answer(n, refused, {}) /\ UNCHANGED <<task, logging>>
           ELSE IF ~request.valid THEN Respond(n, request, 400, {})
           ELSE IF request.route = "liveness" THEN Respond(n, request, 200, {})
           ELSE /\ Goto(n, [step |-> FirstStep[request.route]])
                /\ UNCHANGED <<answers, logging>>
        /\ UNCHANGED <<tables, requestLog, faults>>

\* The readiness probe: SELECT 1.
Ping(n) ==
    /\ At(n, "ping")
    /\ Success(n, {})
    /\ UNCHANGED <<tables, requestLog, faults, asked>>

-----------------------------------------------------------------------------
(***************************************************************************)
(* ProductsService.  Of a product only the fields with a rule of their own *)
(* are kept.  Every route begins with resolveConsumer.                     *)
(***************************************************************************)
Fault == faults < MaxFaults /\ faults' = faults + 1

NextStep ==
    [create |-> "insert", list |-> "list", get |-> "find", update |-> "find", remove |-> "find"]

ResolveConsumer(n) ==
    /\ At(n, "resolve")
    /\ consumers' = consumers \cup {Consumer(asked[n]).username}
    /\ Goto(n, [step |-> NextStep[asked[n].route]])
    /\ UNCHANGED <<products, stocked, requestLog, logging, faults, historyVars>>

ResolveAsset_Raw(assetCode) == IF assetCode = NULL THEN "native" ELSE assetCode

ResolveAsset(assetCode) == IF assetCode \in {NULL, "", "xlm", "native"} THEN "native" ELSE assetCode

OrElse(value, default) == IF value = NULL THEN default ELSE value

NewProduct(owner, dto) ==
    [owner |-> owner, amount |-> dto.amount, asset |-> ResolveAsset(dto.assetCode),
     active |-> OrElse(dto.active, TRUE)]

\* A call that changed a row is answered, or its reply is lost and the
\* handler rejects although the row did change.
Written(n, rows) ==
    \/ Success(n, rows) /\ UNCHANGED faults
    \/ Fault /\ Fails(n, 500)

Insert(n) ==
    /\ At(n, "insert")
    /\ LET row == NewProduct(Consumer(asked[n]).username, asked[n].body)
       IN  /\ stocked' = stocked + 1
           /\ products' = [products EXCEPT ![stocked'] = row]
           /\ Written(n, {row})
    /\ UNCHANGED <<consumers, requestLog, asked>>

Owns_AnyOwner(user, i) == i \in Stored

Owns(user, i) == i \in Stored /\ products[i].owner = user

FindAll(n) ==
    /\ At(n, "list")
    /\ Success(n, {products[i] : i \in {j \in Stored : Owns(Consumer(asked[n]).username, j)}})
    /\ UNCHANGED <<tables, requestLog, faults, asked>>

\* findFirst: the whole of the get route and the ownership check of update and
\* remove, which then write by id alone.
FindOne(n) ==
    /\ At(n, "find")
    /\ LET i == asked[n].id
       IN  IF ~Owns(Consumer(asked[n]).username, i) THEN Fails(n, 404)
           ELSE IF asked[n].route = "get" THEN Success(n, {products[i]})
           ELSE /\ Goto(n, [step |-> "write", seen |-> products[i]])
                /\ UNCHANGED <<logging, answers>>
    /\ UNCHANGED <<tables, requestLog, faults, asked>>

\* Only the fields that the body gives.
Changes(dto) ==
    [field \in {IF f = "assetCode" THEN "asset" ELSE f : f \in DOMAIN dto} |->
        IF field = "asset" THEN ResolveAsset(dto.assetCode) ELSE dto[field]]

Patched_WholeRow(row, seen, dto) ==
    [field \in DOMAIN row |-> IF field \in DOMAIN Changes(dto) THEN Changes(dto)[field] ELSE seen[field]]

Patched(row, seen, dto) ==
    [field \in DOMAIN row |-> IF field \in DOMAIN Changes(dto) THEN Changes(dto)[field] ELSE row[field]]

\* P2025: there is no such row any more, which is not an HttpException.
Gone_Ignored(n) == Success(n, {}) /\ UNCHANGED <<products, faults>>

Gone(n) == Fails(n, 500) /\ UNCHANGED <<products, faults>>

Update(n) ==
    /\ At(n, "write") /\ asked[n].route = "update"
    /\ LET i   == asked[n].id
           row == Patched(products[i], task[n].seen, asked[n].body)
       IN  IF i \in Stored
           THEN products' = [products EXCEPT ![i] = row] /\ Written(n, {row})
           ELSE Gone(n)
    /\ UNCHANGED <<stocked, consumers, requestLog, asked>>

Remove(n) ==
    /\ At(n, "write") /\ asked[n].route = "remove"
    /\ LET i == asked[n].id
       IN  IF i \in Stored
           THEN products' = [products EXCEPT ![i] = NULL] /\ Written(n, {})
           ELSE Gone(n)
    /\ UNCHANGED <<stocked, consumers, requestLog, asked>>

-----------------------------------------------------------------------------
(***************************************************************************)
(* The log line, and failures.                                             *)
(***************************************************************************)
WriteLine(n) ==
    /\ n \in logging
    /\ logging' = logging \ {n}
    /\ requestLog' = [requestLog EXCEPT ![n] = LogLine(asked[n])]
    /\ UNCHANGED <<tables, task, faults, historyVars>>

\* "logging must never break the request": the line is lost.
LineFails(n) ==
    /\ n \in logging
    /\ Fault
    /\ logging' = logging \ {n}
    /\ UNCHANGED <<tables, requestLog, task, historyVars>>

\* A failed ping is a 503 of the probe, any other rejected call a 500.
CallFails(n) ==
    /\ \E step \in {"ping", "resolve", "insert", "list", "find", "write"} : At(n, step)
    /\ Fault
    /\ Fails(n, IF At(n, "ping") THEN 503 ELSE 500)
    /\ UNCHANGED <<tables, requestLog, asked>>

Crash ==
    /\ Fault
    /\ task' = [n \in Number |-> Idle]
    /\ logging' = {}
    /\ UNCHANGED <<tables, requestLog, historyVars>>

Continue(n) ==
    \/ Ping(n) \/ ResolveConsumer(n) \/ Insert(n)
    \/ FindAll(n) \/ FindOne(n) \/ Update(n) \/ Remove(n)

Next ==
    \/ \E request \in Request : Receive(request)
    \/ \E n \in Number : Continue(n) \/ CallFails(n) \/ WriteLine(n) \/ LineFails(n)
    \/ Crash

\* A call that is awaited is answered, and so is the insert of a log line.
Fairness ==
    \A n \in Number : WF_vars(Continue(n)) /\ WF_vars(WriteLine(n))

Spec == Init /\ [][Next]_vars /\ Fairness

-----------------------------------------------------------------------------
(***************************************************************************)
(* The API log of the dashboard (apiLogs of                                *)
(* src/analytics/analytics.service.ts): the lines of the caller, of which  *)
(* it shows the newest hundred, more than the bounds here allow.           *)
(***************************************************************************)
ApiLogs(username) ==
    {n \in Number : requestLog[n] # NULL /\ requestLog[n].consumer = username}

\* How a line is shown.
Shown(line) ==
    IF line.status < 400 THEN "ok" ELSE IF line.status < 500 THEN "pending" ELSE "fail"

-----------------------------------------------------------------------------
(***************************************************************************)
(* Safety.                                                                 *)
(***************************************************************************)
Steps == {"ping", "resolve", "insert", "list", "find"}

Answered == {n \in Number : answers[n] # NULL}

CleanRow(row) == row \in Product /\ row.asset \notin {"", "xlm"}

StoreTyped ==
    /\ \A i \in Stored : CleanRow(products[i]) /\ i <= stocked
    /\ stocked \in Len(Shelf)..(Len(Shelf) + Cardinality(Answered))
    /\ consumers \subseteq Username

AnswersTyped ==
    \A n \in Answered :
        /\ n <= Len(asked) /\ answers[n].rows \subseteq Product
        /\ answers[n].status \in {200, 201, 400, 401, 403, 404, 500, 503}

LogTyped ==
    /\ DOMAIN requestLog = Number /\ logging \subseteq Answered
    /\ \A n \in Number : requestLog[n] # NULL => n \in Answered \ logging

TasksTyped ==
    \A n \in Number :
        task[n] # Idle =>
            n <= Len(asked) /\ n \notin Answered /\ task[n].step \in Steps \cup {"write"}

\* Every variable keeps the shape of the data it stands for; an asset is stored
\* under its one name, no more ids are given out than requests are answered, and
\* a handler is over when its answer is there.
TypeOK == StoreTyped /\ AnswersTyped /\ LogTyped /\ TasksTyped /\ faults \in 0..MaxFaults

\* What an API key was issued for, whatever form it is forwarded in.
Entitled(request) ==
    /\ request.headers.secret = GatewaySecret /\ request.headers.username = request.key.username
    /\ request.key.role = "admin" \/ Required(request.route) \subseteq request.key.scopes

\* Only a key that was issued for it is served, and it is shown nothing of
\* another consumer.
ServedToEntitled ==
    \A n \in DOMAIN asked :
        answers[n] # NULL /\ answers[n].status < 400 /\ ~IsPublic(asked[n].route) =>
            /\ Entitled(asked[n])
            /\ \A row \in answers[n].rows : row.owner = asked[n].key.username

\* Conversely no key is refused what it was issued for: only requests that
\* bypass the gateway, or whose key lacks a scope, are answered 401 or 403.
EntitledIsServed ==
    \A n \in DOMAIN asked :
        answers[n] # NULL /\ answers[n].status \in {401, 403} => ~Entitled(asked[n])

\* A product is deleted for one of several concurrent deletes only: the
\* others are not told that they deleted it.
RemovedOnce ==
    \A m, n \in DOMAIN asked :
        /\ asked[m].route = "remove" /\ asked[n].route = "remove" /\ asked[m].id = asked[n].id
        /\ answers[m] # NULL /\ answers[m].status = 200
        /\ answers[n] # NULL /\ answers[n].status = 200
        => m = n

\* A field that an acknowledged update set has the value of an update: one
\* that gives other fields, on an older reading of the row, does not undo it.
Updates(i, field) ==
    {n \in DOMAIN asked :
        asked[n].route = "update" /\ asked[n].id = i /\ field \in DOMAIN Changes(asked[n].body)}

NoUpdateLost ==
    \A i \in Stored, field \in {"amount", "asset", "active"} :
        (\E n \in Updates(i, field) : answers[n] # NULL /\ answers[n].status = 200)
            => \E n \in Updates(i, field) : products[i][field] = Changes(asked[n].body)[field]

\* A product changes only at the hands of an entitled key of its owner.
ChangedByOwner ==
    [][\A i \in ProductId :
          products'[i] # products[i] =>
              \E n \in Number :
                  /\ task[n] # Idle /\ task'[n] = Idle /\ Entitled(asked[n])
                  /\ \A row \in {products[i], products'[i]} \ {NULL} :
                        row.owner = asked[n].key.username]_vars

(***************************************************************************)
(* Why these hold: what a suspended handler was let in for and has checked *)
(* is still true when it writes, since ids are not used again and products *)
(* do not change hands.                                                    *)
(***************************************************************************)
Field == {"owner", "amount", "asset", "active"}

StepsOf(route) ==
    IF route = "readiness" THEN {"ping"}
    ELSE IF route \in DOMAIN NextStep
         THEN {"resolve", NextStep[route]}
              \cup (IF route \in {"update", "remove"} THEN {"write"} ELSE {})
         ELSE {}

\* The product of request n was the caller's, and is if it is still there.
CheckedOwner(n) ==
    /\ asked[n].id \in 1..stocked
    /\ asked[n].id \in Stored => products[asked[n].id].owner = asked[n].key.username

TaskTrue(n) ==
    task[n] # Idle =>
        /\ n \in DOMAIN asked /\ asked[n].valid
        /\ task[n].step \in StepsOf(asked[n].route)
        /\ ~IsPublic(asked[n].route) => Entitled(asked[n])
        /\ At(n, "write") => CheckedOwner(n)

AnswerTrue(n) ==
    answers[n] # NULL =>
        /\ n \in DOMAIN asked
        /\ asked[n].route \in {"update", "remove"} /\ answers[n].status = 200 =>
              /\ asked[n].id \in 1..stocked /\ asked[n].valid
              /\ asked[n].route = "remove" => asked[n].id \notin Stored

Shape ==
    /\ asked \in Seq(Request) /\ Len(asked) <= MaxRequests
    /\ stocked \in Nat
    /\ DOMAIN products = ProductId /\ DOMAIN task = Number /\ DOMAIN answers = Number

RowsInPlace == \A i \in Stored : i <= stocked /\ DOMAIN products[i] = Field

\* Inductive: between the ownership check and the write by id alone nothing
\* happens that makes the write one on another consumer's product, on another
\* product, or one that undoes an acknowledged one.
ConsoleInv ==
    /\ Shape /\ RowsInPlace
    /\ \A n \in Number : TaskTrue(n) /\ AnswerTrue(n)
    /\ ServedToEntitled /\ EntitledIsServed /\ RemovedOnce /\ NoUpdateLost

\* Every request that comes past the guards is answered and, unless it is a
\* probe or the dashboard's, found in the API log of its caller, also when it
\* fails: unless a call fails or the process stops.
EveryRequestAccounted ==
    \A n \in Number :
        (n \in DOMAIN asked)
            ~> \/ /\ answers[n] # NULL
                  /\ IsLogged(asked[n]) /\ answers[n].status \notin {401, 403} =>
                        n \in ApiLogs(asked[n].key.username)
               \/ faults > 0

-----------------------------------------------------------------------------
\* 'So the dashboard's "API logs" view can show real requests with their
\* details' (LoggingInterceptor): what was answered as a failure is not shown
\* as ok.
ShownAsAnswered ==
    \A n \in Number :
        requestLog[n] # NULL => Shown(requestLog[n]) = Shown(answers[n])
=============================================================================
