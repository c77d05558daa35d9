----------------------------- MODULE RequestContext -----------------------------
(***************************************************************************)
(* From the headers of a request to the decision to serve it: the context  *)
(* middleware, the gateway guard and the permissions guard                 *)
(* (src/common).  They keep no state.  Letter case and surrounding blanks  *)
(* of a header are gone here; a blank one counts as absent, as it does     *)
(* after trimming.  What APISIX makes of an API key is external.           *)
(***************************************************************************)
CONSTANTS
    NULL,          \* an absent header or field
    GatewaySecret  \* APISIX_GATEWAY_SECRET

\* validateEnv refuses to start the service without a secret.
ASSUME SecretConfigured == GatewaySecret \notin {NULL, ""}

FirstHeader(raw) == IF raw = "" THEN NULL ELSE raw

ProdWords == {"prod", "production", "live", "public"}
DevWords  == {"dev", "development", "test", "testnet"}

ParseEnvironment(raw) ==
    IF raw \in ProdWords THEN "prod" ELSE IF raw \in DevWords THEN "dev" ELSE NULL

ParseRole(raw) == IF raw \in {NULL, "admin"} THEN raw ELSE "user"

\* The header is a JSON array or a comma-separated list of scopes; what
\* starts like an array and is none grants nothing.
ParsePermissions_Lists(raw) == IF raw = NULL \/ raw.form # "list" THEN {} ELSE raw.scopes

ParsePermissions(raw) == IF raw = NULL \/ raw.form = "malformed" THEN {} ELSE raw.scopes

\* req.gatewayConsumer, or NULL when no consumer was forwarded.
ContextOf(headers) ==
    IF FirstHeader(headers.username) = NULL THEN NULL
    ELSE [username    |-> headers.username,
          environment |-> ParseEnvironment(FirstHeader(headers.environment)),
          role        |-> ParseRole(FirstHeader(headers.role)),
          permissions |-> ParsePermissions(headers.permissions)]

-----------------------------------------------------------------------------
HasValidSecret(headers) == headers.secret = GatewaySecret

\* The status with which a guard refuses a request, or NULL.  No secret at
\* all is only possible when the service could not have started.
ApisixRefusal(headers) ==
    IF GatewaySecret = "" THEN 503
    ELSE IF ~HasValidSecret(headers) THEN 403
    ELSE IF ContextOf(headers) = NULL THEN 401
    ELSE NULL

Granted_RoleGiven(consumer, required) ==
    consumer.role # NULL \/ required \subseteq consumer.permissions

Granted(consumer, required) ==
    consumer.role = "admin" \/ required \subseteq consumer.permissions

PermissionRefusal(headers, required) ==
    IF required = {} THEN NULL
    ELSE IF ContextOf(headers) = NULL THEN 401
    ELSE IF ~Granted(ContextOf(headers), required) THEN 403
    ELSE NULL

\* The guards in the order of app.module.ts; the first refusal counts.
Refusal(isPublic, headers, required) ==
    IF isPublic THEN NULL
    ELSE IF ApisixRefusal(headers) # NULL THEN ApisixRefusal(headers)
    ELSE PermissionRefusal(headers, required)

-----------------------------------------------------------------------------
(***************************************************************************)
(* External: APISIX replaces the headers of the client by those of the API *)
(* key it authenticated; the list of scopes has one of two forms.  A       *)
(* request that does not come through it carries whatever its client       *)
(* wrote, but not the secret.                                              *)
(***************************************************************************)
Forwarded(key, form) ==
    [secret      |-> GatewaySecret,
     username    |-> key.username,
     environment |-> key.environment,
     role        |-> key.role,
     permissions |-> [form |-> form, scopes |-> key.scopes]]

\* A proxied request whose route does not ask for a key.
Unauthenticated ==
    [secret |-> GatewaySecret, username |-> NULL, environment |-> NULL,
     role |-> NULL, permissions |-> NULL]

Direct(key, secret) == [Forwarded(key, "list") EXCEPT !.secret = secret]
=============================================================================
