------------------------------ MODULE HttpApi ------------------------------
(***************************************************************************)
(* What the API does with a request around the work of its handler: the    *)
(* guards and handlers of each route, the status AllExceptionsFilter gives *)
(* to what they throw, and the AuditJob that is built from the request.    *)
(*                                                                         *)
(* A request is a record of what is read of it:                            *)
(*   route                                                                 *)
(*   tenant   X-Tenant-Id: a tenant, a uuid of no tenant, no uuid, empty,  *)
(*            or Absent                                                    *)
(*   genuine  the signature or hub.verify_token is right                   *)
(*   target   the payload of the webhook, or the conversation that is      *)
(*            asked for: found, missing or malformed                       *)
(*   query    plain, or with a NUL that no jsonb can hold                  *)
(***************************************************************************)
EXTENDS Naturals

CONSTANTS Tenant, Absent

Scoped == {"GET /conversations", "GET /conversations/:id/messages"}
Routes == Scoped \cup {"GET /webhook", "POST /webhook", "GET /health", "GET /internal/orders", "other"}
TenantHeader == Tenant \cup {"other uuid", "no uuid", "", Absent}
HttpRequest == [route : Routes, tenant : TenantHeader, genuine : BOOLEAN,
                target : {"found", "missing", "malformed"}, query : {"plain", "nul"}]

\* The global ThrottlerGuard, unless the controller says @SkipThrottle.
Throttled(req) == req.route \in Scoped \cup {"GET /internal/orders"}

\* What the router, WebhookSignatureGuard or TenantGuard throws while Postgres answers:
\* Postgres itself refuses to look for a tenant by what is no uuid.
GuardThrows(req) ==
  CASE req.route = "other" -> "NotFoundException"
    [] req.route = "POST /webhook" /\ ~req.genuine -> "ForbiddenException"
    [] req.route \in Scoped /\ req.tenant \in {"", Absent, "other uuid"} -> "UnauthorizedException"
    [] req.route \in Scoped /\ req.tenant = "no uuid" -> "Error"
    [] OTHER -> "nothing"

\* What the handler throws while Postgres and SQS answer.
HandlerThrows(req) ==
  CASE req.route = "GET /webhook" /\ ~req.genuine -> "ForbiddenException"
    [] req.route = "POST /webhook" /\ req.target = "malformed" -> "Error"
    [] req.route = "GET /conversations/:id/messages" /\ req.target = "missing" ->
         "NotFoundDomainError"
    [] req.route = "GET /conversations/:id/messages" /\ req.target = "malformed" -> "Error"
    [] OTHER -> "nothing"

\* The awaited calls of a route, which can fail.
GuardCalls(req)   == req.route \in Scoped /\ req.tenant \notin {"", Absent}
HandlerCalls(req) == req.route \in Scoped \cup {"POST /webhook"}

\* AllExceptionsFilter.resolve
Resolve(exception) ==
  CASE exception = "UnauthorizedException" -> 401
    [] exception = "ForbiddenException" -> 403
    [] exception \in {"NotFoundException", "NotFoundDomainError"} -> 404
    [] exception = "ThrottlerException" -> 429
    [] OTHER -> 500

\* buildAuditJob: the tenant is the header as it comes, which TenantGuard has confirmed
\* on the routes that are scoped and nobody on the others.
BuildAuditJob(req, statusCode, outcome) ==
  [tenantId |-> req.tenant, query |-> req.query, statusCode |-> statusCode, outcome |-> outcome]
AuditJob == [tenantId : TenantHeader, query : {"plain", "nul"}, statusCode : Nat,
             outcome : {"none", "success", "error"}]

\* Postgres takes the row of auditJobToRow: audit_logs.tenant_id is a uuid, and
\* request_meta, with the query, a jsonb.
Storable(job) == job.tenantId \notin {"no uuid", ""} /\ job.query # "nul"
=============================================================================
