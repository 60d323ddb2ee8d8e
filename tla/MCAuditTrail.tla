---------------------------- MODULE MCAuditTrail ----------------------------
(* Instances of AuditTrail for TLC.                                        *)
EXTENDS AuditTrailProofs, TLC

Req(route, tenant, genuine, target) ==
  [route |-> route, tenant |-> tenant, genuine |-> genuine, target |-> target, query |-> "plain"]
List(tenant)   == Req("GET /conversations", tenant, FALSE, "found")
Read(target)   == Req("GET /conversations/:id/messages", "tenant1", FALSE, target)
Junk(genuine)  == Req("POST /webhook", "no uuid", genuine, "found")

\* A request that is throttled, refused by its guard or its handler, or succeeds, next to one
\* the router refuses and Postgres cannot store.
MCHttp == [r1 |-> {Req("GET /health", "other uuid", FALSE, "found"), List("other uuid"), Read("missing")},
           r2 |-> {[Req("other", Absent, FALSE, "found") EXCEPT !.query = "nul"]}]

\* The record of r1 may be sent twice.
MCRequestOf == [j \in Job |-> IF j = "j2" THEN "r2" ELSE "r1"]

MCJunk == [r1 |-> {Junk(TRUE), Junk(FALSE)}]
=============================================================================
