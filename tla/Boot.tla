-------------------------------- MODULE Boot --------------------------------
(***************************************************************************)
(* How the system comes up.  The API's container runs migrate.js &&        *)
(* seed.js && main.js; each worker ensures both pairs of queues with       *)
(* QueueBootstrap and then consumes.  Nothing starts a process again but   *)
(* the operator, who may edit .env in between.  Each of these programs     *)
(* validates its environment first.                                        *)
(*                                                                         *)
(* SQS and Postgres are external: a call to them may fail, CreateQueue of  *)
(* an existing queue changes nothing, and a call on a queue that does not  *)
(* exist is refused.                                                       *)
(***************************************************************************)
EXTENDS Environment

CONSTANTS
  Worker,
  Env,       \* what .env may hold
  MaxFaults  \* bound: failing calls, ends of processes, edits of .env

ASSUME BoundAssumption == MaxFaults \in Nat

Pairs  == {"jobs", "audit"}
Queues == {"main", "dlq"} \X Pairs

\* The row seed.js inserts: DEFAULT_TENANT_ID and META_PHONE_NUMBER_ID.
Tenant(e) == [id |-> e["DEFAULT_TENANT_ID"], phone |-> e["META_PHONE_NUMBER_ID"]]

VARIABLES
  env,               \* .env
  api, apiEnv,       \* the API: its step, the environment of its container
  migrated,          \* the tables exist
  tenants,           \* table tenants
  worker, pair, at,  \* per worker: its step, the pair and the queue it ensures
  queues,            \* the queues that exist
  policies,          \* the pairs whose main queue has its redrive policy
  faults

apiVars    == <<env, api, apiEnv, migrated, tenants>>
workerVars == <<worker, pair, at, queues, policies>>
vars       == <<apiVars, workerVars, faults>>

ApiSteps    == {"down", "migrate", "seed", "main", "serving"}
WorkerSteps == {"down", "create", "arn", "policy", "consuming"}

TypeOK ==
  /\ env \in Env /\ apiEnv \in Env
  /\ api \in ApiSteps
  /\ migrated \in BOOLEAN
  /\ tenants \subseteq {Tenant(e) : e \in {v \in Env : Valid(v)}}
  /\ worker \in [Worker -> WorkerSteps]
  /\ pair \in [Worker -> Pairs]
  /\ at \in [Worker -> {"main", "dlq"}]
  /\ queues \subseteq Queues
  /\ policies \subseteq Pairs
  /\ faults \in Nat

Init ==
  /\ env \in Env /\ apiEnv = env
  /\ api = "down" /\ migrated = FALSE /\ tenants = {}
  /\ worker = [w \in Worker |-> "down"]
  /\ pair = [w \in Worker |-> "jobs"]
  /\ at = [w \in Worker |-> "dlq"]
  /\ queues = {} /\ policies = {}
  /\ faults = 0

Fault == faults < MaxFaults /\ faults' = faults + 1

-----------------------------------------------------------------------------
(* The API.                                                                *)

\* The operator edits .env; a container keeps the environment it was created with.
EditEnv ==
  /\ Fault
  /\ env' \in Env \ {env}
  /\ UNCHANGED <<api, apiEnv, migrated, tenants, workerVars>>

\* With an invalid environment migrate.js exits with 1, which ends the chain.
StartApi ==
  /\ api = "down"
  /\ api' = IF Valid(env) THEN "migrate" ELSE "down"
  /\ apiEnv' = env
  /\ UNCHANGED <<env, migrated, tenants, workerVars, faults>>

\* migrate.js applies the migrations that are missing.
Migrate ==
  /\ api = "migrate"
  /\ migrated' = TRUE /\ api' = "seed"
  /\ UNCHANGED <<env, apiEnv, tenants, workerVars, faults>>

PhoneTaken(e) == \E t \in tenants : t.phone = Tenant(e).phone
IdTaken(e)    == \E t \in tenants : t.id = Tenant(e).id

\* Bug: the columns id and phoneNumberId are swapped.
SeedSwapped ==
  /\ api = "seed"
  /\ PhoneTaken(apiEnv) \/ ~IdTaken(apiEnv)
  /\ tenants' = tenants \cup {[id |-> Tenant(apiEnv).phone, phone |-> Tenant(apiEnv).id]}
  /\ api' = "main"
  /\ UNCHANGED <<env, apiEnv, migrated, workerVars, faults>>

\* Bug: onConflictDoUpdate, so that the row of the phone number gets the new id.
SeedUpsert ==
  /\ api = "seed"
  /\ PhoneTaken(apiEnv) \/ ~IdTaken(apiEnv)
  /\ tenants' = {t \in tenants : t.phone # Tenant(apiEnv).phone} \cup {Tenant(apiEnv)}
  /\ api' = "main"
  /\ UNCHANGED <<env, apiEnv, migrated, workerVars, faults>>

\* Bug: onConflictDoNothing without a target hides a clash of the ids, too.
SeedAnyConflict ==
  /\ api = "seed"
  /\ tenants' = IF PhoneTaken(apiEnv) \/ IdTaken(apiEnv) THEN tenants
                ELSE tenants \cup {Tenant(apiEnv)}
  /\ api' = "main"
  /\ UNCHANGED <<env, apiEnv, migrated, workerVars, faults>>

\* seed.js: INSERT ... ON CONFLICT (phone_number_id) DO NOTHING.
Seed ==
  /\ api = "seed"
  /\ PhoneTaken(apiEnv) \/ ~IdTaken(apiEnv)
  /\ tenants' = IF PhoneTaken(apiEnv) THEN tenants ELSE tenants \cup {Tenant(apiEnv)}
  /\ api' = "main"
  /\ UNCHANGED <<env, apiEnv, migrated, workerVars, faults>>

\* The tenant's id exists with another phone number: the primary key refuses the row,
\* seed.js exits with 1, and main.js is not run.
SeedRefused ==
  /\ api = "seed"
  /\ IdTaken(apiEnv) /\ ~PhoneTaken(apiEnv)
  /\ api' = "down"
  /\ UNCHANGED <<env, apiEnv, migrated, tenants, workerVars, faults>>

\* bootstrap of main.ts: app.listen.
Listen ==
  /\ api = "main"
  /\ api' = "serving"
  /\ UNCHANGED <<env, apiEnv, migrated, tenants, workerVars, faults>>

\* A step of the chain fails, or the API's process ends.
ApiEnds ==
  /\ Fault
  /\ api # "down"
  /\ api' = "down"
  /\ UNCHANGED <<env, apiEnv, migrated, tenants, workerVars>>

-----------------------------------------------------------------------------
(* A worker: QueueBootstrap.ensureAll, then the consumers.                 *)

Goto(w, step) == worker' = [worker EXCEPT ![w] = step]

\* With an invalid environment bootstrap() rejects, too.
StartWorker(w) ==
  /\ worker[w] = "down" /\ Valid(env)
  /\ Goto(w, "create")
  /\ pair' = [pair EXCEPT ![w] = "jobs"]
  /\ at' = [at EXCEPT ![w] = "dlq"]
  /\ UNCHANGED <<queues, policies, apiVars, faults>>

AfterCreate(w) == Goto(w, IF at[w] = "dlq" THEN "arn" ELSE "policy")

\* Bug: ensureQueue does not catch the error of a queue that exists.
CreateQueueOnce(w) ==
  /\ worker[w] = "create"
  /\ queues' = queues \cup {<<at[w], pair[w]>>}
  /\ IF <<at[w], pair[w]>> \in queues THEN Goto(w, "down") ELSE AfterCreate(w)
  /\ UNCHANGED <<pair, at, policies, apiVars, faults>>

\* ensureQueue: CreateQueue.
CreateQueue(w) ==
  /\ worker[w] = "create"
  /\ queues' = queues \cup {<<at[w], pair[w]>>}
  /\ AfterCreate(w)
  /\ UNCHANGED <<pair, at, policies, apiVars, faults>>

\* CreateQueue fails: ensureQueue takes it that the queue exists and goes on.
CreateFails(w) ==
  /\ Fault
  /\ worker[w] = "create"
  /\ AfterCreate(w)
  /\ UNCHANGED <<pair, at, queues, policies, apiVars>>

\* ensureQueueArn: GetQueueAttributes, for which the DLQ must exist.
GetArn(w) ==
  /\ worker[w] = "arn" /\ <<"dlq", pair[w]>> \in queues
  /\ at' = [at EXCEPT ![w] = "main"]
  /\ Goto(w, "create")
  /\ UNCHANGED <<pair, queues, policies, apiVars, faults>>

\* From the jobs to the audit, and then to the consumers.
NextPair(w) ==
  /\ pair' = [pair EXCEPT ![w] = "audit"]
  /\ IF pair[w] = "jobs" THEN Goto(w, "create") /\ at' = [at EXCEPT ![w] = "dlq"]
                         ELSE Goto(w, "consuming") /\ UNCHANGED at
  /\ UNCHANGED <<queues, apiVars>>

\* ensureQueue: SetQueueAttributes, in every start.
SetPolicy(w) ==
  /\ worker[w] = "policy" /\ <<"main", pair[w]>> \in queues
  /\ policies' = policies \cup {pair[w]}
  /\ NextPair(w)
  /\ UNCHANGED faults

WorkerExits(w) ==
  /\ Goto(w, "down")
  /\ UNCHANGED <<pair, at, queues, policies, apiVars>>

\* Bug: the try of ensureQueue surrounds SetQueueAttributes, too.
RefusalSwallowed(w) ==
  /\ worker[w] = "policy" /\ <<"main", pair[w]>> \notin queues
  /\ NextPair(w)
  /\ UNCHANGED <<policies, faults>>

\* GetQueueAttributes or SetQueueAttributes finds no queue: bootstrap() rejects, and
\* the process exits with 1.
Refused(w) ==
  /\ \/ worker[w] = "arn" /\ <<"dlq", pair[w]>> \notin queues
     \/ worker[w] = "policy" /\ <<"main", pair[w]>> \notin queues
  /\ WorkerExits(w)
  /\ UNCHANGED faults

\* One of these calls fails, or the process ends.
WorkerEnds(w) ==
  /\ Fault
  /\ worker[w] # "down"
  /\ WorkerExits(w)

-----------------------------------------------------------------------------
ApiGoesOn     == StartApi \/ Migrate \/ Seed \/ SeedRefused \/ Listen
WorkerGoesOn(w) ==
  StartWorker(w) \/ CreateQueue(w) \/ GetArn(w) \/ SetPolicy(w) \/ Refused(w)

Next ==
  \/ ApiGoesOn \/ EditEnv \/ ApiEnds
  \/ \E w \in Worker : WorkerGoesOn(w) \/ CreateFails(w) \/ WorkerEnds(w)

Spec == Init /\ [][Next]_vars

\* Processes go on, and the operator starts again what is down.
Fairness == WF_vars(ApiGoesOn) /\ \A w \in Worker : WF_vars(WorkerGoesOn(w))
LiveSpec == Spec /\ Fairness

-----------------------------------------------------------------------------
(* Properties.                                                             *)

\* A worker consumes only queues that move a job to an existing DLQ, although errors
\* of CreateQueue are swallowed and workers start, fail and start again side by side.
\* Module JobQueue counts on it.
ConsumesWithPolicy ==
  \A w \in Worker : worker[w] = "consuming" =>
    policies = Pairs /\ queues = Queues

\* The API serves only with its own phone number resolving to a tenant, however .env
\* was edited between its starts: else every webhook would be answered 200 and dropped.
ServesKnownPhone == api = "serving" => migrated /\ PhoneTaken(apiEnv)

\* The webhook resolves a phone number, and TenantGuard an id, to one tenant, and no
\* later start moves a tenant to another number.
TenantsAreKept ==
  [][/\ tenants \subseteq tenants'
     /\ \A s, t \in tenants' : s.id = t.id \/ s.phone = t.phone => s = t]_vars

\* Every worker gets to consume in the end, whatever an earlier start has left behind,
\* and the API to serve, unless .env is left invalid, or with the id of a tenant that has
\* another number.
ComesUp ==
  /\ \A w \in Worker : <>[](worker[w] = "consuming" \/ ~Valid(env))
  /\ <>[](api = "serving" \/ ~Valid(env) \/ (IdTaken(env) /\ ~PhoneTaken(env)))

\* docs/ARCHITECTURE.md:40-41 and queue-bootstrap.service.ts:20: the API ensures the
\* queues at its start, too; so the webhook never finds one missing.
ServesWithQueues == api = "serving" => queues = Queues

=============================================================================
