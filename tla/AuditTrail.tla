----------------------------- MODULE AuditTrail -----------------------------
(***************************************************************************)
(* The audit of HTTP requests: AuditInterceptor records the ones that      *)
(* succeed and AllExceptionsFilter the others; AuditService sends a job to *)
(* the audit queue, or logs it; the handler of the worker's audit consumer *)
(* is AuditProcessor.process, which inserts one row in a transaction.      *)
(* Module HttpApi has the routes, their guards and handlers.               *)
(***************************************************************************)
EXTENDS HttpApi, FiniteSets

CONSTANTS
  Request,                                   \* the requests the API gets
  Http,                                      \* per request: what it may be
  Job,                                       \* SQS messages that may be sent
  RequestOf,                                 \* per message: the request it tells of
  Worker, MaxReceive, MaxBatch, MaxFaults,   \* see module JobQueue
  MaxFailures                                \* bound: calls that fail or are repeated,
                                             \* stops of the API

ASSUME BoundAssumption == /\ MaxReceive \in Nat \ {0} /\ MaxBatch \in Nat \ {0}
                          /\ MaxFaults \in Nat /\ MaxFailures \in Nat
ASSUME HttpAssumption == Http \in [Request -> SUBSET HttpRequest]
ASSUME RequestOfAssumption == RequestOf \in [Job -> Request]

VARIABLES
  sent, stored, hidden, dead, receives, tries, handled, running, pc, batch, current, faults,
  asked,      \* per request: what it is
  phase,      \* per request: how far the API has come with it
  job,        \* per request: the AuditJob built from it
  record,     \* per request: AuditService.record
  statement,  \* per worker: the statement withTransaction is in
  logs,       \* table audit_logs: the rows each receive of a job has written
  failures

\* With its theorems, which hold of the audit queue too.
Queue == INSTANCE JobQueueProofs

queueVars == <<sent, stored, hidden, dead, receives, tries, handled,
               running, pc, batch, current, faults>>
api  == <<asked, phase, job, record>>
vars == <<queueVars, api, statement, logs, failures>>

\* The messages one record may become, and what is in a message.
JobsOf(r) == {j \in Job : RequestOf[j] = r}
Body(j) == job[RequestOf[j]]

NoJob == [tenantId |-> Absent, query |-> "plain", statusCode |-> 0, outcome |-> "none"]

TypeOK ==
  /\ Queue!TypeOK
  /\ asked \in [Request -> HttpRequest]
  /\ phase \in [Request -> {"new", "handler", "answered", "cut"}]
  /\ job \in [Request -> AuditJob]
  /\ record \in [Request -> {"none", "sending", "sent", "logged", "lost"}]
  /\ statement \in [Worker -> {"none", "insert", "commit"}]
  /\ logs \in [Queue!Delivery -> Nat]
  /\ failures \in Nat
  /\ \A r \in Request : job[r].outcome = "none" <=> phase[r] \in {"new", "handler", "cut"}
  /\ \A w \in Worker : statement[w] # "none" <=> pc[w] = "working"

Init ==
  /\ Queue!Init
  /\ asked \in [Request -> UNION {Http[r] : r \in Request}]
  /\ \A r \in Request : asked[r] \in Http[r]
  /\ phase = [r \in Request |-> "new"]
  /\ job = [r \in Request |-> NoJob]
  /\ record = [r \in Request |-> "none"]
  /\ statement = [w \in Worker |-> "none"]
  /\ logs = [d \in Queue!Delivery |-> 0]
  /\ failures = 0

Failure == failures < MaxFailures /\ failures' = failures + 1

-----------------------------------------------------------------------------
(* The API.                                                                *)

\* void this.audit.record(buildAuditJob(...)), and the answer, which does not wait for it.
Audit(r, statusCode, outcome) ==
  /\ phase' = [phase EXCEPT ![r] = "answered"]
  /\ job' = [job EXCEPT ![r] = BuildAuditJob(asked[r], statusCode, outcome)]
  /\ record' = [record EXCEPT ![r] = "sending"]
  /\ UNCHANGED <<queueVars, asked, statement, logs>>

\* AllExceptionsFilter.catch
Catch(r, exception) == Audit(r, Resolve(exception), "error")

\* The guards let the request pass to the interceptor and the handler.
GuardsPass(r) ==
  /\ phase[r] = "new" /\ GuardThrows(asked[r]) = "nothing"
  /\ phase' = [phase EXCEPT ![r] = "handler"]
  /\ UNCHANGED <<queueVars, asked, job, record, statement, logs, failures>>

\* Bug: errors are audited by the interceptor, which a rejected request never reaches.
GuardRejectsUnaudited(r) ==
  /\ phase[r] = "new" /\ GuardThrows(asked[r]) # "nothing"
  /\ phase' = [phase EXCEPT ![r] = "answered"]
  /\ job' = [job EXCEPT ![r] = BuildAuditJob(asked[r], Resolve(GuardThrows(asked[r])), "error")]
  /\ UNCHANGED <<queueVars, asked, record, statement, logs, failures>>

\* A guard throws, or there is no such route.
GuardRejects(r) ==
  /\ phase[r] = "new" /\ GuardThrows(asked[r]) # "nothing"
  /\ Catch(r, GuardThrows(asked[r]))
  /\ UNCHANGED failures

\* The client has had its THROTTLE_LIMIT of requests.
Throttle(r) ==
  /\ phase[r] = "new" /\ Throttled(asked[r])
  /\ Catch(r, "ThrottlerException")
  /\ UNCHANGED failures

\* producer.enqueueAudit; one new SQS message is as good as another.
Enqueue(r) ==
  LET new == JobsOf(r) \ sent IN new # {} /\ Queue!Send(CHOOSE j \in new : TRUE)

\* Bug: the interceptor audits what the handler throws, and the filter does, too.
HandlerRejectsTwice(r) ==
  /\ phase[r] = "handler" /\ HandlerThrows(asked[r]) # "nothing"
  /\ phase' = [phase EXCEPT ![r] = "answered"]
  /\ job' = [job EXCEPT ![r] = BuildAuditJob(asked[r], Resolve(HandlerThrows(asked[r])), "error")]
  /\ record' = [record EXCEPT ![r] = "sending"]
  /\ Enqueue(r)
  /\ UNCHANGED <<asked, statement, logs, failures>>

\* The handler throws.
HandlerRejects(r) ==
  /\ phase[r] = "handler" /\ HandlerThrows(asked[r]) # "nothing"
  /\ Catch(r, HandlerThrows(asked[r]))
  /\ UNCHANGED failures

\* The handler returns: the tap of AuditInterceptor.
HandlerReturns(r) ==
  /\ phase[r] = "handler" /\ HandlerThrows(asked[r]) = "nothing"
  /\ Audit(r, 200, "success")
  /\ UNCHANGED failures

\* Postgres or SQS fails a call of a guard or of a handler.
CallFails(r) ==
  /\ Failure
  /\ \/ phase[r] = "new" /\ GuardCalls(asked[r])
     \/ phase[r] = "handler" /\ HandlerCalls(asked[r])
  /\ Catch(r, "Error")

Recorded(r, how) ==
  /\ record[r] = "sending"
  /\ record' = [record EXCEPT ![r] = how]
  /\ UNCHANGED <<asked, phase, job, statement, logs>>

\* AuditService.record: the job is in the queue.
RecordSent(r) == Recorded(r, "sent") /\ Enqueue(r) /\ UNCHANGED failures

\* The job is in the queue but the answer is lost, and the client of the SDK, which has
\* an attempt left, goes on to send it once more.
RecordAgain(r) ==
  /\ Failure
  /\ record[r] = "sending"
  /\ Enqueue(r) /\ ~(JobsOf(r) \subseteq sent')
  /\ UNCHANGED <<api, statement, logs>>

\* The enqueue throws, and the catch logs the record.
RecordLogged(r) == Failure /\ Recorded(r, "logged") /\ UNCHANGED queueVars

\* The job is in the queue, and the record is logged because the last answer is lost.
RecordBoth(r) == Failure /\ Recorded(r, "logged") /\ Enqueue(r)

\* The API stops, by a crash or a signal: nobody waits for the records.
ApiStops ==
  /\ Failure
  /\ phase' = [r \in Request |-> IF phase[r] = "handler" THEN "cut" ELSE phase[r]]
  /\ record' = [r \in Request |-> IF record[r] = "sending" THEN "lost" ELSE record[r]]
  /\ UNCHANGED <<queueVars, asked, job, statement, logs>>

-----------------------------------------------------------------------------
(* AuditProcessor.process, called by SqsConsumer.handleMessage.            *)

At(w, stmt) == pc[w] = "working" /\ statement[w] = stmt
Do(w, stmt) == statement' = [statement EXCEPT ![w] = stmt]
Written(w)  == logs' = [logs EXCEPT ![current[w]] = @ + 1]

\* Bug: a failed run leaves its transaction behind for the next one.
ThrowKeepsStatement(w) == Queue!HandlerFails(w) /\ UNCHANGED statement

\* The handler throws: ROLLBACK, and the job stays in the queue.
Throw(w) == Queue!HandlerFails(w) /\ Do(w, "none")

CallHandler(w) ==
  /\ Queue!Handle(w)
  /\ Do(w, "insert")
  /\ UNCHANGED <<api, logs, failures>>

\* repository.insert in the transaction; audit_logs has no key but its id.
Insert(w) ==
  /\ At(w, "insert") /\ Storable(Body(current[w].job))
  /\ Do(w, "commit")
  /\ UNCHANGED <<queueVars, api, logs, failures>>

\* Bug: a job that Postgres refuses is deleted by the handler.
InsertRefusedDeletes(w) ==
  /\ At(w, "insert") /\ ~Storable(Body(current[w].job))
  /\ stored' = stored \ {current[w].job} /\ hidden' = hidden \ {current[w].job}
  /\ Queue!NextDelivery(w) /\ Do(w, "none")
  /\ UNCHANGED <<sent, dead, receives, tries, handled, running, batch, faults, api, logs, failures>>

\* Postgres refuses the row, now and at every receive.
InsertRefused(w) ==
  /\ At(w, "insert") /\ ~Storable(Body(current[w].job))
  /\ Throw(w)
  /\ UNCHANGED <<api, logs, failures>>

\* Bug: process() does not wait for the COMMIT.
CommitNotAwaited(w) ==
  /\ At(w, "commit")
  /\ Written(w) \/ UNCHANGED logs
  /\ Queue!HandlerSucceeds(w) /\ Do(w, "none")
  /\ UNCHANGED <<api, failures>>

\* COMMIT; the handler returns.
Commit(w) ==
  /\ At(w, "commit")
  /\ Written(w)
  /\ Queue!HandlerSucceeds(w) /\ Do(w, "none")
  /\ UNCHANGED <<api, failures>>

\* BEGIN, INSERT or COMMIT fails.
StatementFails(w) ==
  /\ Failure
  /\ Throw(w)
  /\ UNCHANGED <<api, logs>>

\* Bug: a failed transaction is tried again at once.
CommitRetried(w) ==
  /\ Failure
  /\ At(w, "commit")
  /\ Written(w)
  /\ UNCHANGED <<queueVars, api, statement>>

\* COMMIT takes effect and its answer is lost.
CommitAnswerLost(w) ==
  /\ Failure
  /\ At(w, "commit")
  /\ Written(w)
  /\ Throw(w)
  /\ UNCHANGED api

-----------------------------------------------------------------------------
(* The rest of the queue.                                                  *)

Elsewhere == UNCHANGED <<api, logs, failures>>

\* SqsConsumer around the handler.
Loop(w) ==
  /\ \/ Queue!Poll(w) \/ Queue!ReceiveNothing(w) \/ Queue!BackoffEnds(w) \/ Queue!Delete(w)
     \/ \E S \in SUBSET Job : Queue!Receive(w, S)
  /\ UNCHANGED statement /\ Elsewhere

Start(w) == Queue!Start(w) /\ UNCHANGED statement /\ Elsewhere

Disturb(w) ==
  /\ \/ Queue!ReceiveFails(w) \/ Queue!DeleteFails(w) \/ Queue!Sigterm(w)
     \/ \E S \in SUBSET Job : Queue!ReceiveAnswerLost(w, S)
  /\ UNCHANGED statement /\ Elsewhere

\* The worker's process ends; Postgres rolls its open transaction back.
Exit(w)  == Queue!Exit(w) /\ Do(w, "none") /\ Elsewhere
Crash(w) == Queue!Crash(w) /\ Do(w, "none") /\ Elsewhere

Expire(j)  == Queue!Expire(j) /\ UNCHANGED statement /\ Elsewhere
Redrive(j) == Queue!Redrive(j) /\ UNCHANGED statement /\ Elsewhere

Serve(r) == \/ GuardsPass(r) \/ GuardRejects(r) \/ Throttle(r)
            \/ HandlerRejects(r) \/ HandlerReturns(r) \/ RecordSent(r)
Process(w) == CallHandler(w) \/ Insert(w) \/ InsertRefused(w) \/ Commit(w)

Next ==
  \/ \E r \in Request : \/ Serve(r) \/ CallFails(r)
                        \/ RecordAgain(r) \/ RecordLogged(r) \/ RecordBoth(r)
  \/ ApiStops
  \/ \E j \in Job : Expire(j) \/ Redrive(j)
  \/ \E w \in Worker : \/ Process(w) \/ StatementFails(w) \/ CommitAnswerLost(w)
                       \/ Loop(w) \/ Start(w) \/ Disturb(w) \/ Exit(w) \/ Crash(w)

Spec == Init /\ [][Next]_vars

\* As in module JobQueue; the API goes on with a request and with its record.
Fairness ==
  /\ \A w \in Worker : /\ WF_vars(Process(w) \/ Loop(w))
                       /\ WF_vars(Start(w)) /\ WF_vars(Exit(w))
  /\ \A r \in Request : WF_vars(Serve(r))
  /\ \A j \in Job :
       /\ WF_vars(Expire(j)) /\ SF_vars(Redrive(j))
       /\ SF_vars(/\ \E w \in Worker, S \in SUBSET Job : j \in S /\ Queue!Receive(w, S)
                  /\ UNCHANGED statement /\ Elsewhere)
LiveSpec == Spec /\ Fairness

-----------------------------------------------------------------------------
(* Properties.                                                             *)

InTable(r) == \E d \in Queue!Delivery : RequestOf[d.job] = r /\ logs[d] > 0

\* Whatever happened since, an answered request has left its trace: its record is on
\* its way, in the log of the API, in the queue or its DLQ, or in audit_logs; only
\* one that was on its way when the API stopped is lost.
AnsweredIsTraced ==
  \A r \in Request : phase[r] = "answered" =>
    \/ record[r] \in {"sending", "logged", "lost"}
    \/ JobsOf(r) \cap (stored \cup dead) # {} \/ InTable(r)

\* A request is audited once: the interceptor and the filter do not both send a job for
\* it, only the client of the SDK repeats a send; and each receive of a job writes one
\* row at most.
NoDoubleAudit ==
  /\ failures = 0 => \A i, j \in sent : RequestOf[i] = RequestOf[j] => i = j
  /\ \A d \in Queue!Delivery : logs[d] <= 1 /\ (logs[d] = 1 => d.receipt <= receives[d.job])

\* Without a failure the audit of a request that can be stored reaches audit_logs,
\* whatever the visibility timeout does.
StoredUnlessFailure ==
  \A r \in Request :
    phase[r] = "answered" /\ Storable(job[r]) ~> InTable(r) \/ failures > 0 \/ faults > 0

\* The audit is a use of the queue: it keeps what module JobQueue promises.
ImplementsQueue == Queue!Spec

\* db/schema/audit-logs.ts:6 and docs/ARCHITECTURE.md:25: audit_logs is the trail of all
\* requests, each is audited.
EveryRequestAudited ==
  \A r \in Request : phase[r] = "answered" ~> InTable(r) \/ failures > 0 \/ faults > 0

=============================================================================
