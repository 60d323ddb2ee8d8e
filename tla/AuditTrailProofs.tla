-------------------------- MODULE AuditTrailProofs --------------------------
(***************************************************************************)
(* What module AuditTrail guarantees for every number of requests and      *)
(* workers and any number of faults and failures.                          *)
(***************************************************************************)
EXTENDS AuditTrail, TLAPS

\* A request has a record once it is answered, and one that was sent is the queue's.
RecordsAgree ==
  \A r \in Request : /\ phase[r] = "answered" <=> record[r] # "none"
                     /\ record[r] = "sent" => JobsOf(r) \cap sent # {}

\* While nothing fails, only what AuditService.record has awaited is in the queue.
SentOnce ==
  failures = 0 => /\ \A j \in sent : record[RequestOf[j]] = "sent"
                  /\ \A i, j \in sent : RequestOf[i] = RequestOf[j] => i = j

\* A job whose handler has succeeded has a row.
HandledIsStored == \A j \in handled : \E d \in Queue!Delivery : d.job = j /\ logs[d] > 0

\* Nothing is committed for a receive before its run commits.
RowsFollowRuns ==
  /\ \A d \in Queue!Delivery : logs[d] <= tries[d]
  /\ \A w \in Worker : pc[w] = "working" => logs[current[w]] = 0

\* The inductive invariant.
Inv == /\ Queue!Inv /\ TypeOK /\ RecordsAgree /\ SentOnce
       /\ HandledIsStored /\ RowsFollowRuns

-----------------------------------------------------------------------------
(* The audit uses the queue as module JobQueue describes it.               *)

\* The steps of the API for one request.
ApiStep(r) ==
  Serve(r) \/ CallFails(r) \/ RecordAgain(r) \/ RecordLogged(r) \/ RecordBoth(r)

\* A record becomes a new message of its request.
LEMMA EnqueueSends ==
  ASSUME NEW r \in Request, Enqueue(r) PROVE \E j \in JobsOf(r) : Queue!Send(j)
BY DEF Enqueue

\* Each step is a step of the queue or leaves it alone.
LEMMA QueueStep == [Next]_vars => [Queue!Next]_Queue!vars
<1> SUFFICES ASSUME [Next]_vars PROVE [Queue!Next]_Queue!vars
  OBVIOUS
<1> USE DEF Queue!vars, queueVars
<1>1. ASSUME NEW r \in Request, ApiStep(r)
      PROVE  (\E j \in Job : Queue!Send(j)) \/ UNCHANGED Queue!vars
  BY <1>1, EnqueueSends DEF ApiStep, Serve, GuardsPass, GuardRejects, Throttle, HandlerRejects,
     HandlerReturns, CallFails, Catch, Audit, RecordSent, RecordAgain, RecordLogged, RecordBoth, JobsOf
<1>2. ASSUME NEW j \in Job, Expire(j) \/ Redrive(j)
      PROVE  Queue!Expire(j) \/ Queue!Redrive(j)
  BY <1>2 DEF Expire, Redrive
<1>3. ApiStops => UNCHANGED Queue!vars
  BY DEF ApiStops
<1>4. ASSUME NEW w \in Worker, Process(w) \/ StatementFails(w) \/ CommitAnswerLost(w)
      PROVE  Queue!Loop(w) \/ UNCHANGED Queue!vars
  BY <1>4 DEF Process, CallHandler, Insert, InsertRefused, Commit, StatementFails,
     CommitAnswerLost, Throw, Queue!Loop
<1>5. ASSUME NEW w \in Worker, Loop(w) PROVE Queue!Loop(w)
  BY <1>5 DEF Loop, Queue!Loop
<1>6. ASSUME NEW w \in Worker, Start(w) \/ Disturb(w) \/ Exit(w) \/ Crash(w)
      PROVE  Queue!Start(w) \/ Queue!Exit(w) \/ Queue!Disturb(w)
  BY <1>6 DEF Start, Disturb, Exit, Crash, Queue!Disturb
<1>7. UNCHANGED vars => UNCHANGED Queue!vars
  BY DEF vars
<1>8. QED
  BY <1>1, <1>2, <1>3, <1>4, <1>5, <1>6, <1>7 DEF Next, ApiStep, Queue!Next

\* Every step keeps the invariant of module JobQueue.
LEMMA QueueInvStep == Queue!Inv /\ [Next]_vars => Queue!Inv'
BY QueueStep, Queue!InvStep, BoundAssumption

\* The audit keeps every promise of module JobQueue.
THEOREM AuditImplementsQueue == Spec => ImplementsQueue
<1>1. Init => Queue!Init
  BY DEF Init
<1>2. QED
  BY <1>1, QueueStep, PTL DEF Spec, ImplementsQueue, Queue!Spec

\* What a worker has at hand while its handler runs.
LEMMA AtWork ==
  ASSUME Queue!Inv, NEW w \in Worker, pc[w] = "working"
  PROVE  /\ current[w] \in Queue!Delivery /\ current[w].job \in Job
         /\ tries[current[w]] = 1
         /\ \A v \in Worker \ {w} : pc[v] = "working" => current[v] # current[w]
BY DEF Queue!Inv, Queue!TypeOK, Queue!Delivery, Queue!RunIsAlone

-----------------------------------------------------------------------------
(* The inductive invariant.                                                *)

\* No request, no record and no row at first.
LEMMA InvInit == Init => Inv
<1> SUFFICES ASSUME Init PROVE Inv
  OBVIOUS
<1>1. Queue!Inv
  BY Queue!InvInit, BoundAssumption DEF Init
<1>2. asked \in [Request -> HttpRequest] /\ NoJob \in AuditJob
  BY HttpAssumption DEF Init, NoJob, AuditJob, TenantHeader
<1>3. TypeOK
  BY <1>1, <1>2 DEF Init, Queue!Init, Queue!Inv, NoJob, TypeOK
<1>4. RecordsAgree /\ SentOnce /\ HandledIsStored /\ RowsFollowRuns
  BY DEF Init, Queue!Init, RecordsAgree, SentOnce, HandledIsStored, RowsFollowRuns
<1>5. QED
  BY <1>1, <1>3, <1>4 DEF Inv

\* What is built from a request is an AuditJob.
LEMMA JobIsTyped ==
  ASSUME NEW req \in HttpRequest, NEW statusCode \in Nat, NEW outcome \in {"success", "error"}
  PROVE  BuildAuditJob(req, statusCode, outcome) \in AuditJob
BY DEF HttpRequest, BuildAuditJob, AuditJob

\* Each exception has a status.
LEMMA ResolveIsStatus == \A exception : Resolve(exception) \in Nat
BY DEF Resolve

\* A request that is answered without a failure has no job in the queue yet.
LEMMA AnswerKeepsRecords ==
  ASSUME Inv, NEW r \in Request, phase[r] \in {"new", "handler"}, failures' \in Nat,
         phase' = [phase EXCEPT ![r] = "answered"],
         record' = [record EXCEPT ![r] = "sending"], sent' = sent,
         failures' = 0 => failures = 0
  PROVE  RecordsAgree' /\ SentOnce'
<1> USE DEF Inv, TypeOK
<1>1. RecordsAgree'
  BY DEF RecordsAgree, JobsOf
<1>2. SentOnce'
  BY DEF SentOnce, RecordsAgree
<1>3. QED
  BY <1>1, <1>2

\* A record whose call has returned or thrown.
LEMMA SendKeepsRecords ==
  ASSUME Inv, NEW r \in Request, record[r] = "sending", UNCHANGED phase,
         \/ RecordSent(r) \/ RecordAgain(r) \/ RecordLogged(r) \/ RecordBoth(r)
  PROVE  RecordsAgree' /\ SentOnce'
<1> USE DEF Inv, TypeOK
<1>1. CASE RecordSent(r)
  <2>1. PICK j \in Job : RequestOf[j] = r /\ sent' = sent \cup {j}
    BY <1>1, EnqueueSends DEF RecordSent, JobsOf, Queue!Send
  <2>2. record' = [record EXCEPT ![r] = "sent"] /\ UNCHANGED failures
    BY <1>1 DEF RecordSent, Recorded
  <2>3. RecordsAgree'
    BY <2>1, <2>2 DEF RecordsAgree, JobsOf
  <2>4. \A i \in sent : failures = 0 => RequestOf[i] # r /\ RequestOf[i] \in Request
    BY RequestOfAssumption DEF SentOnce, Queue!TypeOK
  <2>5. SentOnce'
    BY <2>1, <2>2, <2>4 DEF SentOnce
  <2>6. QED
    BY <2>3, <2>5
<1>2. CASE RecordAgain(r) \/ RecordLogged(r) \/ RecordBoth(r)
  <2>1. failures' # 0
    BY <1>2 DEF RecordAgain, RecordLogged, RecordBoth, Failure
  <2>2. /\ record' = record \/ record' = [record EXCEPT ![r] = "logged"]
        /\ sent \subseteq sent'
    BY <1>2, EnqueueSends DEF RecordAgain, RecordLogged, RecordBoth, Recorded, Queue!Send, api,
       queueVars
  <2>3. QED
    BY <2>1, <2>2 DEF RecordsAgree, SentOnce, JobsOf
<1>3. QED
  BY <1>1, <1>2

\* The API's steps touch no row and no run.
LEMMA ApiStepKeepsInv ==
  ASSUME Inv, Queue!Inv', NEW r \in Request, ApiStep(r)
  PROVE  Inv'
<1> USE DEF Inv
<1>1. UNCHANGED <<tries, handled, pc, current, asked, statement, logs>> /\ failures' \in Nat
  <2>1. CASE RecordSent(r) \/ RecordAgain(r) \/ RecordLogged(r) \/ RecordBoth(r)
    BY <2>1, EnqueueSends DEF RecordSent, RecordAgain, RecordLogged, RecordBoth, Recorded,
       Queue!Send, Failure, api, queueVars, TypeOK
  <2>2. QED
    BY <2>1 DEF ApiStep, Serve, GuardsPass, GuardRejects, Throttle, HandlerRejects, HandlerReturns,
       CallFails, Catch, Audit, Failure, queueVars, TypeOK
<1>2. TypeOK' /\ RecordsAgree' /\ SentOnce'
  <2>1. CASE GuardsPass(r)
    BY <1>1, <2>1 DEF GuardsPass, queueVars, TypeOK, Queue!Inv, RecordsAgree, SentOnce
  <2>2. CASE \/ GuardRejects(r) \/ Throttle(r) \/ HandlerRejects(r) \/ HandlerReturns(r)
             \/ CallFails(r)
    <3>1. PICK statusCode \in Nat, outcome \in {"success", "error"} :
            Audit(r, statusCode, outcome)
      BY <2>2, ResolveIsStatus DEF GuardRejects, Throttle, HandlerRejects, HandlerReturns,
         CallFails, Catch
    <3> DEFINE built == BuildAuditJob(asked[r], statusCode, outcome)
    <3>2. built \in AuditJob /\ built.outcome = outcome
      BY JobIsTyped DEF TypeOK, BuildAuditJob
    <3>3. /\ job' = [job EXCEPT ![r] = built] /\ phase' = [phase EXCEPT ![r] = "answered"]
          /\ record' = [record EXCEPT ![r] = "sending"] /\ sent' = sent
      BY <3>1 DEF Audit, queueVars
    <3>4. phase[r] \in {"new", "handler"} /\ (failures' = 0 => failures = 0)
      BY <2>2 DEF GuardRejects, Throttle, HandlerRejects, HandlerReturns, CallFails, Failure, TypeOK
    <3> HIDE DEF built
    <3>5. TypeOK'
      BY <1>1, <3>2, <3>3 DEF TypeOK, Queue!Inv
    <3>6. QED
      BY <1>1, <3>3, <3>4, <3>5, AnswerKeepsRecords
  <2>3. CASE RecordSent(r) \/ RecordAgain(r) \/ RecordLogged(r) \/ RecordBoth(r)
    <3>1. /\ record[r] = "sending" /\ UNCHANGED <<phase, job>>
          /\ record' \in [Request -> {"none", "sending", "sent", "logged", "lost"}]
      BY <2>3 DEF RecordSent, RecordAgain, RecordLogged, RecordBoth, Recorded, api, TypeOK
    <3>2. TypeOK'
      BY <1>1, <3>1 DEF TypeOK, Queue!Inv
    <3>3. QED
      BY <2>3, <3>1, <3>2, SendKeepsRecords
  <2>4. QED
    BY <2>1, <2>2, <2>3 DEF ApiStep, Serve
<1>3. HandledIsStored' /\ RowsFollowRuns'
  BY <1>1 DEF HandledIsStored, RowsFollowRuns
<1>4. QED
  BY <1>2, <1>3

\* An API that stops loses records, and no row.
LEMMA ApiStopsKeepsInv == ASSUME Inv, Queue!Inv', ApiStops PROVE Inv'
<1> USE DEF Inv
<1>1. TypeOK' /\ RecordsAgree' /\ SentOnce'
  BY DEF ApiStops, Failure, queueVars, TypeOK, Queue!Inv, RecordsAgree, SentOnce, JobsOf
<1>2. HandledIsStored' /\ RowsFollowRuns'
  BY DEF ApiStops, queueVars, HandledIsStored, RowsFollowRuns
<1>3. QED
  BY <1>1, <1>2

\* A step of the worker w that leaves the API alone and writes no row.
LEMMA WorkerStepKeepsInv ==
  ASSUME Inv, Queue!Inv', UNCHANGED <<api, logs, sent, handled>>,
         failures' \in Nat, failures' = 0 => failures = 0,
         \A d \in Queue!Delivery : tries[d] <= tries'[d],
         statement' \in [Worker -> {"none", "insert", "commit"}],
         \A v \in Worker : /\ statement'[v] # "none" <=> pc'[v] = "working"
                           /\ pc'[v] = "working" => logs[current'[v]] = 0
  PROVE  Inv'
<1> USE DEF Inv
<1>1. TypeOK' /\ RecordsAgree' /\ SentOnce'
  BY DEF api, TypeOK, Queue!Inv, RecordsAgree, SentOnce
<1>2. HandledIsStored' /\ RowsFollowRuns'
  BY DEF HandledIsStored, RowsFollowRuns, TypeOK, Queue!Inv, Queue!TypeOK
<1>3. QED
  BY <1>1, <1>2

\* A run starts with a receive that no run has tried.
LEMMA CallHandlerKeepsInv ==
  ASSUME Inv, Queue!Inv', NEW w \in Worker, CallHandler(w)
  PROVE  Inv'
<1> USE DEF Inv
<1>1. PICK d \in batch[w] : /\ current' = [current EXCEPT ![w] = d]
                            /\ tries' = [tries EXCEPT ![d] = @ + 1]
  BY DEF CallHandler, Queue!Handle
<1>2. /\ pc' = [pc EXCEPT ![w] = "working"] /\ statement' = [statement EXCEPT ![w] = "insert"]
      /\ UNCHANGED <<api, logs, failures, sent, handled>>
  BY DEF CallHandler, Do, Queue!Handle, Queue!Goto, Queue!queue
<1>3. d \in Queue!Delivery /\ tries[d] = 0 /\ logs[d] = 0
  BY DEF Queue!Inv, Queue!TypeOK, Queue!BatchesFresh, RowsFollowRuns, TypeOK
<1>4. \A e \in Queue!Delivery : tries[e] <= tries'[e]
  BY <1>1, <1>3 DEF Queue!Inv, Queue!TypeOK
<1>5. /\ pc'[w] = "working" /\ current'[w] = d /\ statement'[w] = "insert"
      /\ \A v \in Worker \ {w} : /\ pc'[v] = pc[v] /\ current'[v] = current[v]
                                /\ statement'[v] = statement[v]
  BY <1>1, <1>2 DEF TypeOK, Queue!TypeOK
<1>6. \A v \in Worker : /\ statement'[v] # "none" <=> pc'[v] = "working"
                        /\ pc'[v] = "working" => logs[current'[v]] = 0
  BY <1>3, <1>5 DEF TypeOK, RowsFollowRuns
<1>7. QED
  BY <1>2, <1>4, <1>6, WorkerStepKeepsInv DEF TypeOK

\* The end of a run that has committed nothing in this step.
LEMMA RunEndKeepsInv ==
  ASSUME Inv, Queue!Inv', NEW w \in Worker, Do(w, "none"), pc'[w] # "working",
         \A v \in Worker \ {w} : pc'[v] = pc[v] /\ current'[v] = current[v],
         UNCHANGED <<api, logs, sent, tries, handled>>,
         failures' \in Nat, failures' = 0 => failures = 0
  PROVE  Inv'
<1> USE DEF Inv
<1>1. /\ statement' \in [Worker -> {"none", "insert", "commit"}]
      /\ statement'[w] = "none" /\ \A v \in Worker \ {w} : statement'[v] = statement[v]
  BY DEF Do, TypeOK
<1>2. \A v \in Worker : /\ statement'[v] # "none" <=> pc'[v] = "working"
                        /\ pc'[v] = "working" => logs[current'[v]] = 0
  BY <1>1 DEF TypeOK, RowsFollowRuns
<1>3. \A d \in Queue!Delivery : tries[d] <= tries'[d]
  BY DEF Queue!Inv, Queue!TypeOK
<1>4. QED
  BY <1>1, <1>2, <1>3, WorkerStepKeepsInv

\* A run that throws leaves its job to SQS and its worker to the rest of the batch.
LEMMA ThrowEndsRun ==
  ASSUME Inv, NEW w \in Worker, Throw(w)
  PROVE  /\ Do(w, "none") /\ pc[w] = "working" /\ pc'[w] # "working"
         /\ \A v \in Worker \ {w} : pc'[v] = pc[v] /\ current'[v] = current[v]
         /\ UNCHANGED <<sent, tries, handled>>
BY DEF Inv, TypeOK, Queue!TypeOK, Throw, Queue!HandlerFails, Queue!NextDelivery, Queue!Goto,
   Queue!queue

\* A run that fails, or whose worker stops, has committed nothing.
LEMMA FailedRunKeepsInv ==
  ASSUME Inv, Queue!Inv', NEW w \in Worker,
         InsertRefused(w) \/ StatementFails(w) \/ Exit(w) \/ Crash(w)
  PROVE  Inv'
<1>1. UNCHANGED <<api, logs>> /\ failures' \in Nat /\ (failures' = 0 => failures = 0)
  BY DEF InsertRefused, StatementFails, Failure, Exit, Crash, Elsewhere, Inv, TypeOK
<1>2. CASE InsertRefused(w) \/ StatementFails(w)
  <2>1. Throw(w)
    BY <1>2 DEF InsertRefused, StatementFails
  <2>2. QED
    BY <1>1, <2>1, ThrowEndsRun, RunEndKeepsInv
<1>3. CASE Exit(w) \/ Crash(w)
  <2>1. Do(w, "none") /\ Queue!Vanish(w)
    BY <1>3 DEF Exit, Crash, Queue!Exit, Queue!Crash
  <2>2. /\ pc'[w] # "working" /\ UNCHANGED <<sent, tries, handled>>
        /\ \A v \in Worker \ {w} : pc'[v] = pc[v] /\ current'[v] = current[v]
    BY <2>1 DEF Queue!Vanish, Queue!Goto, Queue!queue, Inv, TypeOK, Queue!TypeOK
  <2>3. QED
    BY <1>1, <2>1, <2>2, RunEndKeepsInv
<1>4. QED
  BY <1>2, <1>3

\* INSERT leaves its row to the COMMIT.
LEMMA InsertKeepsInv ==
  ASSUME Inv, Queue!Inv', NEW w \in Worker, Insert(w)
  PROVE  Inv'
<1> USE DEF Inv
<1>1. /\ At(w, "insert") /\ statement' = [statement EXCEPT ![w] = "commit"]
      /\ UNCHANGED <<queueVars, api, logs, failures>>
  BY DEF Insert, Do
<1>2. \A v \in Worker : /\ statement'[v] # "none" <=> pc'[v] = "working"
                        /\ pc'[v] = "working" => logs[current'[v]] = 0
  BY <1>1 DEF At, queueVars, TypeOK, RowsFollowRuns
<1>3. \A d \in Queue!Delivery : tries[d] <= tries'[d]
  BY <1>1 DEF queueVars, Queue!Inv, Queue!TypeOK
<1>4. QED
  BY <1>1, <1>2, <1>3, WorkerStepKeepsInv DEF TypeOK, queueVars

\* COMMIT writes the row of the receive at hand and ends its run, with success or,
\* when its answer is lost, without.
LEMMA CommitKeepsInv ==
  ASSUME Inv, Queue!Inv', NEW w \in Worker, Commit(w) \/ CommitAnswerLost(w)
  PROVE  Inv'
<1> DEFINE d == current[w]
<1> USE DEF Inv
<1>1. /\ pc[w] = "working" /\ logs' = [logs EXCEPT ![d] = @ + 1] /\ Do(w, "none")
      /\ UNCHANGED <<api, sent, tries>> /\ handled' \subseteq handled \cup {d.job}
      /\ pc'[w] # "working" /\ failures' \in Nat /\ (failures' = 0 => failures = 0)
      /\ \A v \in Worker \ {w} : pc'[v] = pc[v] /\ current'[v] = current[v]
  <2>1. CASE Commit(w)
    BY <2>1 DEF Commit, At, Written, Queue!HandlerSucceeds, Queue!Goto, Queue!queue, TypeOK,
       Queue!TypeOK
  <2>2. CASE CommitAnswerLost(w)
    <3>1. /\ Throw(w) /\ Written(w) /\ UNCHANGED api
          /\ failures' \in Nat /\ (failures' = 0 => failures = 0)
      BY <2>2 DEF CommitAnswerLost, Failure, TypeOK
    <3>2. QED
      BY <3>1, ThrowEndsRun DEF Written
  <2>3. QED
    BY <2>1, <2>2
<1>2. /\ d \in Queue!Delivery /\ tries[d] = 1 /\ logs[d] = 0
      /\ \A v \in Worker \ {w} : pc[v] = "working" => current[v] \in Queue!Delivery \ {d}
  BY <1>1, AtWork DEF RowsFollowRuns
<1> HIDE DEF d
<1>3. /\ logs' \in [Queue!Delivery -> Nat] /\ logs'[d] = 1
      /\ \A e \in Queue!Delivery \ {d} : logs'[e] = logs[e]
  BY <1>1, <1>2 DEF TypeOK
<1>4. /\ statement' \in [Worker -> {"none", "insert", "commit"}]
      /\ \A v \in Worker : statement'[v] # "none" <=> pc'[v] = "working"
  BY <1>1 DEF Do, TypeOK
<1>5. TypeOK' /\ RecordsAgree' /\ SentOnce'
  BY <1>1, <1>3, <1>4 DEF api, TypeOK, Queue!Inv, RecordsAgree, SentOnce
<1>6. HandledIsStored'
  <2> SUFFICES ASSUME NEW j \in handled' PROVE \E e \in Queue!Delivery : e.job = j /\ logs'[e] > 0
    BY DEF HandledIsStored
  <2>1. CASE j = d.job
    BY <1>2, <1>3, <2>1
  <2>2. CASE j \in handled
    <3>1. PICK e \in Queue!Delivery : e.job = j /\ logs[e] > 0
      BY <2>2 DEF HandledIsStored
    <3>2. logs'[e] > 0
      BY <1>3, <3>1
    <3>3. QED
      BY <3>1, <3>2
  <2>3. QED
    BY <1>1, <2>1, <2>2
<1>7. RowsFollowRuns'
  BY <1>1, <1>2, <1>3 DEF RowsFollowRuns
<1>8. QED
  BY <1>5, <1>6, <1>7

\* The queue's own steps, and those of SqsConsumer around the handler.
LEMMA AroundKeepsInv ==
  ASSUME Inv, Queue!Inv',
         \/ \E w \in Worker : Loop(w) \/ Start(w) \/ Disturb(w)
         \/ \E j \in Job : Expire(j) \/ Redrive(j)
         \/ UNCHANGED vars
  PROVE  Inv'
<1> USE DEF Inv
<1>1. UNCHANGED <<statement, api, logs, failures>>
  BY DEF Loop, Start, Disturb, Expire, Redrive, Elsewhere, vars
<1>2. UNCHANGED <<sent, tries, handled>>
  BY DEF Loop, Start, Disturb, Expire, Redrive, vars, queueVars, Queue!Poll, Queue!ReceiveNothing,
     Queue!BackoffEnds, Queue!Delete, Queue!Receive, Queue!Start, Queue!ReceiveFails,
     Queue!ReceiveAnswerLost, Queue!DeleteFails, Queue!Sigterm, Queue!Expire, Queue!Redrive,
     Queue!queue
<1>3. \A v \in Worker : /\ pc'[v] = "working" <=> pc[v] = "working"
                        /\ pc'[v] = "working" => current'[v] = current[v]
  <2>1. CASE UNCHANGED <<pc, current>>
    BY <2>1
  <2>2. ASSUME NEW w \in Worker, Queue!Delete(w) \/ Queue!DeleteFails(w) PROVE <1>3
    BY <2>2 DEF Queue!Delete, Queue!DeleteFails, Queue!NextDelivery, Queue!Goto, TypeOK, Queue!TypeOK
  <2>3. ASSUME NEW w \in Worker, NEW S \in SUBSET Job,
               \/ Queue!Poll(w) \/ Queue!ReceiveNothing(w) \/ Queue!BackoffEnds(w)
               \/ Queue!Receive(w, S) \/ Queue!Start(w) \/ Queue!ReceiveFails(w)
               \/ Queue!ReceiveAnswerLost(w, S)
        PROVE  <1>3
    BY <2>3 DEF Queue!Poll, Queue!ReceiveNothing, Queue!BackoffEnds, Queue!Receive, Queue!Start,
       Queue!ReceiveFails, Queue!ReceiveAnswerLost, Queue!Goto, TypeOK, Queue!TypeOK
  <2>4. QED
    BY <2>1, <2>2, <2>3 DEF Loop, Start, Disturb, Expire, Redrive, vars, queueVars, Queue!Sigterm,
       Queue!Expire, Queue!Redrive
<1>4. /\ \A v \in Worker : /\ statement'[v] # "none" <=> pc'[v] = "working"
                           /\ pc'[v] = "working" => logs[current'[v]] = 0
      /\ \A d \in Queue!Delivery : tries[d] <= tries'[d]
  BY <1>1, <1>2, <1>3 DEF TypeOK, RowsFollowRuns, Queue!TypeOK
<1>5. QED
  BY <1>1, <1>2, <1>4, WorkerStepKeepsInv DEF TypeOK

\* Every step of the audit keeps the invariant.
LEMMA InvStep == Inv /\ [Next]_vars => Inv'
<1> SUFFICES ASSUME Inv, [Next]_vars PROVE Inv'
  OBVIOUS
<1>1. Queue!Inv'
  BY QueueInvStep DEF Inv
<1>2. CASE \E r \in Request : ApiStep(r)
  BY <1>1, <1>2, ApiStepKeepsInv
<1>3. CASE ApiStops
  BY <1>1, <1>3, ApiStopsKeepsInv
<1>4. CASE \E w \in Worker : Process(w) \/ StatementFails(w) \/ CommitAnswerLost(w)
  BY <1>1, <1>4, CallHandlerKeepsInv, InsertKeepsInv, FailedRunKeepsInv, CommitKeepsInv DEF Process
<1>5. CASE \/ \E w \in Worker : Loop(w) \/ Start(w) \/ Disturb(w) \/ Exit(w) \/ Crash(w)
           \/ \E j \in Job : Expire(j) \/ Redrive(j)
  BY <1>1, <1>5, AroundKeepsInv, FailedRunKeepsInv
<1>6. CASE UNCHANGED vars
  BY <1>1, <1>6, AroundKeepsInv
<1>7. QED
  BY <1>2, <1>3, <1>4, <1>5, <1>6 DEF Next, ApiStep

-----------------------------------------------------------------------------
\* The inductive invariant holds in every reachable state of the audit.
THEOREM InvHolds == Spec => []Inv
BY InvInit, InvStep, PTL DEF Spec

\* Type correctness of the audit.
THEOREM TypeCorrect == Spec => []TypeOK
BY InvHolds, PTL DEF Inv

\* The trace of an answered request never disappears, unless the API stops while its
\* record is on its way: the queue drops only jobs whose row is committed.
THEOREM AnsweredIsTracedHolds == Spec => []AnsweredIsTraced
<1>1. Inv => AnsweredIsTraced
  <2> SUFFICES ASSUME Inv, NEW r \in Request, phase[r] = "answered", record[r] = "sent",
                      JobsOf(r) \cap (stored \cup dead) = {}
               PROVE  InTable(r)
    BY DEF Inv, TypeOK, RecordsAgree, AnsweredIsTraced
  <2>1. PICK j \in sent : RequestOf[j] = r /\ j \in handled
    BY DEF Inv, RecordsAgree, JobsOf, Queue!Inv, Queue!NoJobLost, Queue!Done
  <2>2. QED
    BY <2>1 DEF Inv, HandledIsStored, InTable
<1>2. QED
  BY <1>1, InvHolds, PTL

\* Without a failure a request has one audit job, and a receive of one writes one row at
\* most: nothing is audited twice but by a repeated send or a repeated receive.
THEOREM NoDoubleAuditHolds == Spec => []NoDoubleAudit
<1>1. Inv => NoDoubleAudit
  BY DEF Inv, RowsFollowRuns, SentOnce, NoDoubleAudit, Queue!Inv, Queue!TypeOK,
     Queue!OneTryPerReceive, TypeOK
<1>2. QED
  BY <1>1, InvHolds, PTL

=============================================================================
