# A verification of the WhatsApp customer-service backend in TLA+

This directory holds TLA+ specifications of the backend under `src/backend`: what
happens to a WhatsApp message from the webhook to the reply in the conversation, to
an HTTP request on its way into the audit trail, and to the processes when they
start, stop and fail. TLC checks the specifications on small instances; TLAPS
proves the safety properties for every value of the constants. Paths below are
relative to `src/backend/src` unless they begin with `src/` or `docs/` (which is
`src/backend/docs`).

Contents: [the system](#1-the-system) · [the modules](#2-the-modules) ·
[the runs](#3-the-runs) · [fairness](#4-fairness) · [the proofs](#5-the-proofs) ·
[what was found](#6-what-was-found) · [what is left out](#7-what-is-not-modelled) ·
[the plan](#8-plan)

## 1. The system

Two kinds of process run the same code base. The **API** (`main.ts`) answers the
webhook of Meta and the HTTP endpoints. The **worker** (`worker.ts`), of which there
may be several, consumes two SQS queues. They share one Postgres database and
nothing else: no memory, no cache, no lock but those of Postgres.

```
 Meta --POST /webhook--> API --COMMIT--> Postgres <-------------+
                          |                                     |
                          +--SendMessage--> SQS jobs  --------> worker --sendText--> Meta
                          |                  \-> jobs DLQ       |  \--OpenAI, /order-status
                          +--SendMessage--> SQS audit --------> worker --INSERT--> audit_logs
                                             \-> audit DLQ
```

### Components

| Component | State | Operations | What makes it correct |
|---|---|---|---|
| Webhook inbox: `webhook/`, `messaging/*.repository.ts`, `messaging/idempotency.service.ts`, `common/db/transaction.helper.ts`, `queue/queue-producer.service.ts` | tables `contacts`, `conversations`, `messages`, `processed_messages`, `tenants`; the transactions in flight; the position of each request in its payload | `POST /webhook`: check the signature and the schema, extract the messages; for each one resolve the tenant, then in one transaction ensure the contact, find or open the conversation, claim, insert, touch; then enqueue | a message is accepted once and enqueued once, after the COMMIT (one enqueue can become several jobs only by the attempts of the AWS client); 200 only for accepted messages; one open conversation per contact |
| Job queue and consumers: `queue/sqs-consumer.ts`, `worker.ts` | messages in SQS with their visibility, receive counts and DLQ; per worker the flag `running`, the batch and the message at hand | receive, handle, delete, back off, start, stop, exit | no job is lost, a receive costs one run of the handler, every job is done or dead in the end |
| Inbound processor: `processing/`, `messaging/conversation.service.ts`, `messaging/messages.repository.ts`, `meta/` | the run of a job: history read, reply, id from Meta; outbound rows of `messages`, `last_message_at` | read the history, generate, send, insert, touch | what the customer got, what the table holds and what the queue forgot agree; the job's message is in the prompt |
| Reply generator: `ai/`, `processing/inbound-processor.service.ts:46-66` | the conversation with the chat API, the round, the tool calls that are open | retrieve, ask the model, run tools, fall back | every call of a tool is answered before the next request; every question gets a text |
| Knowledge base: `knowledge-base/` | the chunks, loaded once | load, split, score, rank | the chunks are the sections of the files; the context is the best of them |
| HTTP routes and audit trail: `app.module.ts`, the controllers and guards, `audit/`, `common/interceptors`, `common/filters` | requests in guards and handlers; records on their way; the audit queue; `audit_logs` | throttle, guard, handle, answer; record a request, enqueue or log, insert | an answered request leaves a trace; it is recorded once; one row per receive |
| Queue bootstrap: `queue/queue-bootstrap.service.ts` | the queues and their redrive policies | create the DLQ, read its ARN, create the queue, set the policy | nobody consumes a queue without its DLQ |
| Boot chain: `db/migrate.ts`, `db/seed.ts`, `main.ts` | the schema, the seeded tenant, `.env` | validate, migrate, seed, listen | the API serves only a number that has a tenant; tenants do not move; a valid `.env` brings everything up |
| Conversations API: `conversations-api/` | none of its own; reads the tables | list and show, for the tenant of `X-Tenant-Id` | a tenant reads only its own rows |
| Webhook signature: `common/crypto`, `webhook/webhook-signature.guard.ts` | the app secret | compare a signature with the HMAC of the raw body | only what Meta signed reaches a table |
| Configuration: `config/` | the environment a process started with | validate, fill in defaults, choose real or simulated providers | a process starts only with a valid environment |
| Order status: `ai/order-status/` | a constant catalogue | the client, the route, the text of a status | an order question gets a reply although the status cannot be had |
| Health, logger, headers, mock Meta server | none, or constants | | see section 7 |

### How they interact, and what is hard

* **Concurrent deliveries.** Node runs one thread, but every `await` lets another
  request run, and several API processes would interleave alike. Meta delivers a
  message again until it gets 200, so the same message can be in two requests at the
  same time. Postgres (READ COMMITTED) is the only arbiter: `INSERT ... ON CONFLICT
  DO NOTHING` waits for a transaction that is inserting the same key.
* **Two systems, no common transaction.** The COMMIT and the SQS send are two steps;
  so are the send to Meta and the insert of the outbound row, and the row and the
  delete of the job. Each can fail, take effect without an answer, or be cut off by
  the end of the process.
* **Retries in the client.** `sqs.client.provider.ts` sets no `maxAttempts`, so the AWS
  client sends a request up to three times before its promise settles, and the queues are
  standard ones: one `send` of the code can store several jobs.
* **At-least-once delivery.** The visibility timeout does not wait for the handler:
  two workers can run the same job at once, and a late delete carries an old receipt.
* **Processes that stop.** `shutdown()` stops the loop's flag and exits without
  waiting for the run at hand; nothing in `docker-compose.yml` starts a process again.
* **Fire and forget.** The audit of a request is sent without being awaited.
* **Order.** Rows are ordered by `created_at`, which is the start of the transaction,
  not its COMMIT; SQS keeps no order.

`PROJECT.json` lists these hazards one by one, each at its line, with the properties
that would catch it.

## 2. The modules

| Module | Kind | Models |
|---|---|---|
| `Inbox` | abstract | what `POST /webhook` promises about a message |
| `MetaPayload` | pure | the signature, the schema of a webhook and the text messages in it |
| `ConversationsApi` | pure | what the two routes of `/conversations` return, over given tables |
| `WebhookInbox` | detailed | requests, statements, locks, faults and crashes of the webhook; takes its messages from `MetaPayload`; implements `Inbox`; read through `ConversationsApi` |
| `AtLeastOnce` | abstract | what a queue with its consumers promises about a job |
| `JobQueue` | detailed | one SQS queue with its DLQ and the consumers; implements `AtLeastOnce` |
| `ReplyService` | abstract | what the customer and the conversation may count on |
| `ReplyPipeline` | composition | `InboundProcessor.process` as the handler of a `JobQueue`, fed by the commits of the webhook, with the Meta provider `Environment` chooses; implements `ReplyService` |
| `HttpApi` | pure | the routes: which guard and handler throws what, the status, the audit job |
| `AuditTrail` | composition | requests to those routes, and their audit as the handler of another `JobQueue` |
| `Environment` | pure | `.env`: validation, defaults, provider modes, the url of the order status |
| `Rag` | pure | splitting, scoring and ranking |
| `ReplyGenerator` | detailed | `generateReply` with both LLM providers; the one step `GenerateReply` of `ReplyPipeline`, opened |
| `Boot` | detailed | the boot chain of the API, the queue bootstrap of the workers, the environments they start with |
| `*Proofs` | proofs | the theorems of the module they are named after |
| `DataLemmas` | proofs | what the proofs use of numbers, sequences and recursive functions |
| `MC*` | instances | the values TLC needs |

`ReplyPipeline` and `AuditTrail` are `JobQueue` with a handler: they `INSTANCE` it (with
its theorems) over their own variables, their actions conjoin its actions, and
`ImplementsQueue` is its specification as a property, so that all that is proved of
the queue holds in them.

Operators marked `\* Bug:` are not part of any specification: each is a variant of the
action next to it with a plausible mistake, and `PROJECT.json` names the property that
TLC refutes when the variant takes the action's place.

### MetaPayload and WebhookInbox

A webhook is a body with a signature. `Receive` takes one that `Accepts`: its signature is
the HMAC under the app secret (`verifySignature`) and its body parses (`metaWebhookSchema`).
The others are answered 403 or 500 and touch nothing, so they are no steps here; they are
requests of `AuditTrail`. `Extract` is `extractInboundMessages`: the texts of every change of
every entry, in order. `EveryPayloadAnswered` is stated over `Texts`, an independent
definition of the texts a body holds, so that a message that extraction loses is found; that the
two agree on every body is a theorem. What can be posted is a `PostedBody`: `object` and a sequence
of entries of `PostedChange`, whose required parts may be `Absent` (missing, or of another type)
and whose optional parts (`contacts`, the `text` of a message) may also be `Malformed`, which the
schema refuses as a whole.

| Code | Model |
|---|---|
| `WebhookSignatureGuard`, `metaWebhookSchema.parse` | `Accepts` |
| `extractInboundMessages` | `Extract`, in `Receive` |
| `handleInbound`, its `for` loop | `pc[r]`, `delivery[r]`, `pos[r]`; `NextMessage`, `Respond` |
| `tenants.findByPhoneNumberId`; unknown number: `continue` | `ResolveTenant` |
| `withTransaction` | `BeginTx`, `Commit`, `StatementFails` (ROLLBACK); `tx[r]` holds the rows that are not committed |
| `contacts.ensure` | `EnsureContact` |
| `conversations.findOpenOrCreate` | `FindOpen`, `CreateConversation` |
| `idempotency.claim` | `Claim` |
| `messages.insert`, `conversations.touch` | `InsertMessage`, `Touch` |
| `producer.enqueue` | `Enqueue`, `EnqueueFails`, `EnqueueAnswerLost`; the attempts of the AWS client: `attempt[r]`, `EnqueueRetried` |
| the postgres pool, `max` | `ConnectionFree` |
| the end of the process | `Crash` |

One action is one awaited call, because that is where requests interleave. The rows a
transaction has written are in `tx[r]` and are invisible to the others until `Publish`;
the same sets are its locks: a writer of the same unique key or row waits while another
transaction holds it. That is READ COMMITTED as far as these statements can tell: each
statement reads what is committed when it runs, and its own rows.

SQS stores one message or none for each attempt of a `SendMessage`, and the client makes up to
`MaxAttempts` of them while the request is still in `enqueue`. `EnqueueRetried` is an attempt
without an answer, whether its job was stored or not, after which the client goes on by itself;
`EnqueueFails` and `EnqueueAnswerLost` are the ends that make the promise reject. So
`JobsOfOneEnqueue` does not promise one job: whatever is delivered again, all jobs of a message
are attempts of one `enqueue` call of the code, so at most `MaxAttempts`.

### ConversationsApi

The two routes change nothing and are operators over the committed tables: the rows each
tenant is shown in a state of `WebhookInbox`. `messagesOf` has two SELECTs; between them no
row is deleted or moved, so taking them at one time loses nothing. `ReadByItsTenant` relates
the two ends: how the webhook files a message, and by which joins the API finds it.

### JobQueue

`stored`, `hidden`, `dead` and `receives` are SQS: a receive hides a message and counts,
`Expire` lets its visibility run out at any time, `Redrive` moves a message that has been
received `MaxReceive` times to the DLQ at the next poll. `loop`, `receive` and
`handleMessage` of `SqsConsumer` are `Poll`, `Receive`/`ReceiveNothing`/`ReceiveFails`,
`BackoffEnds`, `Handle`, `HandlerSucceeds`/`HandlerFails` and `Delete`/`DeleteFails`; one
`catch` surrounds the handler and the delete, so both failures go on to the next message.
`ReceiveAnswerLost` is a receive that SQS has counted and whose messages the loop never sees.
`deleteMessage` with an old receipt is answered OK and may or may not delete: both are
allowed. `stop()` clears `running` (`Sigterm`); the exit (`Exit`) does not wait for the
loop, so it can cut off a run at any point. Order of delivery is arbitrary.

### ReplyPipeline

`step[w]` is the awaited call of `process()` worker `w` is in: `BuildHistory`, `GenerateReply`,
`SendText`, `InsertOutbound`, `TouchConversation`. `CallFails` is a call without effect,
`AnswerLost` a call with effect whose answer is lost. `BeginInbound`, `CommitInbound` and
`Enqueue` are what the pipeline sees of the webhook: `now()` is fixed at BEGIN, the row appears at
COMMIT, the job is sent later. `Resend` is a send the AWS client repeats: it makes a job a copy
(`original`) of one that was sent, with the same message and conversation and receives of its own,
so the customer may get a reply to each copy. `Conflict` is the unique key `(tenant_id,
wa_message_id)`, which a reply recorded with the empty id meets. `delivered` counts what the
customer gets for each receive of a job. Which provider a worker has (`meta.factory.ts`) follows
from its environment: the simulated one never fails and always gives a new id, the real one may
fail, lose an answer or answer without an id.

`ReplyService` says the same without queue and workers: a reply only to a message in the
conversation, one at most per attempt of a job or of a copy of it, a row only for a reply the
customer has, a job closed only with a row. The refinement mapping reads its four variables off
the tables, the counts and the handlers that have returned.

### AuditTrail

`HttpApi` has the routes: for a request, what the throttler, the guards, the handler or the
router throw (`GuardThrows`, `HandlerThrows`), the status `AllExceptionsFilter.resolve` makes of
it, the job `buildAuditJob` makes of the request, and whether Postgres can store that job:
`tenant_id` is a `uuid` and the query goes into a `jsonb`, while the header and the query come
as the client sent them. `AuditTrail` runs requests through it: `GuardsPass`, `GuardRejects`,
`Throttle` and `HandlerRejects` go through the filter (`Catch`), `HandlerReturns` through the `tap`
of `AuditInterceptor`, and a call to Postgres or SQS may fail in a guard or a handler
(`CallFails`). What the handlers do to the tables is in `WebhookInbox` and `ConversationsApi`. When
the throttler has had enough is left open: it may refuse any request of a controller that does
not skip it. `RecordSent`, `RecordLogged` and `RecordBoth` are the outcomes of
`AuditService.record`, which nobody awaits, so `ApiStops` loses what is `sending`. The jobs of a
request are those `RequestOf` names it for: `Enqueue` sends one that is new, and `RecordAgain` is
the AWS client sending once more. The handler of
the queue is the transaction of `AuditProcessor.process`.

### Boot

`Migrate`, `Seed`/`SeedRefused`, `Listen` are `migrate.js && seed.js && main.js`, with the
two keys of `tenants` that the insert of the seed can meet; `EditEnv` changes `.env`
between starts, also to one that `Environment!Valid` refuses: each program of the chain and the
worker validate what they read at their own start, and end on an invalid one. `Environment!Valid`
has every check of `env.schema.ts` whose value decides whether a process starts; a secret is the
set of its lower-case parts, so that a placeholder anywhere in it is found as `isMeaningfulSecret`
finds it.
`CreateQueue`/`CreateFails`, `GetArn`, `SetPolicy` and `Refused` are `ensureQueue` and
`ensureQueueArn` for both pairs of queues.

### Rag and ReplyGenerator

`Rag` writes the loop of `splitMarkdownIntoChunks` as a recursive function of the lines read so
far, and `rankChunks` as filter, stable sort and cut: the n-th chunk of a stable sort is the one
that n - 1 others come before (`Before`: a higher score, or the same one at an earlier place). A
text is the set of its terms (`tokenize`), since scores depend on nothing else. `ReplyGenerator`
runs `generateReply`: `Load` or
`LoadFails` once, then per question `Retrieve` and either the rounds of
`OpenAiLlmProvider.generate` (`Complete`, `CallTools`, `RunTool`, `ToolFails`, `EndRound`)
or `SimulatedLlmProvider.generate`. The model behind the chat API is free to answer
anything; a call of a tool has an id, and its output goes in under that id. Which provider a
worker has, and whether its `ORDER_STATUS_BASE_URL` leads to the API, follow from its environment
(the default is the worker itself, which listens nowhere).
`ChunksAreSections` compares the loop with an independent definition of a section
(`Sections`, by positions of headings), `RetrievedIsBest` the sort with its specification
(`AreBest`).

## 3. The runs

`tlc -config <cfg> <module>` repeats each of them. All counters that grow without end in the
code are bounded by a constant in a guard: `MaxFaults` and `MaxFailures` (injected faults),
`MaxReceive` (a setting of SQS, not only a bound), `MaxCalls` (tool calls in one answer),
and the finite sets of requests, jobs and ids. `MaxAttempts` is a setting of the AWS client (3 by
default).

| Run | Instance | States | Asks |
|---|---|---|---|
| `webhook` | 2 requests, 2 tenants and an unknown number, two genuine batches of several entries and changes, one malformed and one forged, 2 faults, pool of 2, 2 attempts of a send | 211 thousand | is a message accepted once and enqueued once, after its COMMIT, under its own contact, with one conversation per contact, and read by its tenant only; does the webhook implement `Inbox`; is every text of a batch answered in the end |
| `webhook_redelivery` | 1 request, 1 fault | (violation) | does a redelivery repair a fault between COMMIT and enqueue |
| `queue` | 2 jobs, 2 workers, `MaxReceive` 2, batches of 2, 1 fault | 98 thousand | is no job lost, does each receive cost one run, does every job leave the queue; does it implement `AtLeastOnce` |
| `pipeline` | 2 jobs of one conversation, 2 workers, real Meta, `MaxReceive` 2, 1 failing call, symmetric | 732 thousand | do the customer, the table and the queue agree when runs overlap and calls fail; is it a queue, and a `ReplyService` |
| `pipeline_live` | 2 jobs, 1 worker, 1 fault and 1 failing call | 225 thousand | does every job get its reply unless something outside failed |
| `pipeline_question` | 2 jobs, 1 worker, simulated Meta, nothing fails | (violation) | is the current message the one the job names |
| `pipeline_noid` | 2 jobs, 1 worker, nothing fails | (violation) | does a job get one reply when nothing fails |
| `reply` | every file of up to 4 lines of 4 kinds next to a second file, 5 questions, 4 environments, 2 rounds, 2 calls | 433 thousand | are chunks and context right, is every tool call answered, does every question get a text |
| `audit` | 2 requests: one in any of 3 ways (health, list with a tenant that is no uuid, missing conversation), one the router refuses, with such a tenant and a NUL in the query; 3 jobs, so that the first can be sent twice; 1 worker, 1 fault, 1 failure | 159 thousand | does every answered request leave a trace, is it recorded once with one row per receive; is it stored unless something failed |
| `audit_all` | 1 webhook, genuine or not, with a header that is no uuid, nothing fails | (violation) | is every request in `audit_logs` in the end |
| `boot` | 2 workers, an `.env` with 2 ids and 2 numbers for the tenant in each combination and two that are not valid, 2 faults or edits | 114 thousand | is the policy there before a consumer, the tenant before the API; does everything come up |
| `boot_queues` | 1 worker, nothing fails | (violation) | are the queues there when the API serves |

Why these bounds are enough to be of use:

* **Actors.** A lost update, a double claim, overlapping runs and a late delete each need
  two actors; the locks and receipts relate an actor to one other. A third would be
  symmetric to the second.
* **Messages.** The payloads hold two messages of one contact (the race for the
  conversation), the same WhatsApp id and message id at two tenants (keys that differ in
  the tenant only), a number nobody owns, a batch in which the first message is
  committed when the second fails, entries and changes in which a text is not the first, a
  picture, a text without text, a status, and a good change next to one the schema refuses.
  Redelivery makes duplicates of all that is genuine. With two webhooks and two requests both
  can carry the same one or different ones.
* **Requests.** Those of `audit` end in each way there is: thrown by the router, a guard, the
  throttler, the handler or a failing call, or answered 200, and with a row Postgres can store
  or refuses for its tenant or its query.
* **Environments.** In `reply` one for each case of the mode decision that differs in what
  follows; in `boot` each of the four relations a new `.env` can have to a seeded tenant.
* **Faults.** Two in the webhook let a fault meet the recovery from another one. In the
  pipeline one failing call and an expiring visibility timeout, which is not a fault and
  is not bounded, already give overlapping runs, of which one fails. A failure there is also a
  repeated send, so a copy runs next to its original. With one failure in `audit`, a repeated
  send and a lost COMMIT answer do not meet in the run; the theorems cover the two together. The
  signals and crashes of a worker in the middle of a reply are in `pipeline_live`; for two workers
  the theorems have them.
* **Attempts.** Two attempts of a send already give two jobs for one message and the case in which
  the first one arrived and the second did not. A third adds a job.
* **Receives.** `MaxReceive = 2` has a first receive, another one, and the DLQ after it.
* **Files.** Four lines can hold text before the first heading, two headings in a row,
  blank lines around text and a heading at the end.

Safety does not rest on these bounds: what section 5 proves holds for all values.

`boot` says `CHECK_DEADLOCK FALSE`: when everything is up and no fault is left the system
rests. All other runs check for deadlock: the consumers poll for ever, Meta may always
deliver again, and there is always another question.

## 4. Fairness

* **Requests (`SF` of `Step(r)`).** An awaited call settles, Postgres grants a lock and
  the pool a connection to waiters in turn. Strong fairness is needed because a waiter is
  enabled and disabled again by others that take the same lock in between; both Postgres
  and postgres.js queue waiters, so a request is not passed over for ever.
* **Meta (`SF` of `Redeliver(w)`).** Meta delivers a webhook that is accepted until it gets
  200; the property needs a request slot that is free again and again.
* **Workers (`WF` of the loop, of `Start` and of `Exit`).** The event loop goes on, awaited
  calls end, `shutdown()` reaches `process.exit`. `Start` is an assumption about the
  operator: `docker-compose.yml` has no restart policy, so without it a crashed worker
  stays down and nothing is alive. The same holds for `ApiGoesOn` and `WorkerGoesOn` in
  `Boot`.
* **SQS (`WF` of `Expire`, `SF` of `Receive` and `Redrive` per job).** The visibility timeout
  runs out, and polls that go on do not pass over a visible job for ever. Strong, since a
  job is receivable only while a worker waits in a poll.
* **No fairness on faults.** They are bounded, so each behaviour has a last one; liveness
  says what happens after it. Properties that hold only without a fault say so
  (`... \/ faults > 0`).
* **The handler.** In `JobQueue` the handler returns or throws, and may throw each time:
  `Settles` does not assume that it ever succeeds. In `ReplyPipeline` the LLM may fail each
  time.

## 5. The proofs

`tlapm M.tla` checks a module of proofs. All theorems are of `Spec`, without fairness,
for every value of the constants that the named assumptions allow:

* `WebhookInbox`: `TenantAssumption` (`phone_number_id` is unique, so a number has at most
  one tenant), `ConvAssumption`, `WebhookAssumption` (the shape of a JSON body, with anything
  missing in it that can be), `BoundAssumption` (a pool has a connection);
* `JobQueue`, `ReplyPipeline`, `AuditTrail`: the counts are natural numbers,
  `MaxReceive` and `MaxBatch` not zero; a job has a conversation; what a request may be is
  an `HttpRequest`;
* `Boot`: `MaxFaults` is a natural number;
* `ReplyGenerator`: so are the rounds, the calls and `TopK`, which is not zero
  (`DEFAULT_TOP_K`); `TextAssumption`: the files are sequences of lines and a question has
  finitely many terms.

In particular the number of requests, workers, jobs, tenants, faults, files, lines, terms and
texts in a payload is arbitrary.

### DataLemmas

What a recursive definition computes is not proved by the induction theorems of the library,
which take an operator. `Induction` states induction for a set instead: what contains 0 and with
each number the next one contains all. It follows from the well-founded order of the numbers.
`Recursion` gives the function that a recursive equation describes, with its steps as a family
of functions `d[i]`, so that a `CHOOSE` of one satisfying the equation is a function at all;
`FlattenSeqRange` (of the community module's `FlattenSeq`) and `ReadOpens` rest on the two.

### WebhookInboxProofs

None of the properties is inductive. `Inv` adds what makes them so:

* `ClaimShape`, `ContactShape`: at each step of a request, what its open transaction
  holds. After a claim that inserted, the key is in the transaction and the row follows;
  a request that has found no open conversation is the one that inserted the contact.
* `FreshKeys`, `Exclusive`: keys in flight are neither committed nor in flight elsewhere:
  the effect of `ON CONFLICT` waiting for the other transaction.
* `TablesAgree`: a claim is there if and only if the message is, a contact if and only if it
  has a conversation, which is the only one. This is the argument for
  `OneOpenConversation`: who creates a conversation has inserted its contact in the same
  transaction, so nobody else can be between the two, although no key protects the
  conversation itself. It uses that the contact comes first, and that nothing deletes a
  contact or closes a conversation (no code in `src/` does).
* `SendsAgree`, `AckedAgree`, `PastIsProcessed`: no job before its claim, and what a
  request has gone past is claimed, so 200 is said only of claimed messages. `SendsAgree` also
  counts: while a request is in `enqueue` its message has fewer jobs than the attempt it is at.

From `Inv`: `OneOpenConversation`, `ClaimMatchesMessage`, `JobsOfOneEnqueue` and
`NoPhantomJob`, `AnsweredIsPersisted`, `FiledUnderItsSender`, `InsertNeverConflicts`, and
`ReadByItsTenant`: a row's conversation is one of its own tenant, and no other conversation has
that id.

`ExtractFindsTexts` is about one request: of every body that the schema lets through, however many
entries, changes and messages it has, `Extract` gives all the texts and nothing else. It is also
what makes `delivery` a sequence of messages in `TypeOK`. With `DeliveryIsPayload` (a request holds
what was extracted from a webhook the guard and the schema let through) it takes
`AnsweredIsPersisted` back to the body: `WholePayloadAnsweredHolds` says that the step that answers
200 finds every text of the posted body, if it is for a known number, committed.

`WaitsForOneAheadHolds` and `SomebodyGoesOnHolds` are why the transactions need no order of their
messages: whoever waits for a lock waits for a transaction that is further in the same
list of statements (a contact's lock is held by one that is past `ensure`, a claim's by
one past `claim`, a conversation's by one that only commits, `TouchShape`), so the one that is
furthest never waits, and the pool, which has a connection when no transaction is open, is asked
only by requests that hold none. TLC's check for deadlock says that of two requests; this says it
of any number.

`WebhookImplementsInbox` shows step by step that a COMMIT with a new claim is
`Accept`, an enqueue is `Queue`, a COMMIT whose answer is lost is `Mislay`, a crash or a
refused enqueue strands all that was about to be sent, and everything else is a stutter or
an `Answer`.

### JobQueueProofs

`Inv` adds to `NoJobLost` and `OneTryPerReceive`: a delivery in a batch is a real receive,
has not been tried and is in one batch only (`BatchesFresh`); a job about to be deleted
has been handled (`AtHand`); two runs never have the same delivery, though they may have
the same job (`RunIsAlone`). The receipt number makes the difference: each receive has its
own. `QueueImplementsAtLeastOnce` maps each step to `AtLeastOnce`.

### ReplyPipelineProofs and AuditTrailProofs

`QueueStep` shows that each step of the composition is a step of the queue or leaves its
variables alone, which gives `ImplementsQueue` and, with the lemma `InvStep` of
`JobQueueProofs`, the invariant of the queue for free. `ReplyPipelineProofs` then says what
the customer and the table have got at each point of a run (`RunSoFar`), that an untried
receive has left no trace (`UntriedIsUnseen`) and that a job is sent after its message is
committed (`SentIsPersisted`); `AuditTrailProofs` that a sent record is the queue's
(`RecordsAgree`), that a handled job has a row (`HandledIsStored`) and that rows follow
runs (`RowsFollowRuns`). What the runs of two workers do to each other is ruled out by
`RunIsAlone`. `NoDoubleAudit` needs `SentOnce` besides: a record that is still on its way has no
job yet, and without a failure a request has at most one.

`PipelineImplementsService` maps each step of the pipeline to `ReplyService`: a COMMIT of the
webhook is `Accept`, a send that takes effect `Reply`, an insert that takes effect `Record`, the
return of a handler `Close`, and the rest a stutter. `RunSoFar` gives the guards: a run that
sends has sent nothing for its receive, and one that inserts has sent.

### BootProofs

Nothing removes a queue or a policy, so what a worker has ensured stays ensured; with that
each step of `ensureAll` tells what is there (`WorkerInv`), and the chain `&&` what the API
has done (`ApiInv`). `OneRowEach` is the two unique keys of `tenants`.

### ReplyGeneratorProofs

`CallsAnswered` speaks of the moments between rounds. `Inv` says of every moment which outputs are
there already: those of an answer are in order behind it (`AnswerInv`), an output has its answer
(`OutputInv`), and the calls that are still to run are the last ones of the last answer, numbered
from the first that has no output (`Asking`). `LengthInv` bounds the messages by the rounds.

A second invariant, `ContextInv`, carries what `Rag` computes through a request: the chunks are
those of the files, what the provider has as context is `Fitting`, what fits the question, in every
round, and a reply of the simulated provider is its first chunk. With the two theorems of
`RagProofs` it gives `ChunksAreSections`, `RetrievedIsBest` and `BestSectionAnswers`; the last one
uses that `TopK` is not zero.

### RagProofs

`SplitMarkdownSections`: the chunks of a file are its sections with text. The invariant of the loop
(`Open`): after n lines there is a last heading, or the start of the file, from which on the
buffer holds the lines, and the chunks are the sections that ended before it. `ReadLineStep` keeps
it line by line, and the last `flush` closes the last section. `TrimKeepsText`: `trim` takes nothing
off a section but blank lines.

`RankChunksBest`: `Before` is a strict total order (`BeforeIsOrder`), so the number of hits before
one tells hits apart, and as it is below the number of hits it takes every value
(`RankedOrder`: an injection of a finite set into one of the same size is onto). Hence
each place of `Ranked` holds one hit, a higher place a later one, and the cut leaves out the worst.

### Only model-checked

* Liveness: `EveryPayloadAnswered`, `QueuedUnlessFault`, `Settles`,
  `RepliedUnlessFailure`, `StoredUnlessFailure`, `ComesUp`, `EveryQuestionAnswered`. The
  proof system has no rules for fairness and `ENABLED`.

Every invariant and every action property of a passing run is stated by a theorem.

The invariants `Inv`, `ContextInv`, `DeliveryIsPayload`, `TouchShape`, `SomebodyGoesOn` are in the
proof modules, which the `MC` modules extend: `INVARIANT Inv` in a cfg checks one of them on the
instance.

## 6. What was found

Five statements of the repository that the code contradicts, each a run that ends in a
counterexample:

1. **A redelivery does not repair a lost enqueue** (`webhook_redelivery`).
   `docs/DECISIONS.md:20` relies on it. When the process ends or SQS refuses between
   COMMIT and enqueue, the message is claimed; the redelivery finds the claim, sends
   nothing (`webhook/webhook.service.ts:79-82`) and is answered 200. The message never gets
   a job.
2. **The current message is not the job's** (`pipeline_question`).
   `processing/inbound-processor.service.ts:29` takes the last turn of the conversation. With
   two messages in flight both jobs answer the second one, or a job takes the assistant's own
   reply for the customer's question; `ai/llm.types.ts:13-14` says otherwise.
3. **An accepted send without an id is sent again** (`pipeline_noid`).
   `meta/meta-http.provider.ts:37` makes the id `''`, which is not NULL; the second such row
   of a tenant meets the unique key after the customer has got the reply.
4. **Some requests never reach `audit_logs`** (`audit_all`).
   `audit/audit-job.builder.ts:37` takes `X-Tenant-Id` as it comes; a header that is no uuid
   makes the row unstorable, and the job ends in the DLQ (`db/schema/audit-logs.ts:6`:
   all requests).
5. **The API does not ensure the queues** (`boot_queues`).
   `docs/ARCHITECTURE.md:40` and the comment in `queue-bootstrap.service.ts:20` say that it
   does; `main.ts` does not.

Met on the way, without a run of their own:

* A job can reach the DLQ after fewer attempts than `maxReceiveCount`: messages of a batch
  wait for the ones before them while their visibility runs out
  (`queue/sqs-consumer.ts:57`; `docs/RUNBOOK.md:104` counts attempts).
* A shutdown is not graceful for the run at hand: `worker.ts:38` exits without waiting for
  it (`worker.ts:14`, `docs/ARCHITECTURE.md:38`).
* `last_message_at` can go back, because `now()` is the start of a transaction that may
  commit later than another one (`messaging/conversations.repository.ts:41`).
* An audited request can have several rows, one per receive
  (`common/interceptors/audit.interceptor.ts:16`: exactly once).
* A `DEFAULT_TENANT_ID` that exists with another number keeps the API from starting
  (`db/seed.ts:19-26`); `ComesUp` has it as its exception.
* `MAX_TOOL_ROUNDS = 2` runs tools in up to three rounds and discards the outputs of the
  last one (`ai/openai-llm.provider.ts:30-53`).
* One file of the knowledge base that cannot be read leaves the whole base empty
  (`knowledge-base/knowledge-base.service.ts:32`).

## 7. What is not modelled

* **HMAC**: a library function. `ComputeSignature` is taken to be injective, which is what the
  guard relies on; that the comparison takes constant time is no property of states.
* **What nothing reads of a body** (names of contacts, timestamps, ids of entries): left out, with
  their types; any of them of a wrong type is one more way to be refused by the schema. Bodies
  that are no JSON or too large are refused by the body parser of Express; the filter answers and
  audits them as it does an unknown route.
* **Views and order of the rows** of the conversations API: `toConversationView` and
  `toMessageView` leave columns out and change nothing.
* **The rest of the configuration**: pool sizes, names of queues and the like are handed to
  their users as they are; the coercion of numbers is abstracted to what validates.
  The throttler counts in a third-party store in memory: `Throttle` may happen to any request it
  applies to, which covers every limit and window, and the loss of the counts at a restart.
* **Texts**: prompts, replies, log lines, the layout of an audit record. Where a text decides
  something, the model has what decides: the terms of a chunk, the protocol in a question, the id
  of an answer, the tenant and the query of a record.
* **Retention of SQS** (messages older than four days vanish) and the retries inside the
  clients of OpenAI and Postgres. Those of the AWS client are modelled where they repeat an effect
  (`SendMessage`, `ReceiveMessage`); a repeated `DeleteMessage` or `CreateQueue` changes nothing.
* **Helmet, logger, the wiring of the modules, the SQL of the migrations, Docker files**: no
  state of the program's own. The mock Meta server is a double of the environment; of it
  `DeliverInbound` is used, and the chat window and its answers to sends are left out.
* **Several API processes**: the requests of `WebhookInbox` share nothing but the database
  and the pool; a second process would have a pool of its own, and a crash would end
  only its own requests.

Abstractions a reader should know of:

* A statement is atomic; a transaction is the sequence of its statements.
* The locks of `WebhookInbox` are those of the unique keys and rows that its statements
  write. All transactions take them in the same order: the contact, then the claim, then the
  conversation (section 5 proves that they never deadlock).
* Ids are fresh: a uuid in use is never chosen again, and Meta gives no id twice.
* `JobQueue` lets a poll return any set of visible messages up to `MaxBatch`, in any order.

## 8. Plan

Done: the path of a message from the raw webhook to the reply and to what a tenant reads of it
(`MetaPayload`, `WebhookInbox`, `JobQueue`, `ReplyPipeline`, `ReplyGenerator` with `Rag`,
`ConversationsApi`), the path of a request into the audit trail (`HttpApi`, `AuditTrail`), the start
(`Environment`, `Boot`); three abstract specifications and their refinements (`Inbox`,
`AtLeastOnce`, `ReplyService`); theorems for every safety property of a run, from `WebhookInbox` to
`Rag`.

What would come next:

1. `ReplyPipeline` with the texts of `ReplyGenerator`: `GenerateReply` as the abstraction of a run
   of the generator, stated as a refinement.
2. `WebhookInbox` with `ReplyPipeline` as one specification: `NoPhantomJob` is what entitles the
   pipeline to send a job only after its message is committed, and is proved on its own side; the
   product of the two state spaces is what keeps a run from checking it end to end.
