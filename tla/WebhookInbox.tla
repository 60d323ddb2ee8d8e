---------------------------- MODULE WebhookInbox ----------------------------
(***************************************************************************)
(* POST /webhook: WebhookService.handleInbound and the repositories it     *)
(* drives.  Concurrent requests of one API process each walk through the   *)
(* messages of their payload; a message is persisted in one READ COMMITTED *)
(* Postgres transaction and its job is sent to SQS after the commit.       *)
(*                                                                         *)
(* One action is one awaited call (an SQL statement, a COMMIT, an SQS      *)
(* send), because that is where requests interleave.  The rows a           *)
(* transaction has written but not committed are in tx[r]; the same sets   *)
(* are the locks it holds: Postgres makes a second writer of a unique key  *)
(* or of a row wait until the first transaction ends.                      *)
(***************************************************************************)
EXTENDS Naturals, Sequences, FiniteSets, MetaPayload

CONSTANTS
  Request,    \* concurrent POST /webhook requests (slots, used again and again)
  Phone,      \* phone_number_id values Meta can send
  WaId,       \* customers' WhatsApp ids
  WamId,      \* Meta's message ids
  Tenant,     \* ids of the rows of table tenants
  NoTenant,   \* findByPhoneNumberId found no row
  TenantOf,   \* table tenants: phone_number_id is UNIQUE, so it is a function
  ConvId,     \* uuids available for conversations
  NoConv,     \* the request has not chosen a conversation
  Webhook,    \* what can be posted to /webhook, by Meta or by anyone
  PoolSize,   \* postgres(url, { max })
  MaxAttempts, \* of the SDK's client for one send: createSqsClient leaves the default, 3
  MaxFaults   \* bound: faults injected in one behaviour

\* A normalised inbound message; the text and the contact name are abstracted.
Inbound == [phoneNumberId : Phone, waId : WaId, messageId : WamId]

\* A posted body with its changes and messages, before the schema has seen them.
PostedMessage == [from : WaId \cup {Absent}, id : WamId \cup {Absent},
                  type : STRING \cup {Absent}, text : STRING \cup {Absent, Malformed}]
PostedChange == [field : STRING \cup {Absent}, phoneNumberId : Phone \cup {Absent},
                 contacts : STRING \cup {Absent, Malformed}, messages : Seq(PostedMessage)]
PostedBody == [object : STRING \cup {Absent}, entry : Seq(Seq(PostedChange))]

ASSUME TenantAssumption == /\ TenantOf \in [Phone -> Tenant \cup {NoTenant}]
                           /\ NoTenant \notin Tenant
ASSUME ConvAssumption == NoConv \notin ConvId
ASSUME WebhookAssumption == \A w \in Webhook : w.body \in PostedBody
ASSUME BoundAssumption == /\ PoolSize \in Nat \ {0} /\ MaxAttempts \in Nat \ {0}
                          /\ MaxFaults \in Nat

\* The keys of contacts (tenant_id, wa_id), of processed_messages and messages
\* (tenant_id, wam_id), and the rows of conversations and messages.
Contact      == [tenantId : Tenant, waId : WaId]
MessageKey   == [tenantId : Tenant, wamId : WamId]
Conversation == [id : ConvId, tenantId : Tenant, contact : Contact]
MessageRow   == [key : MessageKey, conversationId : ConvId]

VARIABLES
  contacts, conversations, processed, messages,  \* committed rows
  sends,      \* per message key, how many jobs SQS has stored for it
  acked,      \* inbound messages whose webhook has been answered 200
  pc, delivery, pos, conv,  \* per request: step, payload, index, conversation
  attempt,    \* per request: the attempt of its send that is under way
  tx,         \* per request: rows and locks of its open transaction
  faults      \* faults injected so far

db   == <<contacts, conversations, processed, messages>>
vars == <<contacts, conversations, processed, messages, sends, acked,
          pc, delivery, pos, conv, attempt, tx, faults>>

TxSteps == {"contact", "open", "create", "claim", "insert", "touch", "commit"}
Steps   == {"idle", "next", "begin", "enqueue"} \cup TxSteps
Tx      == [contacts : SUBSET Contact, conversations : SUBSET Conversation,
            processed : SUBSET MessageKey, messages : SUBSET MessageRow,
            touched : SUBSET ConvId]
EmptyTx == [contacts |-> {}, conversations |-> {}, processed |-> {},
            messages |-> {}, touched |-> {}]

TypeOK ==
  /\ contacts \subseteq Contact
  /\ conversations \subseteq Conversation
  /\ processed \subseteq MessageKey
  /\ messages \subseteq MessageRow
  /\ sends \in [MessageKey -> Nat]
  /\ acked \subseteq Inbound
  /\ pc \in [Request -> Steps]
  /\ delivery \in [Request -> Seq(Inbound)]
  /\ pos \in [Request -> Nat \ {0}]
  /\ \A r \in Request :
       /\ pos[r] <= Len(delivery[r]) + 1
       /\ pc[r] \notin {"idle", "next"} =>
            /\ pos[r] <= Len(delivery[r])
            /\ TenantOf[delivery[r][pos[r]].phoneNumberId] \in Tenant
       /\ pc[r] = "idle" => pos[r] = 1
       /\ pc[r] \in {"claim", "insert", "touch", "commit", "enqueue"} => conv[r] \in ConvId
       /\ pc[r] # "enqueue" => attempt[r] = 1
  /\ conv \in [Request -> ConvId \cup {NoConv}]
  /\ attempt \in [Request -> 1..MaxAttempts]
  /\ tx \in [Request -> Tx]
  /\ faults \in Nat

TenantFor(m) == TenantOf[m.phoneNumberId]
ContactOf(m) == [tenantId |-> TenantFor(m), waId |-> m.waId]
KeyOf(m)     == [tenantId |-> TenantFor(m), wamId |-> m.messageId]
Current(r)   == delivery[r][pos[r]]
InTx(r)      == pc[r] \in TxSteps

\* A pooled connection is free; a transaction keeps its own until it ends.
ConnectionFree == Cardinality({r \in Request : InTx(r)}) < PoolSize

Init ==
  /\ contacts = {} /\ conversations = {} /\ processed = {} /\ messages = {}
  /\ sends = [k \in MessageKey |-> 0]
  /\ acked = {}
  /\ pc = [r \in Request |-> "idle"]
  /\ delivery = [r \in Request |-> << >>]
  /\ pos = [r \in Request |-> 1]
  /\ conv = [r \in Request |-> NoConv]
  /\ attempt = [r \in Request |-> 1]
  /\ tx = [r \in Request |-> EmptyTx]
  /\ faults = 0

Goto(r, step) == pc' = [pc EXCEPT ![r] = step]

\* The request is over, for whatever reason: an open transaction is rolled back.
End(r) ==
  /\ Goto(r, "idle")
  /\ delivery' = [delivery EXCEPT ![r] = << >>]
  /\ pos' = [pos EXCEPT ![r] = 1]
  /\ conv' = [conv EXCEPT ![r] = NoConv]
  /\ attempt' = [attempt EXCEPT ![r] = 1]
  /\ tx' = [tx EXCEPT ![r] = EmptyTx]

\* The for loop of handleInbound moves to the next message.
NextMessage(r) ==
  /\ Goto(r, "next")
  /\ pos' = [pos EXCEPT ![r] = @ + 1]
  /\ conv' = [conv EXCEPT ![r] = NoConv]
  /\ attempt' = [attempt EXCEPT ![r] = 1]

-----------------------------------------------------------------------------
(* Steps of a request.                                                     *)

\* Meta delivers a webhook, or delivers it again: signature guard, parse, extract.
Receive(r, w) ==
  /\ pc[r] = "idle"
  /\ Accepts(w)
  /\ Goto(r, "next")
  /\ delivery' = [delivery EXCEPT ![r] = Extract(w.body)]
  /\ UNCHANGED <<db, sends, acked, pos, conv, attempt, tx, faults>>

\* Bug: an unknown phone number is an error (500) instead of being skipped.
ResolveTenantOrThrow(r) ==
  /\ pc[r] = "next" /\ pos[r] <= Len(delivery[r])
  /\ IF TenantFor(Current(r)) = NoTenant
     THEN End(r)
     ELSE Goto(r, "begin") /\ UNCHANGED <<delivery, pos, conv, attempt, tx>>
  /\ UNCHANGED <<db, sends, acked, faults>>

\* tenants.findByPhoneNumberId; an unknown phone number is skipped.
ResolveTenant(r) ==
  /\ pc[r] = "next" /\ pos[r] <= Len(delivery[r])
  /\ ConnectionFree
  /\ \/ /\ TenantFor(Current(r)) = NoTenant
        /\ NextMessage(r)
     \/ /\ TenantFor(Current(r)) # NoTenant
        /\ Goto(r, "begin")
        /\ UNCHANGED <<pos, conv, attempt>>
  /\ UNCHANGED <<db, sends, acked, delivery, tx, faults>>

\* withTransaction: BEGIN on a connection reserved from the pool.
BeginTx(r) ==
  /\ pc[r] = "begin"
  /\ ConnectionFree
  /\ Goto(r, "contact")
  /\ UNCHANGED <<db, sends, acked, delivery, pos, conv, attempt, tx, faults>>

\* Bug: ensure runs on the pool, not on the transaction, and commits at once.
EnsureContactOutsideTx(r) ==
  /\ pc[r] = "contact"
  /\ contacts' = contacts \cup {ContactOf(Current(r))}
  /\ Goto(r, "open")
  /\ UNCHANGED <<conversations, processed, messages, sends, acked, delivery, pos,
                 conv, attempt, tx, faults>>

\* contacts.ensure: INSERT ... ON CONFLICT DO NOTHING, which waits for another
\* transaction that is inserting the same key, then SELECT of the existing row.
EnsureContact(r) ==
  LET contact == ContactOf(Current(r)) IN
  /\ pc[r] = "contact"
  /\ \A q \in Request \ {r} : contact \notin tx[q].contacts
  /\ tx' = [tx EXCEPT ![r].contacts = {contact} \ contacts]
  /\ Goto(r, "open")
  /\ UNCHANGED <<db, sends, acked, delivery, pos, conv, attempt, faults>>

\* Bug: the SELECT forgets the tenant and matches the WhatsApp id alone.
FindOpenAnyTenant(r) ==
  LET open == {c \in conversations : c.contact.waId = Current(r).waId} IN
  /\ pc[r] = "open"
  /\ \/ \E c \in open : conv' = [conv EXCEPT ![r] = c.id] /\ Goto(r, "claim")
     \/ open = {} /\ Goto(r, "create") /\ UNCHANGED conv
  /\ UNCHANGED <<db, sends, acked, delivery, pos, attempt, tx, faults>>

\* Bug: a contact without an open conversation gets none.
FindOpenOrNothing(r) ==
  /\ pc[r] = "open"
  /\ \E id \in {c.id : c \in conversations} \cup {NoConv} : conv' = [conv EXCEPT ![r] = id]
  /\ Goto(r, "claim")
  /\ UNCHANGED <<db, sends, acked, delivery, pos, attempt, tx, faults>>

\* conversations.findOpenOrCreate, the SELECT: committed open conversations.
FindOpen(r) ==
  LET open == {c \in conversations : /\ c.tenantId = TenantFor(Current(r))
                                     /\ c.contact = ContactOf(Current(r))} IN
  /\ pc[r] = "open"
  /\ \/ \E c \in open : /\ conv' = [conv EXCEPT ![r] = c.id]
                        /\ Goto(r, "claim")
     \/ open = {} /\ Goto(r, "create") /\ UNCHANGED conv
  /\ UNCHANGED <<db, sends, acked, delivery, pos, attempt, tx, faults>>

\* conversations.findOpenOrCreate, the INSERT: no unique key protects it.
CreateConversation(r) ==
  /\ pc[r] = "create"
  /\ \E id \in ConvId :
       /\ \A c \in conversations \cup UNION {tx[q].conversations : q \in Request} :
            c.id # id
       /\ conv' = [conv EXCEPT ![r] = id]
       /\ tx' = [tx EXCEPT ![r].conversations =
                   {[id |-> id, tenantId |-> TenantFor(Current(r)),
                     contact |-> ContactOf(Current(r))]}]
  /\ Goto(r, "claim")
  /\ UNCHANGED <<db, sends, acked, delivery, pos, attempt, faults>>

\* Bug: the claim runs on the pool, not on the transaction, and commits at once.
ClaimOutsideTx(r) ==
  LET key == KeyOf(Current(r)) IN
  /\ pc[r] = "claim"
  /\ processed' = processed \cup {key}
  /\ Goto(r, IF key \in processed THEN "commit" ELSE "insert")
  /\ UNCHANGED <<contacts, conversations, messages, sends, acked, delivery, pos,
                 conv, attempt, tx, faults>>

\* Bug: the claim is a SELECT; nothing makes a concurrent duplicate wait.
ClaimBySelect(r) ==
  LET key == KeyOf(Current(r)) IN
  /\ pc[r] = "claim"
  /\ tx' = [tx EXCEPT ![r].processed = {key} \ processed]
  /\ Goto(r, IF key \in processed THEN "commit" ELSE "insert")
  /\ UNCHANGED <<db, sends, acked, delivery, pos, conv, attempt, faults>>

\* idempotency.claim: INSERT ... ON CONFLICT DO NOTHING into processed_messages,
\* true iff it inserted.  A duplicate makes the callback return null (COMMIT).
Claim(r) ==
  LET key == KeyOf(Current(r)) IN
  /\ pc[r] = "claim"
  /\ \A q \in Request \ {r} : key \notin tx[q].processed
  /\ tx' = [tx EXCEPT ![r].processed = {key} \ processed]
  /\ Goto(r, IF key \in processed THEN "commit" ELSE "insert")
  /\ UNCHANGED <<db, sends, acked, delivery, pos, conv, attempt, faults>>

\* messages.insert of the inbound row.
InsertMessage(r) ==
  /\ pc[r] = "insert"
  /\ tx' = [tx EXCEPT ![r].messages =
              {[key |-> KeyOf(Current(r)), conversationId |-> conv[r]]}]
  /\ Goto(r, "touch")
  /\ UNCHANGED <<db, sends, acked, delivery, pos, conv, attempt, faults>>

\* Bug: the job is sent inside the transaction.
TouchAndSend(r) ==
  /\ pc[r] = "touch"
  /\ sends' = [sends EXCEPT ![KeyOf(Current(r))] = @ + 1]
  /\ tx' = [tx EXCEPT ![r].touched = {conv[r]}]
  /\ Goto(r, "commit")
  /\ UNCHANGED <<db, acked, delivery, pos, conv, attempt, faults>>

\* conversations.touch: an UPDATE, which takes the row lock.
Touch(r) ==
  /\ pc[r] = "touch"
  /\ \A q \in Request \ {r} : conv[r] \notin tx[q].touched
  /\ tx' = [tx EXCEPT ![r].touched = {conv[r]}]
  /\ Goto(r, "commit")
  /\ UNCHANGED <<db, sends, acked, delivery, pos, conv, attempt, faults>>

\* The rows of r's transaction become visible to everyone.
Publish(r) ==
  /\ contacts' = contacts \cup tx[r].contacts
  /\ conversations' = conversations \cup tx[r].conversations
  /\ processed' = processed \cup tx[r].processed
  /\ messages' = messages \cup tx[r].messages

\* Bug: the job is dropped when the conversation is new.
CommitForgetsJob(r) ==
  /\ pc[r] = "commit"
  /\ Publish(r)
  /\ tx' = [tx EXCEPT ![r] = EmptyTx]
  /\ IF tx[r].messages # {} /\ tx[r].conversations = {}
     THEN Goto(r, "enqueue") /\ UNCHANGED <<pos, conv, attempt>>
     ELSE NextMessage(r)
  /\ UNCHANGED <<sends, acked, delivery, faults>>

\* Bug: the job of a duplicate is sent, too.
CommitIgnoresDuplicate(r) ==
  /\ pc[r] = "commit"
  /\ Publish(r)
  /\ tx' = [tx EXCEPT ![r] = EmptyTx]
  /\ Goto(r, "enqueue")
  /\ UNCHANGED <<sends, acked, delivery, pos, conv, attempt, faults>>

\* COMMIT succeeds: with a job the request goes on to the queue, without one
\* (duplicate) it goes on to its next message.
Commit(r) ==
  /\ pc[r] = "commit"
  /\ Publish(r)
  /\ tx' = [tx EXCEPT ![r] = EmptyTx]
  /\ \/ tx[r].messages # {} /\ Goto(r, "enqueue") /\ UNCHANGED <<pos, conv, attempt>>
     \/ tx[r].messages = {} /\ NextMessage(r)
  /\ UNCHANGED <<sends, acked, delivery, faults>>

\* producer.enqueue: SQS has stored the job and the client has its answer.
Enqueue(r) ==
  /\ pc[r] = "enqueue"
  /\ sends' = [sends EXCEPT ![KeyOf(Current(r))] = @ + 1]
  /\ NextMessage(r)
  /\ UNCHANGED <<db, acked, delivery, tx, faults>>

\* Every message is done: the controller answers 200.
Respond(r) ==
  /\ pc[r] = "next" /\ pos[r] > Len(delivery[r])
  /\ acked' = acked \cup {delivery[r][i] : i \in 1..Len(delivery[r])}
  /\ End(r)
  /\ UNCHANGED <<db, sends, faults>>

-----------------------------------------------------------------------------
(* Faults.  A request that fails answers 500 and Meta will deliver again.  *)

Fault == faults < MaxFaults /\ faults' = faults + 1

\* Bug: the loop catches the error and goes on to the next message.
StatementErrorSwallowed(r) ==
  /\ Fault
  /\ pc[r] \in {"begin"} \cup TxSteps
  /\ tx' = [tx EXCEPT ![r] = EmptyTx]
  /\ NextMessage(r)
  /\ UNCHANGED <<db, sends, acked, delivery>>

\* A statement throws (or BEGIN, or the COMMIT that Postgres refuses): ROLLBACK.
StatementFails(r) ==
  /\ Fault
  /\ pc[r] \in {"begin"} \cup TxSteps \/ (pc[r] = "next" /\ pos[r] <= Len(delivery[r]))
  /\ End(r)
  /\ UNCHANGED <<db, sends, acked>>

\* The COMMIT takes effect but its answer is lost: the promise rejects.
CommitAnswerLost(r) ==
  /\ Fault
  /\ pc[r] = "commit"
  /\ Publish(r)
  /\ End(r)
  /\ UNCHANGED <<sends, acked>>

\* An attempt to send gets no answer, whether SQS has stored the job or not, and the
\* client of the SDK sends it again by itself: the queue is a standard one, so each
\* attempt that arrives is a job of its own.
EnqueueRetried(r) ==
  /\ Fault
  /\ pc[r] = "enqueue"
  /\ attempt[r] < MaxAttempts
  /\ attempt' = [attempt EXCEPT ![r] = @ + 1]
  /\ sends' = sends \/ sends' = [sends EXCEPT ![KeyOf(Current(r))] = @ + 1]
  /\ UNCHANGED <<db, acked, pc, delivery, pos, conv, tx>>

\* SQS refuses the job with an error the client does not repeat, or the client has
\* no attempt left: the promise rejects.
EnqueueFails(r) ==
  /\ Fault
  /\ pc[r] = "enqueue"
  /\ End(r)
  /\ UNCHANGED <<db, sends, acked>>

\* SQS stores the job of an attempt that the client does not repeat (the last one, or
\* its quota of retries is used up), but the answer is lost: the promise rejects.
EnqueueAnswerLost(r) ==
  /\ Fault
  /\ pc[r] = "enqueue"
  /\ sends' = [sends EXCEPT ![KeyOf(Current(r))] = @ + 1]
  /\ End(r)
  /\ UNCHANGED <<db, acked>>

\* The API process dies with every request in it, and is started again.
Crash ==
  /\ Fault
  /\ \E r \in Request : pc[r] # "idle"
  /\ pc' = [r \in Request |-> "idle"]
  /\ delivery' = [r \in Request |-> << >>]
  /\ pos' = [r \in Request |-> 1]
  /\ conv' = [r \in Request |-> NoConv]
  /\ attempt' = [r \in Request |-> 1]
  /\ tx' = [r \in Request |-> EmptyTx]
  /\ UNCHANGED <<db, sends, acked>>

-----------------------------------------------------------------------------
Step(r) ==
  \/ ResolveTenant(r) \/ BeginTx(r) \/ EnsureContact(r) \/ FindOpen(r)
  \/ CreateConversation(r) \/ Claim(r) \/ InsertMessage(r) \/ Touch(r)
  \/ Commit(r) \/ Enqueue(r) \/ Respond(r)

Fail(r) ==
  \/ StatementFails(r) \/ CommitAnswerLost(r)
  \/ EnqueueRetried(r) \/ EnqueueFails(r) \/ EnqueueAnswerLost(r)

Next ==
  \/ \E r \in Request, w \in Webhook : Receive(r, w)
  \/ \E r \in Request : Step(r) \/ Fail(r)
  \/ Crash

Spec == Init /\ [][Next]_vars

\* Postgres and the pool serve waiters in turn, so a request that can go on
\* infinitely often does; Meta delivers a webhook again until it is answered.
Accepted == {w \in Webhook : Accepts(w)}
TextsOf == [w \in Accepted |-> Texts(w.body)]
Answered(w) == TextsOf[w] \subseteq acked
Redeliver(w) == ~Answered(w) /\ \E r \in Request : Receive(r, w)
Fairness == /\ \A r \in Request : SF_vars(Step(r))
            /\ \A w \in Accepted : SF_vars(Redeliver(w))
LiveSpec == Spec /\ Fairness

-----------------------------------------------------------------------------
(* Properties.                                                             *)

Persisted(k) == \E row \in messages : row.key = k
\* The messages the tenants can be told apart by: those of a known number.
Known(m) == TenantFor(m) # NoTenant

\* A contact never has two open conversations, although no unique key of table
\* conversations forbids it and findOpenOrCreate is a check followed by an act:
\* the insert of the contact earlier in the transaction serialises creators.
OneOpenConversation ==
  \A c, d \in conversations : c.contact = d.contact => c = d

\* A message is marked as processed exactly when its row is there: an error or a
\* crash between claim and COMMIT may not leave one without the other.
ClaimMatchesMessage == \A k \in MessageKey : k \in processed <=> Persisted(k)

\* However often Meta delivers a message, and whatever fails in between, one request
\* calls producer.enqueue for it, once: the jobs SQS has for the message are the
\* attempts of that one call, so no more than the client of the SDK makes.
JobsOfOneEnqueue == \A k \in MessageKey : sends[k] <= MaxAttempts

\* A job in the queue names a message a worker can read (commit, then enqueue).
NoPhantomJob == \A k \in MessageKey : sends[k] > 0 => Persisted(k)

\* The webhook is answered 200 only when each of its messages that has a tenant
\* is committed: Meta will not deliver them again.
AnsweredIsPersisted == \A m \in acked : Known(m) => Persisted(KeyOf(m))

\* The row and the job of a message are filed under a conversation of its own
\* sender and tenant, that is committed by the time the job is sent.
FiledUnderItsSender ==
  \A r \in Request : pc[r] = "enqueue" =>
    /\ [key |-> KeyOf(Current(r)), conversationId |-> conv[r]] \in messages
    /\ \E c \in conversations : /\ c.id = conv[r]
                                /\ c.tenantId = TenantFor(Current(r))
                                /\ c.contact = ContactOf(Current(r))

\* messages.insert never meets the unique key (tenant_id, wa_message_id): the
\* claim has kept every duplicate out, committed or in flight.
InsertNeverConflicts ==
  \A r \in Request : pc[r] = "insert" =>
    /\ ~Persisted(KeyOf(Current(r)))
    /\ \A q \in Request \ {r} : \A row \in tx[q].messages : row.key # KeyOf(Current(r))

\* Every text of every webhook of Meta's is answered 200 in the end, whichever entry
\* and change of the batch holds it and whatever else does (status changes, media,
\* duplicates, an unknown phone number), when failures stop and Meta keeps delivering.
EveryPayloadAnswered == <>(\A w \in Accepted : Answered(w))

\* Without a failure every message that is marked as processed gets its job.
AcceptedKeys == {KeyOf(m) : m \in {n \in UNION {TextsOf[w] : w \in Accepted} : Known(n)}}
QueuedUnlessFault ==
  \A k \in AcceptedKeys : k \in processed ~> (sends[k] > 0 \/ faults > 0)

\* docs/DECISIONS.md:20-22: a crash between COMMIT and enqueue is mitigated by the
\* redelivery, that is, a message answered 200 has its job in the end.
RedeliveryMitigates ==
  \A m \in {n \in Inbound : Known(n)} : m \in acked ~> sends[KeyOf(m)] > 0

Api == INSTANCE ConversationsApi

\* Every committed message is read through GET /conversations by its own tenant and
\* by no other: the webhook never files it where the list of its tenant does not
\* lead, and whatever id another tenant asks for, the API does not show it.
ReadByItsTenant ==
  \A row \in messages, t \in Tenant :
    /\ row.key.tenantId = t => \E c \in Api!List(t) : row \in Api!MessagesOf(t, c.id)
    /\ row.key.tenantId # t => \A id \in ConvId : row \notin Api!MessagesOf(t, id)

-----------------------------------------------------------------------------
(* The webhook implements Inbox.                                           *)

\* A request has committed the message and is about to send its job.
AboutToSend(k) == \E r \in Request : pc[r] = "enqueue" /\ KeyOf(Current(r)) = k

stageOf == [k \in MessageKey |->
              IF k \notin processed THEN "unseen"
              ELSE IF sends[k] > 0   THEN "queued"
              ELSE IF AboutToSend(k) THEN "accepted"
              ELSE                        "stranded"]
answeredKeys == {KeyOf(m) : m \in {n \in acked : Known(n)}}

Abs == INSTANCE Inbox WITH Key <- MessageKey, stage <- stageOf, answered <- answeredKeys

\* The webhook keeps the promise of module Inbox.
ImplementsInbox == Abs!Spec

=============================================================================
