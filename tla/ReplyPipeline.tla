---------------------------- MODULE ReplyPipeline ----------------------------
(***************************************************************************)
(* From a committed inbound message to the reply in the conversation: the  *)
(* jobs of WebhookInbox travel through JobQueue, and the handler of the    *)
(* worker is InboundProcessor.process, here with all of its awaited calls. *)
(* The jobs are those of one tenant: tenants share no row and no unique    *)
(* key.                                                                    *)
(*                                                                         *)
(* Rows are ordered by created_at, which defaults to now(): in Postgres    *)
(* that is the start of the transaction, not its commit.                   *)
(***************************************************************************)
EXTENDS Naturals, FiniteSets, Environment

CONSTANTS
  Job, Worker, MaxReceive, MaxBatch, MaxFaults,  \* see module JobQueue
  Conversation,                                  \* ids of conversations
  ConversationOf,                                \* job.conversationId
  Env,                                           \* the environment of the workers
  MaxFailures                                    \* bound: calls that fail or are repeated

ASSUME BoundAssumption == /\ MaxReceive \in Nat \ {0} /\ MaxBatch \in Nat \ {0}
                          /\ MaxFaults \in Nat /\ MaxFailures \in Nat
ASSUME ConversationAssumption == ConversationOf \in [Job -> Conversation]

VARIABLES
  sent, stored, hidden, dead, receives, tries, handled, running, pc, batch, current, faults,
  clock,          \* Postgres' clock
  begun,          \* per job: now() of the transaction of its inbound message, or 0
  original,       \* per job: itself, or the job of which a repeated send made it a copy
  rows,           \* table messages, committed
  lastMessageAt,  \* column of table conversations
  step,           \* per worker: the awaited call process() is in
  turns,          \* per worker: the history it has read
  sentId,         \* per worker: the id Meta has answered with
  delivered,      \* per receive of a job: the replies the customer has got
  failures

\* With its theorems, which hold of the pipeline too.
Queue == INSTANCE JobQueueProofs

queueVars == <<sent, stored, hidden, dead, receives, tries, handled,
               running, pc, batch, current, faults>>
tables    == <<clock, begun, original, rows, lastMessageAt>>
run       == <<step, turns, sentId>>
vars      == <<queueVars, tables, run, delivered, failures>>

Calls == {"none", "history", "generate", "send", "insert", "touch"}
Ids   == {"none", "id", "empty"}

\* A row of table messages.  An outbound row belongs to the receive (1, 2, ...) of the
\* job whose run wrote it, an inbound row to none (0).
Message == [job : Job, receive : 0..MaxReceive, createdAt : Nat, waMessageId : Ids]
Inbound(row) == row.receive = 0

\* job.messageId and job.conversationId.  A copy has the body of its original.
InboundOf(j) == {row \in rows : row.job = original[j] /\ Inbound(row)}
ThreadOf(j)  == ConversationOf[original[j]]
Copying == {f \in [Job -> Job] : \A j \in Job : f[f[j]] = f[j]}
IsCopy(j) == original[j] # j

TypeOK ==
  /\ Queue!TypeOK
  /\ clock \in Nat
  /\ begun \in [Job -> Nat]
  /\ original \in Copying
  /\ rows \subseteq Message
  /\ lastMessageAt \in [Conversation -> Nat]
  /\ step \in [Worker -> Calls]
  /\ turns \in [Worker -> SUBSET Message]
  /\ sentId \in [Worker -> Ids]
  /\ delivered \in [Queue!Delivery -> Nat]
  /\ failures \in Nat
  /\ \A w \in Worker : step[w] # "none" <=> pc[w] = "working"

Init ==
  /\ Queue!Init
  /\ clock = 1
  /\ begun = [j \in Job |-> 0]
  /\ original \in Copying
  /\ rows = {}
  /\ lastMessageAt = [c \in Conversation |-> 0]
  /\ step = [w \in Worker |-> "none"]
  /\ turns = [w \in Worker |-> {}]
  /\ sentId = [w \in Worker |-> "none"]
  /\ delivered = [d \in Queue!Delivery |-> 0]
  /\ failures = 0

Call(w, call) == step' = [step EXCEPT ![w] = call]
Working(w, call) == pc[w] = "working" /\ step[w] = call
EndRun(w) ==
  /\ Call(w, "none")
  /\ turns' = [turns EXCEPT ![w] = {}]
  /\ sentId' = [sentId EXCEPT ![w] = "none"]

-----------------------------------------------------------------------------
(* The webhook, as far as the pipeline sees it.                            *)

\* The transaction of persistAndEnqueue begins, which fixes its now().
BeginInbound(j) ==
  /\ begun[j] = 0 /\ ~IsCopy(j)
  /\ begun' = [begun EXCEPT ![j] = clock]
  /\ clock' = clock + 1
  /\ UNCHANGED <<queueVars, original, rows, lastMessageAt, run, delivered, failures>>

\* It commits the inbound row and the touch of the conversation.
CommitInbound(j) ==
  /\ begun[j] # 0 /\ ~IsCopy(j) /\ InboundOf(j) = {}
  /\ rows' = rows \cup {[job |-> j, receive |-> 0, createdAt |-> begun[j], waMessageId |-> "id"]}
  /\ lastMessageAt' = [lastMessageAt EXCEPT ![ThreadOf(j)] = begun[j]]
  /\ UNCHANGED <<queueVars, clock, begun, original, run, delivered, failures>>

\* Bug: the job is sent inside the transaction.
EnqueueBeforeCommit(j) ==
  /\ begun[j] # 0 /\ ~IsCopy(j)
  /\ Queue!Send(j)
  /\ UNCHANGED <<tables, run, delivered, failures>>

\* producer.enqueue, after the commit.
Enqueue(j) ==
  /\ ~IsCopy(j) /\ InboundOf(j) # {}
  /\ Queue!Send(j)
  /\ UNCHANGED <<tables, run, delivered, failures>>

Failure == failures < MaxFailures /\ failures' = failures + 1

\* The answer to a SendMessage is lost and the client of the SDK, which has its default
\* of attempts, makes the call again: the queue gets a second message with that body.
Resend(j) ==
  /\ Failure
  /\ IsCopy(j) /\ original[j] \in sent
  /\ Queue!Send(j)
  /\ UNCHANGED <<tables, run, delivered>>

-----------------------------------------------------------------------------
(* InboundProcessor.process, called by SqsConsumer.handleMessage.          *)

CallHandler(w) ==
  /\ Queue!Handle(w)
  /\ Call(w, "history")
  /\ UNCHANGED <<tables, turns, sentId, delivered, failures>>

\* conversation.buildHistory: every committed message of the conversation.
BuildHistory(w) ==
  /\ Working(w, "history")
  /\ turns' = [turns EXCEPT ![w] =
                 {row \in rows : ThreadOf(row.job) = ThreadOf(current[w].job)}]
  /\ Call(w, "generate")
  /\ UNCHANGED <<queueVars, tables, sentId, delivered, failures>>

\* userMessage of process(): the last turn, whatever job is being processed.
UserMessage(w) == {row \in turns[w] : \A o \in turns[w] : o.createdAt <= row.createdAt}

\* Bug: generateReply does not catch what the LLM throws.
GenerateReplyOrThrow(w) ==
  /\ Working(w, "generate")
  /\ \/ /\ Call(w, "send")
        /\ turns' = [turns EXCEPT ![w] = {}]
        /\ UNCHANGED <<queueVars, sentId>>
     \/ Queue!HandlerFails(w) /\ EndRun(w)
  /\ UNCHANGED <<tables, delivered, failures>>

\* generateReply: the text of the LLM, or FALLBACK_REPLY when it throws.
GenerateReply(w) ==
  /\ Working(w, "generate")
  /\ Call(w, "send")
  /\ turns' = [turns EXCEPT ![w] = {}]
  /\ UNCHANGED <<queueVars, tables, sentId, delivered, failures>>

\* meta.factory: MetaHttpProvider, or SimulatedMetaProvider, which calls nobody and
\* always has a fresh id to return.
RealMeta == MetaMode(Env) = "real"
SendIds  == IF RealMeta THEN {"id", "empty"} ELSE {"id"}
\* The calls that can fail, and those that can take effect and lose their answer.
Fallible == {"history", "insert", "touch"} \cup (IF RealMeta THEN {"send"} ELSE {})

Deliver(w) == delivered' = [delivered EXCEPT ![current[w]] = @ + 1]

\* Bug: a send is repeated at once when the answer carries no id.
SendTextAgain(w) ==
  /\ Working(w, "send")
  /\ Deliver(w)
  /\ \E id \in {"id", "empty"} :
       /\ sentId' = [sentId EXCEPT ![w] = id]
       /\ IF id = "id" THEN Call(w, "insert") ELSE delivered[current[w]] < 2 /\ UNCHANGED step
  /\ UNCHANGED <<queueVars, tables, turns, failures>>

\* Bug: process() deletes the job itself once the reply is sent.
SendTextAndDelete(w) ==
  /\ Working(w, "send")
  /\ Deliver(w)
  /\ sentId' = [sentId EXCEPT ![w] = "id"]
  /\ Call(w, "insert")
  /\ stored' = stored \ {current[w].job} /\ hidden' = hidden \ {current[w].job}
  /\ UNCHANGED <<sent, dead, receives, tries, handled, running, pc, batch, current, faults,
                 tables, turns, failures>>

\* meta.sendText returns (2xx); messageId is '' when the answer carries no id.
SendText(w) ==
  /\ Working(w, "send")
  /\ Deliver(w)
  /\ \E id \in SendIds : sentId' = [sentId EXCEPT ![w] = id]
  /\ Call(w, "insert")
  /\ UNCHANGED <<queueVars, tables, turns, failures>>

\* UNIQUE (tenant_id, wa_message_id): Meta's ids are fresh, the empty one is not.
Conflict(w) == sentId[w] = "empty" /\ \E row \in rows : row.waMessageId = "empty"

OutboundRow(w) == [job |-> current[w].job, receive |-> current[w].receipt,
                   createdAt |-> clock, waMessageId |-> sentId[w]]

\* recordOutbound, messages.insert: a statement of its own, committed at once.
InsertOutbound(w) ==
  /\ Working(w, "insert")
  /\ ~Conflict(w)
  /\ rows' = rows \cup {OutboundRow(w)}
  /\ clock' = clock + 1
  /\ Call(w, "touch")
  /\ sentId' = [sentId EXCEPT ![w] = "none"]
  /\ UNCHANGED <<queueVars, begun, original, lastMessageAt, turns, delivered, failures>>

Touch(w) ==
  /\ Working(w, "touch")
  /\ lastMessageAt' = [lastMessageAt EXCEPT ![ThreadOf(current[w].job)] = clock]
  /\ UNCHANGED <<clock, begun, original, rows, delivered>>

\* recordOutbound, conversations.touch; the handler returns.
TouchConversation(w) ==
  /\ Touch(w)
  /\ Queue!HandlerSucceeds(w) /\ EndRun(w)
  /\ UNCHANGED failures

\* Bug: a failed run leaves its state behind for the next one.
ThrowKeepsRun(w) == Queue!HandlerFails(w) /\ UNCHANGED run

\* The handler throws; handleMessage logs it and the job stays in the queue.
Throw(w) == Queue!HandlerFails(w) /\ EndRun(w)

\* Bug: the conflict is taken for a reply that is already recorded.
ConflictIgnored(w) ==
  /\ Working(w, "insert")
  /\ Conflict(w)
  /\ Queue!HandlerSucceeds(w) /\ EndRun(w)
  /\ UNCHANGED <<tables, delivered, failures>>

\* The insert meets the unique key.
InsertConflicts(w) ==
  /\ Working(w, "insert")
  /\ Conflict(w)
  /\ Throw(w)
  /\ UNCHANGED <<tables, delivered, failures>>

\* Bug: an error of the send is logged and the run goes on.
SendErrorSwallowed(w) ==
  /\ Failure
  /\ Working(w, "send")
  /\ sentId' = [sentId EXCEPT ![w] = "id"]
  /\ Call(w, "insert")
  /\ UNCHANGED <<queueVars, tables, turns, delivered>>

\* Postgres or Meta refuses a call: the history, the send, the insert or the touch.
CallFails(w) ==
  /\ Failure
  /\ \E call \in Fallible : Working(w, call)
  /\ Throw(w)
  /\ UNCHANGED <<tables, delivered>>

\* A call takes effect but its answer is lost.
AnswerLost(w) ==
  /\ Failure
  /\ \/ RealMeta /\ Working(w, "send") /\ Deliver(w) /\ UNCHANGED tables
     \/ /\ Working(w, "insert") /\ ~Conflict(w)
        /\ rows' = rows \cup {OutboundRow(w)}
        /\ clock' = clock + 1
        /\ UNCHANGED <<begun, original, lastMessageAt, delivered>>
     \/ Touch(w)
  /\ Throw(w)

-----------------------------------------------------------------------------
(* The rest of the queue.                                                  *)

Elsewhere == UNCHANGED <<tables, delivered, failures>>

\* SqsConsumer around the handler.
Loop(w) ==
  /\ \/ Queue!Poll(w) \/ Queue!ReceiveNothing(w) \/ Queue!BackoffEnds(w) \/ Queue!Delete(w)
     \/ \E S \in SUBSET Job : Queue!Receive(w, S)
  /\ UNCHANGED run /\ Elsewhere

Start(w) == Queue!Start(w) /\ UNCHANGED run /\ Elsewhere

Disturb(w) ==
  /\ \/ Queue!ReceiveFails(w) \/ Queue!DeleteFails(w) \/ Queue!Sigterm(w)
     \/ \E S \in SUBSET Job : Queue!ReceiveAnswerLost(w, S)
  /\ UNCHANGED run /\ Elsewhere

\* The worker's process ends, in the middle of process() or not.
Exit(w)  == Queue!Exit(w) /\ EndRun(w) /\ Elsewhere
Crash(w) == Queue!Crash(w) /\ EndRun(w) /\ Elsewhere

Expire(j)  == Queue!Expire(j) /\ UNCHANGED run /\ Elsewhere
Redrive(j) == Queue!Redrive(j) /\ UNCHANGED run /\ Elsewhere

Process(w) ==
  \/ CallHandler(w) \/ BuildHistory(w) \/ GenerateReply(w) \/ SendText(w)
  \/ InsertOutbound(w) \/ InsertConflicts(w) \/ TouchConversation(w)

Next ==
  \/ \E j \in Job : \/ BeginInbound(j) \/ CommitInbound(j) \/ Enqueue(j) \/ Resend(j)
                     \/ Expire(j) \/ Redrive(j)
  \/ \E w \in Worker : \/ Process(w) \/ CallFails(w) \/ AnswerLost(w)
                        \/ Loop(w) \/ Start(w) \/ Disturb(w) \/ Exit(w) \/ Crash(w)

Spec == Init /\ [][Next]_vars

\* As in module JobQueue; the calls of process() end.
Fairness ==
  /\ \A w \in Worker : /\ WF_vars(Process(w) \/ Loop(w))
                        /\ WF_vars(Start(w)) /\ WF_vars(Exit(w))
  /\ \A j \in Job :
       /\ WF_vars(Expire(j)) /\ SF_vars(Redrive(j))
       /\ SF_vars(/\ \E w \in Worker, S \in SUBSET Job : j \in S /\ Queue!Receive(w, S)
                  /\ UNCHANGED run /\ Elsewhere)
LiveSpec == Spec /\ Fairness

-----------------------------------------------------------------------------
(* Properties.                                                             *)

Outbound(d) == {row \in rows : row.job = d.job /\ row.receive = d.receipt}

\* The customer gets one reply at most for each receive of a job, so MaxReceive at
\* most for each time the message is sent, however runs overlap, fail or are cut off.
OneReplyPerReceive ==
  \A d \in Queue!Delivery :
    delivered[d] <= 1 /\ (delivered[d] = 1 => d.receipt <= receives[d.job])

\* A reply in the conversation has been delivered to the customer.
RecordedIsDelivered ==
  \A d \in Queue!Delivery : Outbound(d) # {} => delivered[d] = 1

\* A job that is done (deleted, unless the delete fails) has its reply with the
\* customer and in the conversation.
HandledIsReplied ==
  \A j \in handled : \E row \in rows : row.job = j /\ ~Inbound(row)

\* The prompt holds the message the job is about, since it is committed before the
\* job is sent, though its created_at may lie before replies that it follows.
QuestionInPrompt ==
  \A w \in Worker : Working(w, "generate") => InboundOf(current[w].job) \cap turns[w] # {}

\* Without a failure of Postgres, Meta or a worker the customer gets a reply to every
\* job, even if the LLM throws each time and whatever the visibility timeout does.
RepliedUnlessFailure ==
  \A j \in Job : j \in sent ~>
    \/ \E d \in Queue!Delivery : d.job = j /\ delivered[d] > 0
    \/ failures > 0 \/ faults > 0

\* The pipeline is a use of the queue: it keeps what module JobQueue promises.
ImplementsQueue == Queue!Spec

-----------------------------------------------------------------------------
(* The pipeline implements ReplyService.                                   *)

acceptedOf == {j \in Job : InboundOf(j) # {} /\ (~IsCopy(j) \/ j \in sent)}
recordedOf == {d \in Queue!Delivery : Outbound(d) # {}}

Abs == INSTANCE ReplyService WITH
         Attempt <- Queue!Delivery, accepted <- acceptedOf, replies <- delivered,
         recorded <- recordedOf, closed <- handled

\* From the webhook's commit to the end of the job, across two processes and a queue
\* that repeats, the pipeline keeps the promise of module ReplyService.
ImplementsService == Abs!Spec

-----------------------------------------------------------------------------
(* What the repository says and the code does not do.                      *)

\* ai/llm.types.ts:13-14: userMessage is the customer's current message and history
\* the turns before it.
AnswersCurrentMessage ==
  \A w \in Worker : Working(w, "generate") => UserMessage(w) = InboundOf(current[w].job)

\* docs/DECISIONS.md:27-28: the job is delivered again when the send fails; so a run
\* in which every call succeeds is the only one of its job.
RepeatedOnlyAfterFailure ==
  \A j \in Job : faults = 0 /\ failures = 0 =>
    \A d, e \in Queue!Delivery : d.job = e.job /\ delivered[d] > 0 /\ delivered[e] > 0 => d = e

=============================================================================
