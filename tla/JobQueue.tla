------------------------------ MODULE JobQueue ------------------------------
(***************************************************************************)
(* One SQS queue with its dead-letter queue, and the worker processes that *)
(* consume it with SqsConsumer.  The handler is abstract here: it succeeds *)
(* or throws.                                                              *)
(*                                                                         *)
(* SQS is external: a received message is hidden for the visibility        *)
(* timeout, which may run out at any time relative to the worker; each     *)
(* receive counts, and a message received MaxReceive times is moved to the *)
(* DLQ instead of being received again.  Delivery order is arbitrary.      *)
(***************************************************************************)
EXTENDS Naturals, FiniteSets

CONSTANTS
  Job,         \* the jobs that producers may send: each SQS message is one of its own
  Worker,      \* worker processes
  MaxReceive,  \* SQS_MAX_RECEIVE_COUNT, the maxReceiveCount of the redrive policy
  MaxBatch,    \* maxMessages of a ReceiveMessage call
  MaxFaults    \* bound: crashes, signals and failed calls in one behaviour

ASSUME BoundAssumption == /\ MaxReceive \in Nat \ {0} /\ MaxBatch \in Nat \ {0}
                          /\ MaxFaults \in Nat

\* One receive of a job; the receipt handle is good until the next receive.
Delivery == [job : Job, receipt : 1..MaxReceive]
NoDelivery == [job |-> "none", receipt |-> 0]

VARIABLES
  sent, stored, hidden, dead,  \* jobs ever sent, in the queue, in flight, in the DLQ
  receives,                    \* ApproximateReceiveCount of each job
  tries,                       \* handler runs per delivery
  handled,                     \* jobs whose handler has succeeded
  running, pc,                 \* per worker: the consumer's flag, its step,
  batch, current,              \* the deliveries left in its batch, the one at hand
  faults

queue  == <<sent, stored, hidden, dead, receives>>
vars == <<sent, stored, hidden, dead, receives, tries, handled,
          running, pc, batch, current, faults>>

Steps == {"down", "loop", "waiting", "backoff", "handle", "working", "delete", "exited"}

TypeOK ==
  /\ sent \subseteq Job /\ stored \subseteq sent /\ dead \subseteq sent \ stored
  /\ hidden \subseteq stored
  /\ receives \in [Job -> 0..MaxReceive]
  /\ tries \in [Delivery -> Nat]
  /\ handled \subseteq sent
  /\ running \in [Worker -> BOOLEAN]
  /\ pc \in [Worker -> Steps]
  /\ batch \in [Worker -> SUBSET Delivery]
  /\ current \in [Worker -> Delivery \cup {NoDelivery}]
  /\ \A w \in Worker : pc[w] \in {"working", "delete"} => current[w] \in Delivery
  /\ faults \in Nat

Init ==
  /\ sent = {} /\ stored = {} /\ hidden = {} /\ dead = {}
  /\ receives = [j \in Job |-> 0]
  /\ tries = [d \in Delivery |-> 0]
  /\ handled = {}
  /\ running = [w \in Worker |-> FALSE]
  /\ pc = [w \in Worker |-> "down"]
  /\ batch = [w \in Worker |-> {}]
  /\ current = [w \in Worker |-> NoDelivery]
  /\ faults = 0

Goto(w, step) == pc' = [pc EXCEPT ![w] = step]
Fault == faults < MaxFaults /\ faults' = faults + 1

-----------------------------------------------------------------------------
(* SQS.                                                                    *)

\* A producer's SendMessage.
Send(j) ==
  /\ j \notin sent
  /\ sent' = sent \cup {j} /\ stored' = stored \cup {j}
  /\ UNCHANGED <<hidden, dead, receives, tries, handled, running, pc, batch, current, faults>>

\* The visibility timeout of a received job runs out.
Expire(j) ==
  /\ j \in hidden
  /\ hidden' = hidden \ {j}
  /\ UNCHANGED <<sent, stored, dead, receives, tries, handled, running, pc, batch,
                 current, faults>>

\* Bug: the queue has no redrive policy, and a poll hides the job once more.
RedriveMissing(j) ==
  /\ j \in stored \ hidden
  /\ receives[j] = MaxReceive
  /\ \E w \in Worker : pc[w] = "waiting"
  /\ hidden' = hidden \cup {j}
  /\ UNCHANGED <<sent, stored, dead, receives, tries, handled, running, pc, batch, current, faults>>

\* Redrive: a ReceiveMessage call finds a job that has been received too often.
Redrive(j) ==
  /\ j \in stored \ hidden
  /\ receives[j] = MaxReceive
  /\ \E w \in Worker : pc[w] = "waiting"
  /\ stored' = stored \ {j} /\ dead' = dead \cup {j}
  /\ UNCHANGED <<sent, hidden, receives, tries, handled, running, pc, batch, current, faults>>

\* A ReceiveMessage call finds the jobs of S: each of them is counted and hidden.
HandOut(S) ==
  /\ S # {} /\ S \subseteq stored \ hidden /\ Cardinality(S) <= MaxBatch
  /\ \A j \in S : receives[j] < MaxReceive
  /\ hidden' = hidden \cup S
  /\ receives' = [j \in Job |-> IF j \in S THEN receives[j] + 1 ELSE receives[j]]

-----------------------------------------------------------------------------
(* SqsConsumer in a worker.                                                *)

\* bootstrap of worker.ts: consumers.forEach(c => c.start()).
Start(w) ==
  /\ pc[w] = "down"
  /\ running' = [running EXCEPT ![w] = TRUE]
  /\ Goto(w, "loop")
  /\ UNCHANGED <<queue, tries, handled, batch, current, faults>>

\* loop: while (this.running) this.receive(), a long poll.
Poll(w) ==
  /\ pc[w] = "loop"
  /\ Goto(w, IF running[w] THEN "waiting" ELSE "exited")
  /\ UNCHANGED <<queue, tries, handled, running, batch, current, faults>>

\* The long poll returns jobs, even if stop() was called meanwhile.
Receive(w, S) ==
  /\ pc[w] = "waiting"
  /\ HandOut(S)
  /\ batch' = [batch EXCEPT ![w] = {[job |-> j, receipt |-> receives[j] + 1] : j \in S}]
  /\ Goto(w, "handle")
  /\ UNCHANGED <<sent, stored, dead, tries, handled, running, current, faults>>

\* The long poll runs out of time without a message.
ReceiveNothing(w) ==
  /\ pc[w] = "waiting" /\ stored \ hidden = {}
  /\ Goto(w, "loop")
  /\ UNCHANGED <<queue, tries, handled, running, batch, current, faults>>

\* ReceiveMessage throws: the loop logs it, sleeps and goes on.
ReceiveFails(w) ==
  /\ Fault
  /\ pc[w] = "waiting"
  /\ Goto(w, "backoff")
  /\ UNCHANGED <<queue, tries, handled, running, batch, current>>

\* ReceiveMessage takes effect but its answer is lost: the client of the SDK makes the
\* call again, or gives up and throws.  The jobs have cost a receive no handler sees.
ReceiveAnswerLost(w, S) ==
  /\ Fault
  /\ pc[w] = "waiting"
  /\ HandOut(S)
  /\ pc' = pc \/ Goto(w, "backoff")
  /\ UNCHANGED <<sent, stored, dead, tries, handled, running, batch, current>>

BackoffEnds(w) ==
  /\ pc[w] = "backoff"
  /\ Goto(w, "loop")
  /\ UNCHANGED <<queue, tries, handled, running, batch, current, faults>>

\* Bug: the message is deleted before the handler is called.
HandleAfterDelete(w) ==
  /\ pc[w] = "handle"
  /\ \E d \in batch[w] :
       /\ batch' = [batch EXCEPT ![w] = @ \ {d}]
       /\ current' = [current EXCEPT ![w] = d]
       /\ tries' = [tries EXCEPT ![d] = @ + 1]
       /\ stored' = stored \ {d.job} /\ hidden' = hidden \ {d.job}
  /\ Goto(w, "working")
  /\ UNCHANGED <<sent, dead, receives, handled, running, faults>>

\* handleMessage: the handler is called for one message of the batch.
Handle(w) ==
  /\ pc[w] = "handle"
  /\ \E d \in batch[w] :
       /\ batch' = [batch EXCEPT ![w] = @ \ {d}]
       /\ current' = [current EXCEPT ![w] = d]
       /\ tries' = [tries EXCEPT ![d] = @ + 1]
  /\ Goto(w, "working")
  /\ UNCHANGED <<queue, handled, running, faults>>

\* Bug: the receipt is dropped before the message is deleted.
HandlerSucceedsForgets(w) ==
  /\ pc[w] = "working"
  /\ handled' = handled \cup {current[w].job}
  /\ current' = [current EXCEPT ![w] = NoDelivery]
  /\ Goto(w, "delete")
  /\ UNCHANGED <<queue, tries, running, batch, faults>>

\* The handler returns.
HandlerSucceeds(w) ==
  /\ pc[w] = "working"
  /\ handled' = handled \cup {current[w].job}
  /\ Goto(w, "delete")
  /\ UNCHANGED <<queue, tries, running, batch, current, faults>>

\* The for loop goes on to the next message, or the while loop to the next poll.
NextDelivery(w) ==
  /\ Goto(w, IF batch[w] = {} THEN "loop" ELSE "handle")
  /\ current' = [current EXCEPT ![w] = NoDelivery]

\* Bug: deleteMessage is in a finally.
HandlerErrorDeletes(w) ==
  /\ pc[w] = "working"
  /\ Goto(w, "delete")
  /\ UNCHANGED <<queue, tries, handled, running, batch, current, faults>>

\* Bug: a failed message is tried again at once.
HandlerErrorRetries(w) ==
  /\ pc[w] = "working"
  /\ batch' = [batch EXCEPT ![w] = @ \cup {current[w]}]
  /\ current' = [current EXCEPT ![w] = NoDelivery]
  /\ tries[current[w]] < 3
  /\ Goto(w, "handle")
  /\ UNCHANGED <<queue, tries, handled, running, faults>>

\* The handler throws: handleMessage logs it and does not delete the message.
HandlerFails(w) ==
  /\ pc[w] = "working"
  /\ NextDelivery(w)
  /\ UNCHANGED <<queue, tries, handled, running, batch, faults>>

\* deleteMessage.  With a receipt that is no longer the latest, SQS answers OK but
\* may keep the message.
Delete(w) ==
  LET d == current[w] IN
  /\ pc[w] = "delete"
  /\ \/ stored' = stored \ {d.job} /\ hidden' = hidden \ {d.job}
     \/ d.receipt # receives[d.job] /\ UNCHANGED <<stored, hidden>>
  /\ NextDelivery(w)
  /\ UNCHANGED <<sent, dead, receives, tries, handled, running, batch, faults>>

\* deleteMessage throws; the same catch swallows it.
DeleteFails(w) ==
  /\ Fault
  /\ pc[w] = "delete"
  /\ NextDelivery(w)
  /\ UNCHANGED <<queue, tries, handled, running, batch>>

-----------------------------------------------------------------------------
(* The end of a worker process.                                            *)

\* SIGTERM: shutdown() calls stop() and awaits app.close().
Sigterm(w) ==
  /\ Fault
  /\ running[w]
  /\ running' = [running EXCEPT ![w] = FALSE]
  /\ UNCHANGED <<queue, tries, handled, pc, batch, current>>

\* The process is gone, with whatever its loop was doing.
Vanish(w) ==
  /\ pc[w] # "down"
  /\ Goto(w, "down")
  /\ running' = [running EXCEPT ![w] = FALSE]
  /\ batch' = [batch EXCEPT ![w] = {}]
  /\ current' = [current EXCEPT ![w] = NoDelivery]
  /\ UNCHANGED <<queue, tries, handled>>

\* shutdown() reaches process.exit(0): nobody waits for the loop.
Exit(w) == ~running[w] /\ Vanish(w) /\ UNCHANGED faults

Crash(w) == Fault /\ running[w] /\ Vanish(w)

-----------------------------------------------------------------------------
Loop(w) ==
  \/ Poll(w) \/ (\E S \in SUBSET Job : Receive(w, S)) \/ ReceiveNothing(w)
  \/ BackoffEnds(w) \/ Handle(w) \/ HandlerSucceeds(w) \/ HandlerFails(w) \/ Delete(w)

Disturb(w) ==
  \/ ReceiveFails(w) \/ (\E S \in SUBSET Job : ReceiveAnswerLost(w, S))
  \/ DeleteFails(w) \/ Sigterm(w) \/ Crash(w)

Next ==
  \/ \E j \in Job : Send(j) \/ Expire(j) \/ Redrive(j)
  \/ \E w \in Worker : Start(w) \/ Loop(w) \/ Exit(w) \/ Disturb(w)

Spec == Init /\ [][Next]_vars

\* The event loop runs on, handlers end, a stopped process exits and is started
\* again; the visibility timeout runs out; a poll that goes on finding a job
\* returns it or moves it to the DLQ.
Fairness ==
  /\ \A w \in Worker : WF_vars(Loop(w)) /\ WF_vars(Start(w)) /\ WF_vars(Exit(w))
  /\ \A j \in Job :
       /\ WF_vars(Expire(j)) /\ SF_vars(Redrive(j))
       /\ SF_vars(\E w \in Worker, S \in SUBSET Job : j \in S /\ Receive(w, S))
LiveSpec == Spec /\ Fairness

-----------------------------------------------------------------------------
(* Properties.                                                             *)

\* The job was deleted from the queue.
Done(j) == j \in sent \ (stored \cup dead)

\* A job that has left the queue, and not for the DLQ, has been handled with
\* success: whatever expires, crashes or fails, no job is lost.
NoJobLost == \A j \in Job : Done(j) => j \in handled

\* Each receive leads to one run of the handler at most, so a job costs at most
\* MaxReceive runs (LLM calls, sends) however it fails.
OneTryPerReceive ==
  \A d \in Delivery : tries[d] <= 1 /\ (tries[d] = 1 => d.receipt <= receives[d.job])

\* Every job leaves the queue in the end, handled or dead, when crashes and
\* signals stop: none is retried for ever and none stays hidden.
Settles == \A j \in Job : j \in sent ~> j \notin stored

-----------------------------------------------------------------------------
(* The queue with its consumers implements AtLeastOnce.                    *)

fateOf == [j \in Job |-> IF j \notin sent    THEN "unsent"
                         ELSE IF j \in dead   THEN "dead"
                         ELSE IF j \in stored THEN "pending"
                         ELSE                      "done"]

Abs == INSTANCE AtLeastOnce WITH fate <- fateOf

\* The consumers keep the promise of module AtLeastOnce.
ImplementsAtLeastOnce == Abs!Spec

=============================================================================
