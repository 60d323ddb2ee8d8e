------------------------- MODULE ReplyPipelineProofs -------------------------
(***************************************************************************)
(* What module ReplyPipeline guarantees for every number of conversations, *)
(* jobs and workers and any number of faults and failed calls.             *)
(***************************************************************************)
EXTENDS ReplyPipeline, TLAPS

\* A job is sent after its message is committed.
SentIsPersisted == \A j \in sent : InboundOf(j) # {}

\* What the customer and the table have got of the receive a run is for.
RunSoFar ==
  \A w \in Worker : pc[w] = "working" =>
    /\ step[w] \in {"history", "generate", "send"} =>
         delivered[current[w]] = 0 /\ Outbound(current[w]) = {}
    /\ step[w] = "insert" => delivered[current[w]] = 1 /\ Outbound(current[w]) = {}
    /\ step[w] = "touch" => delivered[current[w]] = 1 /\ Outbound(current[w]) # {}

\* A receive that no run has tried has left no trace.
UntriedIsUnseen ==
  \A d \in Queue!Delivery : /\ delivered[d] <= tries[d]
                            /\ Outbound(d) # {} => delivered[d] = 1

\* The inductive invariant.
Inv == /\ Queue!Inv /\ TypeOK /\ SentIsPersisted /\ RunSoFar /\ UntriedIsUnseen
       /\ HandledIsReplied /\ QuestionInPrompt

-----------------------------------------------------------------------------
(* The pipeline uses the queue as module JobQueue describes it.            *)

\* Each step is a step of the queue or leaves it alone.
LEMMA QueueStep == [Next]_vars => [Queue!Next]_Queue!vars
<1> SUFFICES ASSUME [Next]_vars PROVE [Queue!Next]_Queue!vars
  OBVIOUS
<1> USE DEF Queue!vars, queueVars
<1>1. ASSUME NEW j \in Job, BeginInbound(j) \/ CommitInbound(j) PROVE UNCHANGED Queue!vars
  BY <1>1 DEF BeginInbound, CommitInbound
<1>2. ASSUME NEW j \in Job, Enqueue(j) \/ Resend(j) \/ Expire(j) \/ Redrive(j)
      PROVE  Queue!Send(j) \/ Queue!Expire(j) \/ Queue!Redrive(j)
  BY <1>2 DEF Enqueue, Resend, Expire, Redrive
<1>3. ASSUME NEW w \in Worker, Process(w)
      PROVE  Queue!Loop(w) \/ UNCHANGED Queue!vars
  BY <1>3 DEF Process, CallHandler, BuildHistory, GenerateReply, SendText, InsertOutbound,
     InsertConflicts, TouchConversation, Touch, Throw, Queue!Loop
<1>4. ASSUME NEW w \in Worker, CallFails(w) \/ AnswerLost(w) PROVE Queue!Loop(w)
  BY <1>4 DEF CallFails, AnswerLost, Throw, Queue!Loop
<1>5. ASSUME NEW w \in Worker, Loop(w) PROVE Queue!Loop(w)
  BY <1>5 DEF Loop, Queue!Loop
<1>6. ASSUME NEW w \in Worker, Start(w) \/ Disturb(w) \/ Exit(w) \/ Crash(w)
      PROVE  Queue!Start(w) \/ Queue!Exit(w) \/ Queue!Disturb(w)
  BY <1>6 DEF Start, Disturb, Exit, Crash, Queue!Disturb
<1>7. UNCHANGED vars => UNCHANGED Queue!vars
  BY DEF vars
<1>8. QED
  BY <1>1, <1>2, <1>3, <1>4, <1>5, <1>6, <1>7 DEF Next, Queue!Next

\* Every step of the pipeline keeps the invariant of module JobQueue.
LEMMA QueueInvStep == Queue!Inv /\ [Next]_vars => Queue!Inv'
BY QueueStep, Queue!InvStep, BoundAssumption

\* The pipeline keeps every promise of module JobQueue.
THEOREM PipelineImplementsQueue == Spec => ImplementsQueue
<1>1. Init => Queue!Init
  BY DEF Init
<1>2. QED
  BY <1>1, QueueStep, PTL DEF Spec, ImplementsQueue, Queue!Spec

\* What a worker has at hand while its handler runs.
LEMMA AtWork ==
  ASSUME Queue!Inv, NEW w \in Worker, pc[w] = "working"
  PROVE  /\ current[w] \in Queue!Delivery
         /\ current[w].job \in Job /\ current[w].job \in sent
         /\ current[w].receipt \in 1..MaxReceive
  <1>1. current[w] \in Queue!Delivery /\ current[w].job \in sent
    BY DEF Queue!Inv, Queue!TypeOK, Queue!AtHand
  <1>2. QED
    BY <1>1 DEF Queue!Delivery

-----------------------------------------------------------------------------
(* The inductive invariant.                                                *)

\* Inv without the part that is the queue's own.
Local == SentIsPersisted /\ RunSoFar /\ UntriedIsUnseen
         /\ HandledIsReplied /\ QuestionInPrompt

\* No message, no reply and no run at first.
LEMMA InvInit == Init => Inv
<1> SUFFICES ASSUME Init PROVE Inv
  OBVIOUS
<1>1. Queue!Inv
  BY Queue!InvInit, BoundAssumption DEF Init
<1>2. TypeOK
  BY <1>1 DEF Init, Queue!Init, Queue!Inv, TypeOK, Calls, Ids
<1>3. Local
  BY DEF Init, Queue!Init, Local, SentIsPersisted, RunSoFar, UntriedIsUnseen, Outbound,
     HandledIsReplied, QuestionInPrompt, Working
<1>4. QED
  BY <1>1, <1>2, <1>3 DEF Inv, Local

\* A step that leaves the tables' rows, the customer and the counts of runs alone, and
\* a run, too, unless it ends it.
LEMMA QuietKeepsLocal ==
  ASSUME Inv, UNCHANGED <<original, rows, delivered, tries, handled, sent>>,
         \A w \in Worker : pc'[w] = "working" =>
           /\ pc[w] = "working" /\ current'[w] = current[w]
           /\ step'[w] = step[w] /\ turns'[w] = turns[w]
  PROVE  Local'
<1> USE DEF Inv
<1>1. SentIsPersisted'
  BY DEF SentIsPersisted, InboundOf, Inbound
<1>2. RunSoFar' /\ UntriedIsUnseen'
  BY DEF RunSoFar, UntriedIsUnseen, Outbound
<1>3. HandledIsReplied' /\ QuestionInPrompt'
  BY DEF HandledIsReplied, QuestionInPrompt, Working, InboundOf, Inbound
<1>4. QED
  BY <1>1, <1>2, <1>3 DEF Local

\* The message of a job that was sent is the message of its copies.
LEMMA CopyIsPersisted ==
  ASSUME TypeOK, SentIsPersisted, NEW j \in Job, original[j] \in sent
  PROVE  InboundOf(j) # {}
BY DEF TypeOK, Copying, SentIsPersisted, InboundOf

\* The steps of the webhook.
LEMMA WebhookStepKeepsInv ==
  ASSUME Inv, Queue!Inv', NEW j \in Job,
         BeginInbound(j) \/ CommitInbound(j) \/ Enqueue(j) \/ Resend(j)
  PROVE  Inv'
<1> USE DEF Inv
<1>1. CASE BeginInbound(j)
  <2>1. UNCHANGED <<queueVars, original, rows, lastMessageAt, run, delivered, failures>>
    BY <1>1 DEF BeginInbound
  <2>2. TypeOK'
    BY <1>1, <2>1 DEF BeginInbound, TypeOK, queueVars, run, Queue!Inv
  <2>3. Local'
    BY <2>1, QuietKeepsLocal DEF queueVars, run
  <2>4. QED
    BY <2>2, <2>3 DEF Local
<1>2. CASE CommitInbound(j)
  <2> DEFINE row == [job |-> j, receive |-> 0, createdAt |-> begun[j], waMessageId |-> "id"]
  <2>1. /\ rows' = rows \cup {row}
        /\ UNCHANGED <<queueVars, clock, begun, original, run, delivered, failures>>
    BY <1>2 DEF CommitInbound
  <2>2. row \in Message /\ Inbound(row)
    BY BoundAssumption DEF TypeOK, Message, Ids, Inbound
  <2>3. TypeOK'
    BY <1>2, <2>1, <2>2 DEF CommitInbound, TypeOK, queueVars, run, Queue!Inv
  <2>4. \A d \in Queue!Delivery : Outbound(d)' = Outbound(d)
    BY <2>1 DEF Outbound, Queue!Delivery
  <2>5. \A i \in Job : InboundOf(i) \subseteq InboundOf(i)'
    BY <2>1 DEF InboundOf, Inbound
  <2>6. SentIsPersisted'
    BY <2>1, <2>5 DEF SentIsPersisted, queueVars, TypeOK, Queue!TypeOK
  <2>7. UntriedIsUnseen'
    BY <2>1, <2>4 DEF UntriedIsUnseen, queueVars
  <2>8. RunSoFar'
    <3> SUFFICES ASSUME NEW w \in Worker, pc[w] = "working"
                 PROVE  Outbound(current[w])' = Outbound(current[w])
      BY <2>1 DEF RunSoFar, queueVars, run
    <3>1. QED
      BY <2>1, <2>4, AtWork DEF queueVars
  <2>9. HandledIsReplied' /\ QuestionInPrompt'
    BY <2>1, <2>5, AtWork DEF HandledIsReplied, QuestionInPrompt, Working, queueVars, run, Inbound
  <2>10. QED
    BY <2>3, <2>6, <2>7, <2>8, <2>9
<1>3. CASE Enqueue(j) \/ Resend(j)
  <2>1. /\ InboundOf(j) # {} /\ sent' = sent \cup {j} /\ failures' \in Nat
        /\ UNCHANGED <<tries, handled, pc, current, tables, run, delivered>>
    BY <1>3, CopyIsPersisted DEF Enqueue, Resend, Failure, Queue!Send, TypeOK
  <2>2. TypeOK'
    BY <2>1 DEF TypeOK, tables, run, Queue!Inv
  <2>3. SentIsPersisted'
    BY <2>1 DEF SentIsPersisted, InboundOf, tables
  <2>4. RunSoFar' /\ UntriedIsUnseen'
    BY <2>1 DEF RunSoFar, UntriedIsUnseen, Outbound, tables, run
  <2>5. HandledIsReplied' /\ QuestionInPrompt'
    BY <2>1 DEF HandledIsReplied, QuestionInPrompt, Working, InboundOf, tables, run
  <2>6. QED
    BY <2>2, <2>3, <2>4, <2>5
<1>4. QED
  BY <1>1, <1>2, <1>3

\* A run starts with a receive that no run has tried.
LEMMA CallHandlerKeepsInv ==
  ASSUME Inv, Queue!Inv', NEW w \in Worker, CallHandler(w)
  PROVE  Inv'
<1> USE DEF Inv
<1>1. PICK d \in batch[w] : /\ current' = [current EXCEPT ![w] = d]
                            /\ tries' = [tries EXCEPT ![d] = @ + 1]
  BY DEF CallHandler, Queue!Handle
<1>2. /\ UNCHANGED <<sent, handled, rows, turns, sentId, delivered, failures, clock, begun,
                      original, lastMessageAt>>
      /\ pc[w] = "handle" /\ pc' = [pc EXCEPT ![w] = "working"]
      /\ step' = [step EXCEPT ![w] = "history"]
  BY DEF CallHandler, Queue!Handle, Queue!Goto, Queue!queue, Call, tables
<1>3. d \in Queue!Delivery /\ tries[d] = 0
  BY DEF Queue!Inv, Queue!TypeOK, Queue!BatchesFresh
<1>4. tries'[d] = 1 /\ \A e \in Queue!Delivery \ {d} : tries'[e] = tries[e]
  BY <1>1, <1>3 DEF Queue!Inv, Queue!TypeOK
<1>5. delivered[d] = 0 /\ Outbound(d) = {}
  BY <1>3 DEF UntriedIsUnseen, TypeOK
<1>6. /\ pc'[w] = "working" /\ current'[w] = d /\ step'[w] = "history"
      /\ \A v \in Worker \ {w} : pc'[v] = pc[v] /\ current'[v] = current[v] /\ step'[v] = step[v]
  BY <1>1, <1>2 DEF TypeOK, Queue!TypeOK
<1>7. \A v \in Worker \ {w} : pc[v] = "working" => current[v] \in Queue!Delivery \ {d}
  BY <1>3, AtWork DEF Queue!Inv, Queue!RunIsAlone
<1>8. TypeOK'
  BY <1>2, <1>6 DEF TypeOK, Calls, Queue!Inv, Queue!TypeOK
<1>9. SentIsPersisted' /\ HandledIsReplied'
  BY <1>2 DEF SentIsPersisted, InboundOf, HandledIsReplied
<1>10. RunSoFar'
  BY <1>2, <1>5, <1>6 DEF RunSoFar, Outbound
<1>11. UntriedIsUnseen'
  BY <1>2, <1>3, <1>4, <1>5 DEF UntriedIsUnseen, Outbound
<1>12. QuestionInPrompt'
  BY <1>2, <1>6 DEF QuestionInPrompt, Working, InboundOf
<1>13. QED
  BY <1>8, <1>9, <1>10, <1>11, <1>12

\* The runs of the other workers do not notice a step of w on its own receive.
LEMMA OtherRuns ==
  ASSUME Inv, NEW w \in Worker, pc[w] = "working", NEW v \in Worker \ {w}, pc[v] = "working"
  PROVE  current[v] \in Queue!Delivery \ {current[w]}
BY AtWork DEF Inv, Queue!Inv, Queue!RunIsAlone

\* buildHistory reads the prompt and changes nothing else.
LEMMA BuildHistoryKeepsInv ==
  ASSUME Inv, Queue!Inv', NEW w \in Worker, BuildHistory(w)
  PROVE  Inv'
<1> DEFINE seen == {row \in rows : ThreadOf(row.job) = ThreadOf(current[w].job)}
<1> USE DEF Inv
<1>1. /\ pc[w] = "working" /\ step[w] = "history"
      /\ turns' = [turns EXCEPT ![w] = seen] /\ step' = [step EXCEPT ![w] = "generate"]
      /\ UNCHANGED <<queueVars, tables, sentId, delivered, failures>>
  BY DEF BuildHistory, Working, Call
<1>2. InboundOf(current[w].job) # {} /\ InboundOf(current[w].job) \subseteq seen
  <2>1. InboundOf(current[w].job) # {}
    BY <1>1, AtWork DEF SentIsPersisted
  <2>2. ThreadOf(original[current[w].job]) = ThreadOf(current[w].job)
    BY <1>1, AtWork DEF ThreadOf, TypeOK, Copying
  <2>3. QED
    BY <2>1, <2>2 DEF InboundOf
<1>3. seen \subseteq Message
  BY DEF TypeOK
<1> HIDE DEF seen
<1>4. /\ step'[w] = "generate" /\ turns'[w] = seen
      /\ \A v \in Worker \ {w} : step'[v] = step[v] /\ turns'[v] = turns[v]
  BY <1>1 DEF TypeOK
<1>5. TypeOK'
  BY <1>1, <1>3, <1>4 DEF TypeOK, queueVars, tables, Calls, Queue!Inv
<1>6. SentIsPersisted' /\ UntriedIsUnseen' /\ HandledIsReplied'
  BY <1>1 DEF SentIsPersisted, UntriedIsUnseen, HandledIsReplied, InboundOf, Outbound,
     queueVars, tables
<1>7. RunSoFar'
  BY <1>1, <1>4 DEF RunSoFar, Outbound, queueVars, tables
<1>8. QuestionInPrompt'
  BY <1>1, <1>2, <1>4 DEF QuestionInPrompt, Working, InboundOf, queueVars, tables
<1>9. QED
  BY <1>5, <1>6, <1>7, <1>8

\* generateReply has an answer for the receive in hand.
LEMMA GenerateReplyKeepsInv ==
  ASSUME Inv, Queue!Inv', NEW w \in Worker, GenerateReply(w)
  PROVE  Inv'
<1> USE DEF Inv
<1>1. /\ pc[w] = "working" /\ step[w] = "generate"
      /\ turns' = [turns EXCEPT ![w] = {}] /\ step' = [step EXCEPT ![w] = "send"]
      /\ UNCHANGED <<queueVars, tables, sentId, delivered, failures>>
  BY DEF GenerateReply, Working, Call
<1>2. /\ step'[w] = "send"
      /\ \A v \in Worker \ {w} : step'[v] = step[v] /\ turns'[v] = turns[v]
  BY <1>1 DEF TypeOK
<1>3. TypeOK'
  BY <1>1, <1>2 DEF TypeOK, queueVars, tables, Calls, Queue!Inv
<1>4. SentIsPersisted' /\ UntriedIsUnseen' /\ HandledIsReplied'
  BY <1>1 DEF SentIsPersisted, UntriedIsUnseen, HandledIsReplied, InboundOf, Outbound,
     queueVars, tables
<1>5. RunSoFar' /\ QuestionInPrompt'
  BY <1>1, <1>2 DEF RunSoFar, Outbound, QuestionInPrompt, Working, InboundOf, queueVars, tables
<1>6. QED
  BY <1>3, <1>4, <1>5

\* A delivery of the reply during a run that goes on to the insert or ends.
LEMMA DeliverKeepsLocal ==
  ASSUME Inv, NEW w \in Worker, Working(w, "send"), Deliver(w),
         UNCHANGED <<original, rows, tries, handled, sent>>,
         pc'[w] = "working" => current'[w] = current[w] /\ step'[w] = "insert",
         \A v \in Worker \ {w} : /\ pc'[v] = pc[v] /\ current'[v] = current[v]
                                /\ step'[v] = step[v] /\ turns'[v] = turns[v]
  PROVE  Local'
<1> DEFINE d == current[w]
<1> USE DEF Inv
<1>1. pc[w] = "working" /\ step[w] = "send" /\ d \in Queue!Delivery
      /\ delivered' = [delivered EXCEPT ![d] = @ + 1]
  BY AtWork DEF Working, Deliver
<1>2. delivered[d] = 0 /\ Outbound(d) = {} /\ tries[d] = 1
  BY <1>1 DEF RunSoFar, Queue!Inv, Queue!RunIsAlone
<1>3. delivered'[d] = 1 /\ \A e \in Queue!Delivery \ {d} : delivered'[e] = delivered[e]
  BY <1>1, <1>2 DEF TypeOK
<1>4. \A v \in Worker \ {w} : pc[v] = "working" => current[v] \in Queue!Delivery \ {d}
  BY <1>1, OtherRuns
<1> HIDE DEF d
<1>5. SentIsPersisted' /\ HandledIsReplied'
  BY DEF SentIsPersisted, HandledIsReplied, InboundOf
<1>6. RunSoFar'
  BY <1>2, <1>3, <1>4 DEF RunSoFar, Outbound, d
<1>7. UntriedIsUnseen'
  BY <1>2, <1>3 DEF UntriedIsUnseen, Outbound
<1>8. QuestionInPrompt'
  BY DEF QuestionInPrompt, Working, InboundOf
<1>9. QED
  BY <1>5, <1>6, <1>7, <1>8 DEF Local

\* sendText delivers the reply of the receive in hand, once.
LEMMA SendTextKeepsInv ==
  ASSUME Inv, Queue!Inv', NEW w \in Worker, SendText(w)
  PROVE  Inv'
<1> USE DEF Inv
<1>1. /\ Working(w, "send") /\ Deliver(w) /\ step' = [step EXCEPT ![w] = "insert"]
      /\ \E id \in Ids : sentId' = [sentId EXCEPT ![w] = id]
      /\ UNCHANGED <<queueVars, tables, turns, failures>>
  BY DEF SendText, SendIds, Call, Ids
<1>2. delivered' \in [Queue!Delivery -> Nat]
  BY <1>1, AtWork DEF Deliver, Working, TypeOK
<1>3. step'[w] = "insert" /\ \A v \in Worker \ {w} : step'[v] = step[v]
  BY <1>1 DEF TypeOK
<1>4. TypeOK'
  BY <1>1, <1>2, <1>3 DEF TypeOK, Working, queueVars, tables, Calls, Queue!Inv
<1>5. Local'
  BY <1>1, <1>3, DeliverKeepsLocal DEF queueVars, tables
<1>6. QED
  BY <1>4, <1>5 DEF Local

\* The outbound row is written during a run that goes on to the touch or ends.
LEMMA InsertKeepsLocal ==
  ASSUME Inv, NEW w \in Worker, Working(w, "insert"), rows' = rows \cup {OutboundRow(w)},
         UNCHANGED <<original, delivered, tries, handled, sent>>,
         pc'[w] = "working" => current'[w] = current[w] /\ step'[w] = "touch",
         \A v \in Worker \ {w} : /\ pc'[v] = pc[v] /\ current'[v] = current[v]
                                /\ step'[v] = step[v] /\ turns'[v] = turns[v]
  PROVE  Local' /\ rows' \subseteq Message
<1> USE DEF Inv
<1>1. PICK d \in Queue!Delivery :
        /\ d = current[w] /\ d.job \in Job /\ d.receipt \in 1..MaxReceive
        /\ pc[w] = "working" /\ step[w] = "insert"
  BY AtWork DEF Working
<1>2. delivered[d] = 1 /\ Outbound(d) = {} /\ tries[d] = 1
  BY <1>1 DEF RunSoFar, Queue!Inv, Queue!RunIsAlone
<1>3. PICK row \in Message : /\ rows' = rows \cup {row} /\ ~Inbound(row)
                             /\ row.job = d.job /\ row.receive = d.receipt
  <2>1. /\ OutboundRow(w) \in Message /\ ~Inbound(OutboundRow(w))
        /\ OutboundRow(w).job = d.job /\ OutboundRow(w).receive = d.receipt
    BY <1>1, BoundAssumption DEF OutboundRow, Message, TypeOK, Inbound
  <2>2. QED
    BY <2>1
<1>4. \A v \in Worker \ {w} : pc[v] = "working" => current[v] \in Queue!Delivery \ {d}
  BY <1>1, OtherRuns
<1>5. \A e \in Queue!Delivery \ {d} : e.job # d.job \/ e.receipt # d.receipt
  BY <1>1 DEF Queue!Delivery
<1>6. Outbound(d)' # {}
  BY <1>3 DEF Outbound
<1>7. \A e \in Queue!Delivery \ {d} : Outbound(e)' = Outbound(e)
  BY <1>3, <1>5 DEF Outbound
<1>8. \A j \in Job : InboundOf(j)' = InboundOf(j)
  BY <1>3 DEF InboundOf, Inbound
<1>9. SentIsPersisted' /\ HandledIsReplied'
  BY <1>3, <1>8 DEF SentIsPersisted, HandledIsReplied, Queue!Inv, Queue!TypeOK, Inbound
<1>10. RunSoFar'
  <2>1. ASSUME NEW v \in Worker \ {w}, pc'[v] = "working"
        PROVE  /\ current'[v] = current[v] /\ step'[v] = step[v] /\ pc[v] = "working"
               /\ Outbound(current[v])' = Outbound(current[v])
    <3>1. PICK e \in Queue!Delivery \ {d} : e = current[v] /\ e = current'[v] /\ pc[v] = "working"
      BY <1>1, <1>4, <2>1
    <3>2. Outbound(e)' = Outbound(e)
      BY <1>7, <3>1
    <3>3. QED
      BY <2>1, <3>1, <3>2 DEF Outbound
  <2>2. ASSUME pc'[w] = "working"
        PROVE  /\ step'[w] = "touch" /\ delivered[current'[w]] = 1
               /\ Outbound(current[w])' # {}
    BY <1>1, <1>2, <1>6, <2>2 DEF Outbound
  <2>3. QED
    BY <2>1, <2>2 DEF RunSoFar
<1>11. UntriedIsUnseen'
  BY <1>2, <1>6, <1>7 DEF UntriedIsUnseen
<1>12. QuestionInPrompt'
  <2> SUFFICES ASSUME NEW v \in Worker \ {w}, pc[v] = "working", step[v] = "generate"
               PROVE  InboundOf(current[v].job)' \cap turns[v] # {}
    BY DEF QuestionInPrompt, Working, InboundOf
  <2>1. QED
    BY <1>8, AtWork DEF QuestionInPrompt, Working
<1>13. QED
  BY <1>3, <1>9, <1>10, <1>11, <1>12 DEF Local, TypeOK

\* recordOutbound inserts the row of the reply that was just delivered.
LEMMA InsertOutboundKeepsInv ==
  ASSUME Inv, Queue!Inv', NEW w \in Worker, InsertOutbound(w)
  PROVE  Inv'
<1> USE DEF Inv
<1>1. /\ Working(w, "insert") /\ rows' = rows \cup {OutboundRow(w)} /\ clock' = clock + 1
      /\ step' = [step EXCEPT ![w] = "touch"] /\ sentId' = [sentId EXCEPT ![w] = "none"]
      /\ UNCHANGED <<queueVars, begun, original, lastMessageAt, turns, delivered, failures>>
  BY DEF InsertOutbound, Call
<1>2. step'[w] = "touch" /\ \A v \in Worker \ {w} : step'[v] = step[v]
  BY <1>1 DEF TypeOK
<1>3. Local' /\ rows' \subseteq Message
  BY <1>1, <1>2, InsertKeepsLocal DEF queueVars
<1>4. TypeOK'
  BY <1>1, <1>2, <1>3 DEF TypeOK, Working, queueVars, Calls, Ids, Queue!Inv
<1>5. QED
  BY <1>3, <1>4 DEF Local

\* The state of the runs after one of them ends.
LEMMA EndedRun ==
  ASSUME TypeOK, NEW w \in Worker, EndRun(w), pc'[w] # "working",
         \A v \in Worker \ {w} : pc'[v] = pc[v]
  PROVE  /\ step' \in [Worker -> Calls] /\ turns' \in [Worker -> SUBSET Message]
         /\ sentId' \in [Worker -> Ids]
         /\ \A v \in Worker : step'[v] # "none" <=> pc'[v] = "working"
         /\ \A v \in Worker \ {w} : step'[v] = step[v] /\ turns'[v] = turns[v]
BY DEF TypeOK, EndRun, Call, Calls, Ids

\* A run that throws leaves its job to SQS and its worker to the rest of the batch.
LEMMA ThrowEndsRun ==
  ASSUME Inv, NEW w \in Worker, Throw(w)
  PROVE  /\ EndRun(w) /\ pc[w] = "working" /\ pc'[w] # "working"
         /\ \A v \in Worker \ {w} : pc'[v] = pc[v] /\ current'[v] = current[v]
         /\ UNCHANGED <<sent, tries, handled>>
BY DEF Inv, TypeOK, Queue!TypeOK, Throw, Queue!HandlerFails, Queue!NextDelivery, Queue!Goto,
   Queue!queue

\* The end of a run that fails or is cut off and has written nothing in this step.
LEMMA RunEndKeepsInv ==
  ASSUME Inv, Queue!Inv', NEW w \in Worker, EndRun(w), pc'[w] # "working",
         \A v \in Worker \ {w} : pc'[v] = pc[v] /\ current'[v] = current[v],
         UNCHANGED <<sent, tries, handled, tables, delivered>>, failures' \in Nat
  PROVE  Inv'
<1> USE DEF Inv
<1>1. /\ step' \in [Worker -> Calls] /\ turns' \in [Worker -> SUBSET Message]
      /\ sentId' \in [Worker -> Ids]
      /\ \A v \in Worker : step'[v] # "none" <=> pc'[v] = "working"
      /\ \A v \in Worker \ {w} : step'[v] = step[v] /\ turns'[v] = turns[v]
  BY EndedRun
<1>2. TypeOK'
  BY <1>1 DEF TypeOK, tables, Queue!Inv
<1>3. Local'
  BY <1>1, QuietKeepsLocal DEF tables
<1>4. QED
  BY <1>2, <1>3 DEF Local

\* The last statement of a run: it has succeeded, and its row is there.
LEMMA TouchConversationKeepsInv ==
  ASSUME Inv, Queue!Inv', NEW w \in Worker, TouchConversation(w)
  PROVE  Inv'
<1> USE DEF Inv
<1>1. /\ Working(w, "touch") /\ EndRun(w)
      /\ lastMessageAt' = [lastMessageAt EXCEPT ![ThreadOf(current[w].job)] = clock]
      /\ handled' = handled \cup {current[w].job} /\ pc' = [pc EXCEPT ![w] = "delete"]
      /\ UNCHANGED <<sent, tries, current, clock, begun, original, rows, delivered, failures>>
  BY DEF TouchConversation, Touch, Queue!HandlerSucceeds, Queue!Goto, Queue!queue
<1>2. pc'[w] = "delete" /\ \A v \in Worker \ {w} : pc'[v] = pc[v]
  BY <1>1 DEF TypeOK, Queue!TypeOK
<1>3. /\ step' \in [Worker -> Calls] /\ turns' \in [Worker -> SUBSET Message]
      /\ sentId' \in [Worker -> Ids]
      /\ \A v \in Worker : step'[v] # "none" <=> pc'[v] = "working"
      /\ \A v \in Worker \ {w} : step'[v] = step[v] /\ turns'[v] = turns[v]
  BY <1>1, <1>2, EndedRun
<1>4. TypeOK'
  BY <1>1, <1>3 DEF TypeOK, Queue!Inv
<1>5. PICK d \in Queue!Delivery : d = current[w] /\ d.receipt \in 1..MaxReceive /\ Outbound(d) # {}
  BY <1>1, AtWork DEF Working, RunSoFar
<1>6. \E row \in rows : row.job = d.job /\ ~Inbound(row)
  BY <1>5, BoundAssumption DEF Outbound, Inbound
<1>7. HandledIsReplied'
  BY <1>1, <1>5, <1>6 DEF HandledIsReplied, Inbound
<1>8. SentIsPersisted' /\ UntriedIsUnseen'
  BY <1>1 DEF SentIsPersisted, InboundOf, UntriedIsUnseen, Outbound
<1>9. RunSoFar'
  BY <1>1, <1>2, <1>3 DEF RunSoFar, Outbound
<1>10. QuestionInPrompt'
  BY <1>1, <1>2, <1>3 DEF QuestionInPrompt, Working, InboundOf
<1>11. QED
  BY <1>4, <1>7, <1>8, <1>9, <1>10

\* A call that fails before it takes effect ends the run with nothing written.
LEMMA FailedCallKeepsInv ==
  ASSUME Inv, Queue!Inv', NEW w \in Worker, InsertConflicts(w) \/ CallFails(w)
  PROVE  Inv'
<1>1. Throw(w) /\ UNCHANGED <<tables, delivered>> /\ failures' \in Nat
  BY DEF InsertConflicts, CallFails, Failure, Inv, TypeOK
<1>2. QED
  BY <1>1, ThrowEndsRun, RunEndKeepsInv

\* A call that takes effect and whose answer is lost ends the run with its effect.
LEMMA AnswerLostKeepsInv ==
  ASSUME Inv, Queue!Inv', NEW w \in Worker, AnswerLost(w)
  PROVE  Inv'
<1> USE DEF Inv
<1>1. Throw(w) /\ failures' \in Nat
  BY DEF AnswerLost, Failure, TypeOK
<1>2. /\ EndRun(w) /\ pc[w] = "working" /\ pc'[w] # "working"
      /\ \A v \in Worker \ {w} : pc'[v] = pc[v] /\ current'[v] = current[v]
      /\ UNCHANGED <<sent, tries, handled>>
  BY <1>1, ThrowEndsRun
<1>3. /\ step' \in [Worker -> Calls] /\ turns' \in [Worker -> SUBSET Message]
      /\ sentId' \in [Worker -> Ids]
      /\ \A v \in Worker : step'[v] # "none" <=> pc'[v] = "working"
      /\ \A v \in Worker \ {w} : step'[v] = step[v] /\ turns'[v] = turns[v]
  BY <1>2, EndedRun
<1>4. CASE Working(w, "send") /\ Deliver(w) /\ UNCHANGED tables
  <2>1. delivered' \in [Queue!Delivery -> Nat]
    BY <1>4, AtWork DEF Deliver, Working, TypeOK
  <2>2. TypeOK'
    BY <1>1, <1>3, <1>4, <2>1 DEF TypeOK, tables, Queue!Inv
  <2>3. Local'
    BY <1>2, <1>3, <1>4, DeliverKeepsLocal DEF tables
  <2>4. QED
    BY <2>2, <2>3 DEF Local
<1>5. CASE /\ Working(w, "insert") /\ rows' = rows \cup {OutboundRow(w)}
           /\ clock' = clock + 1 /\ UNCHANGED <<begun, original, lastMessageAt, delivered>>
  <2>1. Local' /\ rows' \subseteq Message
    BY <1>2, <1>3, <1>5, InsertKeepsLocal
  <2>2. TypeOK'
    BY <1>1, <1>3, <1>5, <2>1 DEF TypeOK, Queue!Inv
  <2>3. QED
    BY <2>1, <2>2 DEF Local
<1>6. CASE Touch(w)
  <2>1. UNCHANGED <<clock, begun, original, rows, delivered>>
        /\ lastMessageAt' = [lastMessageAt EXCEPT ![ThreadOf(current[w].job)] = clock]
    BY <1>6 DEF Touch
  <2>2. TypeOK'
    BY <1>1, <1>3, <2>1 DEF TypeOK, Queue!Inv
  <2>3. Local'
    BY <1>2, <1>3, <2>1, QuietKeepsLocal
  <2>4. QED
    BY <2>2, <2>3 DEF Local
<1>7. QED
  BY <1>4, <1>5, <1>6 DEF AnswerLost

\* The queue's steps around the runs.
LEMMA AroundKeepsInv ==
  ASSUME Inv, Queue!Inv', NEW w \in Worker, Loop(w) \/ Start(w) \/ Disturb(w)
  PROVE  Inv'
<1> USE DEF Inv
<1>1. UNCHANGED run /\ Elsewhere
  BY DEF Loop, Start, Disturb
<1>2. UNCHANGED <<sent, tries, handled>>
  BY DEF Loop, Start, Disturb, Queue!Poll, Queue!ReceiveNothing, Queue!BackoffEnds,
     Queue!Delete, Queue!Receive, Queue!Start, Queue!ReceiveFails, Queue!DeleteFails,
     Queue!ReceiveAnswerLost, Queue!Sigterm, Queue!queue
<1>3. \A v \in Worker : /\ pc'[v] = "working" <=> pc[v] = "working"
                        /\ pc'[v] = "working" => current'[v] = current[v]
  <2>1. CASE Queue!Sigterm(w)
    BY <2>1 DEF Queue!Sigterm
  <2>2. CASE Queue!Delete(w) \/ Queue!DeleteFails(w)
    BY <2>2 DEF Queue!Delete, Queue!DeleteFails, Queue!NextDelivery, Queue!Goto, TypeOK, Queue!TypeOK
  <2>3. QED
    BY <2>1, <2>2 DEF Loop, Start, Disturb, Queue!Poll, Queue!ReceiveNothing, Queue!BackoffEnds,
       Queue!Receive, Queue!Start, Queue!ReceiveFails, Queue!ReceiveAnswerLost, Queue!Goto,
       TypeOK, Queue!TypeOK
<1>4. TypeOK'
  BY <1>1, <1>3 DEF TypeOK, run, Elsewhere, tables, Queue!Inv
<1>5. Local'
  BY <1>1, <1>2, <1>3, QuietKeepsLocal DEF run, Elsewhere, tables
<1>6. QED
  BY <1>4, <1>5 DEF Local

\* A worker that exits or crashes drops its run where it was.
LEMMA StopKeepsInv ==
  ASSUME Inv, Queue!Inv', NEW w \in Worker, Exit(w) \/ Crash(w)
  PROVE  Inv'
<1>1. EndRun(w) /\ UNCHANGED <<tables, delivered>> /\ failures' \in Nat /\ Queue!Vanish(w)
  BY DEF Exit, Crash, Queue!Exit, Queue!Crash, Elsewhere, Inv, TypeOK
<1>2. /\ pc'[w] # "working" /\ UNCHANGED <<sent, tries, handled>>
      /\ \A v \in Worker \ {w} : pc'[v] = pc[v] /\ current'[v] = current[v]
  BY <1>1 DEF Queue!Vanish, Queue!Goto, Queue!queue, Inv, TypeOK, Queue!TypeOK
<1>3. QED
  BY <1>1, <1>2, RunEndKeepsInv

\* SQS's own steps: visibility timeouts and redrives.
LEMMA SqsStepKeepsInv ==
  ASSUME Inv, Queue!Inv', NEW j \in Job, Expire(j) \/ Redrive(j)
  PROVE  Inv'
<1> USE DEF Inv
<1>1. UNCHANGED <<sent, tries, handled, pc, current, run, tables, delivered, failures>>
  BY DEF Expire, Redrive, Queue!Expire, Queue!Redrive, Elsewhere
<1>2. TypeOK'
  BY <1>1 DEF TypeOK, run, tables, Queue!Inv
<1>3. Local'
  BY <1>1, QuietKeepsLocal DEF run, tables
<1>4. QED
  BY <1>2, <1>3 DEF Local

\* Every step of the pipeline keeps the invariant.
LEMMA InvStep == Inv /\ [Next]_vars => Inv'
<1> SUFFICES ASSUME Inv, [Next]_vars PROVE Inv'
  OBVIOUS
<1>1. Queue!Inv'
  BY QueueInvStep DEF Inv
<1>2. CASE \E j \in Job : \/ BeginInbound(j) \/ CommitInbound(j) \/ Enqueue(j) \/ Resend(j)
                          \/ Expire(j) \/ Redrive(j)
  BY <1>1, <1>2, WebhookStepKeepsInv, SqsStepKeepsInv
<1>3. CASE \E w \in Worker : Process(w)
  BY <1>1, <1>3, CallHandlerKeepsInv, BuildHistoryKeepsInv, GenerateReplyKeepsInv, SendTextKeepsInv,
     InsertOutboundKeepsInv, FailedCallKeepsInv, TouchConversationKeepsInv DEF Process
<1>4. CASE \E w \in Worker : \/ CallFails(w) \/ AnswerLost(w)
                            \/ Loop(w) \/ Start(w) \/ Disturb(w) \/ Exit(w) \/ Crash(w)
  BY <1>1, <1>4, FailedCallKeepsInv, AnswerLostKeepsInv, AroundKeepsInv, StopKeepsInv
<1>5. CASE UNCHANGED vars
  <2>1. UNCHANGED <<sent, tries, handled, pc, current, run, tables, delivered, failures>>
    BY <1>5 DEF vars, queueVars
  <2>2. TypeOK'
    BY <1>1, <2>1 DEF Inv, TypeOK, run, tables, Queue!Inv
  <2>3. Local'
    BY <2>1, QuietKeepsLocal DEF run, tables
  <2>4. QED
    BY <1>1, <2>2, <2>3 DEF Inv, Local
<1>6. QED
  BY <1>2, <1>3, <1>4, <1>5 DEF Next

-----------------------------------------------------------------------------
\* The inductive invariant holds in every reachable state of the pipeline.
THEOREM InvHolds == Spec => []Inv
BY InvInit, InvStep, PTL DEF Spec

\* Type correctness of the pipeline.
THEOREM TypeCorrect == Spec => []TypeOK
BY InvHolds, PTL DEF Inv

\* A receive of a job brings the customer one reply at most.
THEOREM OneReplyPerReceiveHolds == Spec => []OneReplyPerReceive
<1>1. Inv => OneReplyPerReceive
  BY DEF Inv, UntriedIsUnseen, OneReplyPerReceive, Queue!Inv, Queue!TypeOK,
     Queue!OneTryPerReceive, TypeOK
<1>2. QED
  BY <1>1, InvHolds, PTL

\* No outbound row without its reply: sendText comes before recordOutbound.
THEOREM RecordedIsDeliveredHolds == Spec => []RecordedIsDelivered
<1>1. Inv => RecordedIsDelivered
  BY DEF Inv, UntriedIsUnseen, RecordedIsDelivered
<1>2. QED
  BY <1>1, InvHolds, PTL

\* A job whose handler has succeeded has its reply in the conversation.
THEOREM HandledIsRepliedHolds == Spec => []HandledIsReplied
BY InvHolds, PTL DEF Inv

-----------------------------------------------------------------------------
(* The pipeline implements module ReplyService.                            *)

absVars == <<acceptedOf, delivered, recordedOf, handled>>

\* A step that leaves rows, replies, sent and handled jobs alone is invisible.
LEMMA InvisibleStep ==
  UNCHANGED <<original, sent, rows, delivered, handled>> => UNCHANGED absVars
BY DEF absVars, acceptedOf, recordedOf, InboundOf, IsCopy, Inbound, Outbound

\* The delivery of a reply, whoever learns of it, is a step of the service.
LEMMA DeliverReplies ==
  ASSUME Inv, NEW w \in Worker, Working(w, "send"), Deliver(w),
         UNCHANGED <<original, sent, rows, handled>>
  PROVE  Abs!Next
<1> DEFINE d == current[w]
<1>1. d \in Queue!Delivery /\ d.job \in Job /\ d.job \in sent /\ delivered[d] = 0
      /\ delivered' = [delivered EXCEPT ![d] = @ + 1]
  BY AtWork DEF Inv, Working, RunSoFar, Deliver
<1> HIDE DEF d
<1>2. d.job \in acceptedOf
  BY <1>1 DEF Inv, SentIsPersisted, acceptedOf
<1>3. acceptedOf' = acceptedOf /\ recordedOf' = recordedOf
  BY DEF acceptedOf, recordedOf, InboundOf, IsCopy, Inbound, Outbound
<1>4. Abs!Reply(d)
  BY <1>1, <1>2, <1>3 DEF Abs!Reply
<1>5. QED
  BY <1>1, <1>4 DEF Abs!Next

\* The insert of the outbound row, whoever learns of it, is a step of the service.
LEMMA InsertRecords ==
  ASSUME Inv, NEW w \in Worker, Working(w, "insert"), rows' = rows \cup {OutboundRow(w)},
         UNCHANGED <<original, sent, delivered, handled>>
  PROVE  Abs!Next
<1> DEFINE d == current[w]
           row == OutboundRow(w)
<1>1. d \in Queue!Delivery /\ d.receipt \in 1..MaxReceive /\ delivered[d] = 1 /\ Outbound(d) = {}
  BY AtWork DEF Inv, Working, RunSoFar
<1>2. row.job = d.job /\ row.receive = d.receipt /\ rows' = rows \cup {row}
  BY DEF OutboundRow
<1> HIDE DEF d, row
<1>3. acceptedOf' = acceptedOf
  BY <1>1, <1>2, BoundAssumption DEF acceptedOf, InboundOf, IsCopy, Inbound
<1>4. \A e \in Queue!Delivery : row \in Outbound(e)' <=> e = d
  BY <1>1, <1>2 DEF Outbound, Queue!Delivery
<1>5. \A e \in Queue!Delivery : Outbound(e)' = IF e = d THEN {row} ELSE Outbound(e)
  BY <1>1, <1>2, <1>4 DEF Outbound
<1>6. recordedOf' = recordedOf \cup {d} /\ d \notin recordedOf
  BY <1>1, <1>5 DEF recordedOf
<1>7. Abs!Record(d)
  BY <1>1, <1>3, <1>6 DEF Abs!Record
<1>8. QED
  BY <1>1, <1>7 DEF Abs!Next

\* The last step of a run closes its job, unless an earlier run has.
LEMMA TouchCloses ==
  ASSUME Inv, NEW w \in Worker, TouchConversation(w)
  PROVE  [Abs!Next]_absVars
<1>1. /\ Working(w, "touch") /\ UNCHANGED <<original, sent, rows, delivered>>
      /\ handled' = handled \cup {current[w].job}
  BY DEF TouchConversation, Touch, Queue!HandlerSucceeds, Queue!queue
<1>2. PICK d \in Queue!Delivery : d = current[w] /\ d.job \in Job /\ Outbound(d) # {}
  BY <1>1, AtWork DEF Inv, Working, RunSoFar
<1>3. acceptedOf' = acceptedOf /\ recordedOf' = recordedOf
  BY <1>1 DEF acceptedOf, recordedOf, InboundOf, IsCopy, Inbound, Outbound
<1>4. CASE d.job \in handled
  BY <1>1, <1>2, <1>3, <1>4 DEF absVars
<1>5. CASE d.job \notin handled
  <2>1. d \in recordedOf
    BY <1>2 DEF recordedOf
  <2>2. Abs!Close(d.job)
    BY <1>1, <1>2, <1>3, <1>5, <2>1 DEF Abs!Close
  <2>3. QED
    BY <1>2, <2>2 DEF Abs!Next
<1>6. QED
  BY <1>4, <1>5

\* The commit of the webhook accepts the message.
LEMMA CommitAccepts ==
  ASSUME Inv, NEW j \in Job, CommitInbound(j)
  PROVE  Abs!Next
<1> DEFINE row == [job |-> j, receive |-> 0, createdAt |-> begun[j], waMessageId |-> "id"]
<1>1. /\ rows' = rows \cup {row} /\ InboundOf(j) = {} /\ ~IsCopy(j)
      /\ UNCHANGED <<original, sent, delivered, handled>>
  BY DEF CommitInbound, queueVars
<1>2. row.job = j /\ row.receive = 0
  OBVIOUS
<1> HIDE DEF row
<1>3. acceptedOf' = acceptedOf \cup {j} /\ j \notin acceptedOf
  <2>1. InboundOf(j)' # {}
    BY <1>1, <1>2 DEF InboundOf, IsCopy, Inbound
  <2>2. \A i \in Job : original[i] # j => InboundOf(i)' = InboundOf(i)
    BY <1>1, <1>2 DEF InboundOf, Inbound
  <2>3. \A i \in Job : original[i] = j => InboundOf(i) = InboundOf(j)
    BY <1>1 DEF InboundOf, IsCopy
  <2>4. \A i \in Job : original[i] = j /\ i # j => i \notin sent /\ IsCopy(i)
    BY <1>1, <2>3 DEF Inv, SentIsPersisted, IsCopy
  <2>5. j \notin acceptedOf /\ j \in acceptedOf'
    BY <1>1, <2>1 DEF acceptedOf, IsCopy
  <2>6. \A i \in Job \ {j} : i \in acceptedOf' <=> i \in acceptedOf
    BY <1>1, <2>2, <2>4 DEF acceptedOf, IsCopy
  <2>7. QED
    BY <2>5, <2>6 DEF acceptedOf
<1>4. recordedOf' = recordedOf
  <2>1. \A d \in Queue!Delivery : Outbound(d)' = Outbound(d)
    BY <1>1, <1>2 DEF Outbound, Queue!Delivery
  <2>2. QED
    BY <2>1 DEF recordedOf
<1>5. Abs!Accept(j)
  BY <1>1, <1>3, <1>4 DEF Abs!Accept
<1>6. QED
  BY <1>5 DEF Abs!Next

\* A send leaves the service alone, and a repeated one gives its message one more job.
LEMMA SendAccepts ==
  ASSUME Inv, NEW j \in Job, Enqueue(j) \/ Resend(j)
  PROVE  [Abs!Next]_absVars
<1>1. /\ sent' = sent \cup {j} /\ j \notin sent /\ InboundOf(j) # {}
      /\ UNCHANGED <<original, rows, delivered, handled>>
  BY CopyIsPersisted DEF Enqueue, Resend, Queue!Send, tables, Inv
<1>2. recordedOf' = recordedOf /\ acceptedOf' = acceptedOf \cup {j}
  BY <1>1 DEF recordedOf, acceptedOf, InboundOf, IsCopy, Inbound, Outbound
<1>3. CASE Enqueue(j)
  BY <1>1, <1>2, <1>3 DEF Enqueue, acceptedOf, absVars
<1>4. CASE Resend(j)
  <2>1. j \notin acceptedOf
    BY <1>1, <1>4 DEF Resend, acceptedOf
  <2>2. Abs!Accept(j)
    BY <1>1, <1>2, <2>1 DEF Abs!Accept
  <2>3. QED
    BY <2>2 DEF Abs!Next
<1>5. QED
  BY <1>3, <1>4

\* Each step of the pipeline is a step of the service or leaves it alone.
LEMMA ServiceStep == Inv /\ [Next]_vars => [Abs!Next]_absVars
<1> SUFFICES ASSUME Inv, [Next]_vars PROVE [Abs!Next]_absVars
  OBVIOUS
<1>1. ASSUME NEW j \in Job, \/ BeginInbound(j) \/ CommitInbound(j) \/ Enqueue(j) \/ Resend(j)
                            \/ Expire(j) \/ Redrive(j)
      PROVE  [Abs!Next]_absVars
  <2>1. CASE CommitInbound(j) \/ Enqueue(j) \/ Resend(j)
    BY <2>1, CommitAccepts, SendAccepts
  <2>2. CASE BeginInbound(j) \/ Expire(j) \/ Redrive(j)
    <3>1. UNCHANGED <<original, sent, rows, delivered, handled>>
      BY <2>2 DEF BeginInbound, Expire, Redrive, Elsewhere, Queue!Expire, Queue!Redrive,
         tables, queueVars
    <3>2. QED
      BY <3>1, InvisibleStep
  <2>3. QED
    BY <1>1, <2>1, <2>2
<1>2. ASSUME NEW w \in Worker, Process(w) PROVE [Abs!Next]_absVars
  <2>1. CASE SendText(w)
    BY <2>1, DeliverReplies DEF SendText, queueVars, tables
  <2>2. CASE InsertOutbound(w)
    BY <2>2, InsertRecords DEF InsertOutbound, queueVars
  <2>3. CASE TouchConversation(w)
    BY <2>3, TouchCloses
  <2>4. CASE CallHandler(w) \/ BuildHistory(w) \/ GenerateReply(w) \/ InsertConflicts(w)
    <3>1. UNCHANGED <<original, sent, rows, delivered, handled>>
      BY <2>4 DEF CallHandler, BuildHistory, GenerateReply, InsertConflicts, Throw,
         Queue!Handle, Queue!HandlerFails, Queue!queue, tables, queueVars
    <3>2. QED
      BY <3>1, InvisibleStep
  <2>5. QED
    BY <1>2, <2>1, <2>2, <2>3, <2>4 DEF Process
<1>3. ASSUME NEW w \in Worker, AnswerLost(w) PROVE [Abs!Next]_absVars
  <2>1. handled' = handled /\ sent' = sent
    BY <1>3 DEF AnswerLost, Throw, Queue!HandlerFails, Queue!queue
  <2>2. CASE Touch(w)
    BY <2>1, <2>2, InvisibleStep DEF Touch
  <2>3. QED
    BY <1>3, <2>1, <2>2, DeliverReplies, InsertRecords DEF AnswerLost, tables
<1>4. ASSUME NEW w \in Worker,
             CallFails(w) \/ Loop(w) \/ Start(w) \/ Disturb(w) \/ Exit(w) \/ Crash(w)
      PROVE  UNCHANGED absVars
  <2>1. UNCHANGED <<original, sent, rows, delivered, handled>>
    BY <1>4 DEF CallFails, Throw, Loop, Start, Disturb, Exit, Crash, Elsewhere, Queue!HandlerFails,
       Queue!Poll, Queue!ReceiveNothing, Queue!BackoffEnds, Queue!Delete, Queue!Receive,
       Queue!Start, Queue!ReceiveFails, Queue!ReceiveAnswerLost, Queue!DeleteFails,
       Queue!Sigterm, Queue!Exit, Queue!Crash, Queue!Vanish, Queue!queue, tables
  <2>2. QED
    BY <2>1, InvisibleStep
<1>5. CASE UNCHANGED vars
  <2>1. UNCHANGED <<original, sent, rows, delivered, handled>>
    BY <1>5 DEF vars, tables, queueVars
  <2>2. QED
    BY <2>1, InvisibleStep
<1>6. QED
  BY <1>1, <1>2, <1>3, <1>4, <1>5 DEF Next

\* Every behaviour of the pipeline is one of the service.
THEOREM PipelineImplementsService == Spec => ImplementsService
<1>1. Init => Abs!Init
  BY DEF Init, Queue!Init, Abs!Init, acceptedOf, recordedOf, InboundOf, Outbound
<1>2. Inv /\ [Next]_vars => [Abs!Next]_absVars
  BY ServiceStep
<1>3. QED
  BY <1>1, <1>2, InvHolds, PTL DEF Spec, ImplementsService, Abs!Spec, absVars

\* The LLM is always asked with the message of the job in its prompt.
THEOREM QuestionInPromptHolds == Spec => []QuestionInPrompt
BY InvHolds, PTL DEF Inv

=============================================================================
