--------------------------- MODULE JobQueueProofs ---------------------------
(***************************************************************************)
(* What module JobQueue guarantees for every number of jobs and workers,   *)
(* every maxReceiveCount and batch size and any number of faults.          *)
(***************************************************************************)
EXTENDS JobQueue, TLAPS

\* A delivery waiting in a batch is the receive of a sent job, has not been tried,
\* and waits in one worker only.
BatchesFresh ==
  /\ \A w \in Worker : \A d \in batch[w] :
       d.job \in sent /\ d.receipt <= receives[d.job] /\ tries[d] = 0
  /\ \A v, w \in Worker : v # w => batch[v] \cap batch[w] = {}

\* The delivery at hand is of a sent job, and before it is deleted it was handled.
AtHand ==
  \A w \in Worker : /\ pc[w] = "working" => current[w].job \in sent
                    /\ pc[w] = "delete" => current[w].job \in handled

\* A run of the handler has its delivery for itself.
RunIsAlone ==
  /\ \A w \in Worker : pc[w] = "working" => tries[current[w]] = 1
  /\ \A v, w \in Worker : v # w /\ pc[v] = "working" /\ pc[w] = "working" => current[v] # current[w]

\* The inductive invariant.
Inv == TypeOK /\ NoJobLost /\ OneTryPerReceive /\ BatchesFresh /\ AtHand /\ RunIsAlone

-----------------------------------------------------------------------------
\* An empty queue and idle workers satisfy the invariant.
LEMMA InvInit == Init => Inv
BY BoundAssumption DEF Init, Inv, TypeOK, Steps, NoJobLost, Done, OneTryPerReceive,
   BatchesFresh, AtHand, RunIsAlone, Delivery

\* The steps of SQS.
LEMMA QueueStepKeepsInv ==
  ASSUME Inv, NEW j \in Job, Send(j) \/ Expire(j) \/ Redrive(j)
  PROVE  Inv'
<1> USE DEF Inv
<1>1. CASE Send(j)
  BY <1>1 DEF Send, TypeOK, NoJobLost, Done, OneTryPerReceive, BatchesFresh, AtHand, RunIsAlone
<1>2. CASE Expire(j)
  BY <1>2 DEF Expire, TypeOK, NoJobLost, Done, OneTryPerReceive, BatchesFresh, AtHand, RunIsAlone
<1>3. CASE Redrive(j)
  BY <1>3 DEF Redrive, TypeOK, NoJobLost, Done, OneTryPerReceive, BatchesFresh, AtHand, RunIsAlone
<1>4. QED
  BY <1>1, <1>2, <1>3

\* A step of w that only moves its program counter, to a step with nothing at hand
\* unless it stays there.
LEMMA MoveKeepsInv ==
  ASSUME Inv, NEW w \in Worker, NEW step \in Steps \ {"working", "delete"}, Goto(w, step),
         running' \in [Worker -> BOOLEAN], faults' \in Nat, UNCHANGED <<queue, tries, handled>>,
         batch' = batch \/ batch' = [batch EXCEPT ![w] = {}],
         current' = current \/ current' = [current EXCEPT ![w] = NoDelivery]
  PROVE  Inv'
<1> USE DEF Inv, queue
<1>1. batch' \in [Worker -> SUBSET Delivery] /\ \A v \in Worker : batch'[v] \subseteq batch[v]
  BY DEF TypeOK
<1>2. current' \in [Worker -> Delivery \cup {NoDelivery}]
      /\ \A v \in Worker \ {w} : current'[v] = current[v]
  BY DEF TypeOK
<1>3. pc' \in [Worker -> Steps] /\ pc'[w] = step /\ \A v \in Worker \ {w} : pc'[v] = pc[v]
  BY DEF TypeOK, Goto
<1>4. \A v \in Worker : pc'[v] \in {"working", "delete"} => v # w
  BY <1>3
<1>5. TypeOK'
  BY <1>1, <1>2, <1>3, <1>4 DEF TypeOK
<1>6. NoJobLost' /\ OneTryPerReceive'
  BY DEF NoJobLost, Done, OneTryPerReceive
<1>7. BatchesFresh'
  BY <1>1 DEF BatchesFresh
<1>8. AtHand' /\ RunIsAlone'
  BY <1>2, <1>3, <1>4 DEF AtHand, RunIsAlone
<1>9. QED
  BY <1>5, <1>6, <1>7, <1>8

\* ReceiveMessage counts a receive of each message it hands out, and hides it.
LEMMA HandOutFacts ==
  ASSUME TypeOK, NEW S \in SUBSET Job, HandOut(S)
  PROVE  /\ receives' \in [Job -> 0..MaxReceive]
         /\ \A j \in Job : /\ receives[j] \in Nat /\ receives'[j] \in Nat
                           /\ receives'[j] = IF j \in S THEN receives[j] + 1 ELSE receives[j]
<1>1. /\ \A j \in S : receives[j] < MaxReceive
      /\ receives' = [j \in Job |-> IF j \in S THEN receives[j] + 1 ELSE receives[j]]
  BY DEF HandOut
<1>2. \A j \in Job : /\ receives[j] \in 0..MaxReceive /\ receives'[j] \in Nat
                     /\ receives'[j] = IF j \in S THEN receives[j] + 1 ELSE receives[j]
  BY <1>1 DEF TypeOK
<1>3. receives' \in [Job -> 0..MaxReceive]
  BY <1>1, <1>2, BoundAssumption
<1>4. QED
  BY <1>2, <1>3, BoundAssumption

\* A receive that nobody learns of costs the jobs a receive, and nothing else.
LEMMA ReceiveAnswerLostKeepsInv ==
  ASSUME Inv, NEW w \in Worker, NEW S \in SUBSET Job, ReceiveAnswerLost(w, S)
  PROVE  Inv'
<1> USE DEF Inv
<1>1. /\ S \subseteq stored \ hidden /\ hidden' = hidden \cup S
      /\ UNCHANGED <<sent, stored, dead, tries, handled, running, batch, current>>
      /\ faults' \in Nat
  BY DEF ReceiveAnswerLost, HandOut, Fault, TypeOK
<1>2. /\ receives' \in [Job -> 0..MaxReceive]
      /\ \A j \in Job : receives[j] \in Nat /\ receives'[j] \in Nat /\ receives[j] <= receives'[j]
  BY HandOutFacts DEF ReceiveAnswerLost
<1>3. /\ pc' \in [Worker -> Steps]
      /\ \A v \in Worker : pc'[v] \in {"working", "delete"} => pc'[v] = pc[v]
  BY DEF ReceiveAnswerLost, Goto, Steps, TypeOK
<1>4. TypeOK'
  BY <1>1, <1>2, <1>3 DEF TypeOK
<1>5. NoJobLost'
  BY <1>1 DEF NoJobLost, Done
<1>6. \A d \in Delivery : d.receipt <= receives[d.job] => d.receipt <= receives'[d.job]
  <2> SUFFICES ASSUME NEW d \in Delivery, d.receipt <= receives[d.job]
               PROVE  d.receipt <= receives'[d.job]
    OBVIOUS
  <2>1. d.job \in Job /\ d.receipt \in Nat
    BY BoundAssumption DEF Delivery
  <2>2. QED
    BY <1>2, <2>1
<1>7. OneTryPerReceive' /\ BatchesFresh'
  BY <1>1, <1>6 DEF OneTryPerReceive, BatchesFresh, TypeOK
<1>8. AtHand' /\ RunIsAlone'
  BY <1>1, <1>3 DEF AtHand, RunIsAlone
<1>9. QED
  BY <1>4, <1>5, <1>7, <1>8

\* ReceiveMessage counts a receive and locks each message it hands out.
LEMMA ReceiveKeepsInv ==
  ASSUME Inv, NEW w \in Worker, NEW S \in SUBSET Job, Receive(w, S)
  PROVE  Inv'
<1> DEFINE new == {[job |-> j, receipt |-> receives[j] + 1] : j \in S}
<1> USE DEF Inv
<1>1. /\ S \subseteq stored \ hidden /\ \A j \in S : receives[j] < MaxReceive
      /\ hidden' = hidden \cup S
      /\ receives' = [j \in Job |-> IF j \in S THEN receives[j] + 1 ELSE receives[j]]
      /\ batch' = [batch EXCEPT ![w] = new]
      /\ UNCHANGED <<sent, stored, dead, tries, handled, running, current, faults>>
      /\ Goto(w, "handle")
  BY DEF Receive, HandOut
<1>2. \A j \in Job : receives[j] \in 0..MaxReceive /\ receives'[j] \in Nat
                     /\ receives'[j] = IF j \in S THEN receives[j] + 1 ELSE receives[j]
  BY <1>1 DEF TypeOK
<1>3. receives' \in [Job -> 0..MaxReceive]
  BY <1>1, <1>2, BoundAssumption
<1>4. new \subseteq Delivery
  <2> SUFFICES ASSUME NEW j \in S PROVE [job |-> j, receipt |-> receives[j] + 1] \in Delivery
    OBVIOUS
  <2>1. receives[j] + 1 \in 1..MaxReceive
    BY <1>1, <1>2, BoundAssumption
  <2>2. QED
    BY <2>1 DEF Delivery
<1>5. \A d \in new : d.job \in S /\ d.receipt = receives[d.job] + 1
  OBVIOUS
<1> HIDE DEF new
<1>6. \A d \in new : tries[d] = 0
  <2> SUFFICES ASSUME NEW d \in new PROVE tries[d] = 0
    OBVIOUS
  <2>1. d \in Delivery /\ tries[d] \in Nat /\ receives[d.job] \in Nat
        /\ d.receipt = receives[d.job] + 1
    BY <1>2, <1>4, <1>5 DEF TypeOK
  <2>2. QED
    BY <2>1 DEF OneTryPerReceive
<1>7. \A v \in Worker \ {w} : batch'[v] = batch[v] /\ new \cap batch[v] = {}
  <2> SUFFICES ASSUME NEW v \in Worker \ {w}, NEW d \in new \cap batch[v] PROVE FALSE
    BY <1>1 DEF TypeOK
  <2>1. d.receipt <= receives[d.job] /\ d.receipt = receives[d.job] + 1
        /\ receives[d.job] \in Nat
    BY <1>2, <1>5 DEF BatchesFresh
  <2>2. QED
    BY <2>1
<1>8. batch'[w] = new
  BY <1>1 DEF TypeOK
<1>9. pc' \in [Worker -> Steps] /\ pc'[w] = "handle"
      /\ \A v \in Worker \ {w} : pc'[v] = pc[v]
  BY <1>1 DEF TypeOK, Goto, Steps
<1>10. TypeOK'
  <2>1. batch' \in [Worker -> SUBSET Delivery]
    BY <1>1, <1>4 DEF TypeOK
  <2>2. \A v \in Worker : pc'[v] \in {"working", "delete"} => current'[v] \in Delivery
    BY <1>1, <1>9 DEF TypeOK
  <2>3. hidden' \subseteq stored'
    BY <1>1 DEF TypeOK
  <2>4. QED
    BY <1>1, <1>3, <1>9, <2>1, <2>2, <2>3 DEF TypeOK
<1>11. NoJobLost'
  BY <1>1 DEF NoJobLost, Done
<1>12. OneTryPerReceive'
  <2> SUFFICES ASSUME NEW d \in Delivery
               PROVE  tries[d] <= 1 /\ (tries[d] = 1 => d.receipt <= receives'[d.job])
    BY <1>1 DEF OneTryPerReceive
  <2>1. d.job \in Job /\ d.receipt \in Nat
    BY DEF Delivery
  <2>2. QED
    BY <1>2, <2>1, BoundAssumption DEF OneTryPerReceive
<1>13. BatchesFresh'
  <2>1. ASSUME NEW v \in Worker, NEW d \in batch'[v]
        PROVE  d.job \in sent /\ d.receipt <= receives'[d.job] /\ tries[d] = 0
    <3>1. CASE v = w
      <4>1. d \in new /\ d.job \in S /\ d.receipt = receives[d.job] + 1
        BY <1>5, <1>8, <3>1
      <4>2. d.job \in Job /\ d.job \in sent
        BY <1>1, <4>1 DEF TypeOK
      <4>3. receives'[d.job] = d.receipt /\ d.receipt \in Nat
        BY <1>2, <4>1, <4>2
      <4>4. QED
        BY <1>6, <4>1, <4>2, <4>3
    <3>2. CASE v # w
      <4>1. d \in batch[v] /\ d \in Delivery
        BY <1>7, <3>2 DEF TypeOK
      <4>2. d.job \in Job /\ d.receipt \in Nat
        BY <4>1 DEF Delivery
      <4>3. QED
        BY <1>2, <4>1, <4>2, BoundAssumption DEF BatchesFresh
    <3>3. QED
      BY <3>1, <3>2
  <2>2. \A u, v \in Worker : u # v => batch'[u] \cap batch'[v] = {}
    BY <1>7, <1>8 DEF BatchesFresh
  <2>3. QED
    BY <1>1, <2>1, <2>2 DEF BatchesFresh
<1>14. AtHand' /\ RunIsAlone'
  BY <1>1, <1>9 DEF AtHand, RunIsAlone
<1>15. QED
  BY <1>10, <1>11, <1>12, <1>13, <1>14

\* A step of w that takes d out of its batch and calls the handler with it.
LEMMA HandleKeepsInv ==
  ASSUME Inv, NEW w \in Worker, Handle(w)
  PROVE  Inv'
<1> USE DEF Inv
<1>1. PICK d \in batch[w] : /\ batch' = [batch EXCEPT ![w] = @ \ {d}]
                            /\ current' = [current EXCEPT ![w] = d]
                            /\ tries' = [tries EXCEPT ![d] = @ + 1]
  BY DEF Handle
<1>2. /\ UNCHANGED <<sent, stored, hidden, dead, receives, handled, running, faults>>
      /\ Goto(w, "working")
  BY DEF Handle, queue
<1>3. d \in Delivery /\ d.job \in sent /\ d.receipt <= receives[d.job] /\ tries[d] = 0
  BY DEF TypeOK, BatchesFresh
<1>4. /\ tries' \in [Delivery -> Nat] /\ tries'[d] = 1
      /\ \A e \in Delivery \ {d} : tries'[e] = tries[e]
  BY <1>1, <1>3 DEF TypeOK
<1>5. /\ batch' \in [Worker -> SUBSET Delivery] /\ d \notin batch'[w]
      /\ \A v \in Worker : batch'[v] \subseteq batch[v]
      /\ \A v \in Worker \ {w} : d \notin batch'[v]
  BY <1>1 DEF TypeOK, BatchesFresh
<1>6. /\ pc' \in [Worker -> Steps] /\ pc'[w] = "working"
      /\ \A v \in Worker \ {w} : pc'[v] = pc[v]
  BY <1>2 DEF TypeOK, Goto, Steps
<1>7. /\ current' \in [Worker -> Delivery \cup {NoDelivery}] /\ current'[w] = d
      /\ \A v \in Worker \ {w} : current'[v] = current[v]
  BY <1>1, <1>3 DEF TypeOK
<1>8. TypeOK'
  BY <1>2, <1>3, <1>4, <1>5, <1>6, <1>7 DEF TypeOK
<1>9. NoJobLost'
  BY <1>2 DEF NoJobLost, Done
<1>10. OneTryPerReceive'
  BY <1>2, <1>3, <1>4 DEF OneTryPerReceive
<1>11. BatchesFresh'
  <2> SUFFICES ASSUME NEW v \in Worker, NEW e \in batch'[v]
               PROVE  e.job \in sent /\ e.receipt <= receives[e.job] /\ tries'[e] = 0
    BY <1>2, <1>5 DEF BatchesFresh
  <2>1. e \in batch[v] /\ e \in Delivery \ {d}
    BY <1>5 DEF TypeOK
  <2>2. QED
    BY <1>4, <2>1 DEF BatchesFresh
<1>12. AtHand'
  BY <1>2, <1>3, <1>6, <1>7 DEF AtHand
<1>13. RunIsAlone'
  <2>1. \A v \in Worker \ {w} : pc[v] = "working" => current[v] \in Delivery \ {d}
    BY <1>3 DEF TypeOK, RunIsAlone
  <2>2. QED
    BY <1>4, <1>6, <1>7, <2>1 DEF RunIsAlone
<1>14. QED
  BY <1>8, <1>9, <1>10, <1>11, <1>12, <1>13

\* The handler has done the job: it is recorded, and deleteMessage is next.
LEMMA HandlerSucceedsKeepsInv ==
  ASSUME Inv, NEW w \in Worker, HandlerSucceeds(w)
  PROVE  Inv'
<1> USE DEF Inv
<1>1. /\ pc[w] = "working" /\ handled' = handled \cup {current[w].job} /\ Goto(w, "delete")
      /\ UNCHANGED <<sent, stored, hidden, dead, receives, tries, running, batch, current, faults>>
  BY DEF HandlerSucceeds, queue
<1>2. current[w] \in Delivery /\ current[w].job \in sent
  BY <1>1 DEF TypeOK, AtHand
<1>3. /\ pc' \in [Worker -> Steps] /\ pc'[w] = "delete"
      /\ \A v \in Worker \ {w} : pc'[v] = pc[v]
  BY <1>1 DEF TypeOK, Goto, Steps
<1>4. TypeOK'
  BY <1>1, <1>2, <1>3 DEF TypeOK
<1>5. NoJobLost' /\ OneTryPerReceive' /\ BatchesFresh'
  BY <1>1 DEF NoJobLost, Done, OneTryPerReceive, BatchesFresh
<1>6. AtHand' /\ RunIsAlone'
  BY <1>1, <1>3 DEF AtHand, RunIsAlone
<1>7. QED
  BY <1>4, <1>5, <1>6

\* Going on to the rest of the batch leaves the handler idle: the worker polls or
\* takes its next delivery.
LEMMA NextDeliveryMoves ==
  ASSUME Inv, NEW w \in Worker, NextDelivery(w)
  PROVE  /\ \E step \in Steps \ {"working", "delete"} : Goto(w, step)
         /\ current' = [current EXCEPT ![w] = NoDelivery]
BY DEF NextDelivery, Steps

\* deleteMessage drops a job only after its handler has succeeded.
LEMMA DeleteKeepsInv ==
  ASSUME Inv, NEW w \in Worker, Delete(w)
  PROVE  Inv'
<1> USE DEF Inv
<1>1. /\ pc[w] = "delete" /\ NextDelivery(w)
      /\ UNCHANGED <<sent, dead, receives, tries, handled, running, batch, faults>>
  BY DEF Delete
<1>2. CASE UNCHANGED <<stored, hidden>>
  <2>1. UNCHANGED <<queue, tries, handled>> /\ running' \in [Worker -> BOOLEAN] /\ faults' \in Nat
    BY <1>1, <1>2 DEF queue, TypeOK
  <2>2. QED
    BY <1>1, <2>1, NextDeliveryMoves, MoveKeepsInv
<1>3. CASE stored' = stored \ {current[w].job} /\ hidden' = hidden \ {current[w].job}
  <2>1. current[w] \in Delivery /\ current[w].job \in handled
    BY <1>1 DEF TypeOK, AtHand
  <2>2. PICK step \in Steps \ {"working", "delete"} : Goto(w, step)
    BY <1>1, NextDeliveryMoves
  <2>3. /\ current' \in [Worker -> Delivery \cup {NoDelivery}]
        /\ \A v \in Worker \ {w} : current'[v] = current[v]
    BY <1>1 DEF NextDelivery, TypeOK
  <2>4. pc' \in [Worker -> Steps] /\ pc'[w] = step /\ \A v \in Worker \ {w} : pc'[v] = pc[v]
    BY <2>2 DEF TypeOK, Goto
  <2>5. TypeOK'
    BY <1>1, <1>3, <2>3, <2>4 DEF TypeOK
  <2>6. NoJobLost'
    BY <1>1, <1>3, <2>1 DEF NoJobLost, Done
  <2>7. OneTryPerReceive' /\ BatchesFresh'
    BY <1>1 DEF OneTryPerReceive, BatchesFresh
  <2>8. AtHand' /\ RunIsAlone'
    BY <1>1, <2>3, <2>4 DEF AtHand, RunIsAlone
  <2>9. QED
    BY <2>5, <2>6, <2>7, <2>8
<1>4. QED
  BY <1>2, <1>3 DEF Delete

\* The other steps of a worker leave the queue and the handler's record alone.
LEMMA QuietStepKeepsInv ==
  ASSUME Inv, NEW w \in Worker,
         \/ Start(w) \/ Poll(w) \/ ReceiveNothing(w) \/ ReceiveFails(w) \/ BackoffEnds(w)
         \/ HandlerFails(w) \/ DeleteFails(w) \/ Exit(w) \/ Crash(w)
  PROVE  Inv'
<1> USE DEF Inv
<1>1. {"loop", "waiting", "exited", "backoff", "handle", "down"} \subseteq Steps \ {"working", "delete"}
  BY DEF Steps
<1>2. CASE Start(w) \/ Poll(w) \/ ReceiveNothing(w) \/ BackoffEnds(w)
  <2>1. \E step \in Steps \ {"working", "delete"} : Goto(w, step)
    BY <1>1, <1>2 DEF Start, Poll, ReceiveNothing, BackoffEnds
  <2>2. /\ UNCHANGED <<queue, tries, handled>> /\ batch' = batch /\ current' = current
        /\ running' \in [Worker -> BOOLEAN] /\ faults' \in Nat
    BY <1>2 DEF Start, Poll, ReceiveNothing, BackoffEnds, TypeOK
  <2>3. QED
    BY <2>1, <2>2, MoveKeepsInv
<1>3. CASE ReceiveFails(w)
  <2>1. Goto(w, "backoff")
    BY <1>3 DEF ReceiveFails
  <2>2. /\ UNCHANGED <<queue, tries, handled>> /\ batch' = batch /\ current' = current
        /\ running' \in [Worker -> BOOLEAN] /\ faults' \in Nat
    BY <1>3 DEF ReceiveFails, Fault, TypeOK
  <2>3. QED
    BY <1>1, <2>1, <2>2, MoveKeepsInv
<1>4. CASE HandlerFails(w) \/ DeleteFails(w)
  <2>1. /\ NextDelivery(w) /\ UNCHANGED <<queue, tries, handled>> /\ batch' = batch
        /\ running' \in [Worker -> BOOLEAN] /\ faults' \in Nat
    BY <1>4 DEF HandlerFails, DeleteFails, Fault, TypeOK
  <2>2. QED
    BY <2>1, NextDeliveryMoves, MoveKeepsInv
<1>5. CASE Exit(w) \/ Crash(w)
  <2>1. /\ Goto(w, "down") /\ UNCHANGED <<queue, tries, handled>>
        /\ batch' = [batch EXCEPT ![w] = {}] /\ current' = [current EXCEPT ![w] = NoDelivery]
    BY <1>5 DEF Exit, Crash, Vanish
  <2>2. running' \in [Worker -> BOOLEAN]
    BY <1>5 DEF Exit, Crash, Vanish, TypeOK
  <2>3. faults' \in Nat
    BY <1>5 DEF Exit, Crash, Vanish, Fault, TypeOK
  <2>4. QED
    BY <1>1, <2>1, <2>2, <2>3, MoveKeepsInv
<1>6. QED
  BY <1>2, <1>3, <1>4, <1>5

\* stop() clears the flag that loop() tests, and nothing else.
LEMMA SigtermKeepsInv ==
  ASSUME Inv, NEW w \in Worker, Sigterm(w)
  PROVE  Inv'
BY DEF Inv, Sigterm, Fault, queue, TypeOK, NoJobLost, Done, OneTryPerReceive, BatchesFresh, AtHand, RunIsAlone

\* Every step of the queue and of its consumers keeps the invariant.
LEMMA InvStep == Inv /\ [Next]_vars => Inv'
<1> SUFFICES ASSUME Inv, [Next]_vars PROVE Inv'
  OBVIOUS
<1>1. CASE \E j \in Job : Send(j) \/ Expire(j) \/ Redrive(j)
  BY <1>1, QueueStepKeepsInv
<1>2. CASE \E w \in Worker : Start(w) \/ Loop(w) \/ Exit(w) \/ Disturb(w)
  <2>1. PICK w \in Worker : Start(w) \/ Loop(w) \/ Exit(w) \/ Disturb(w)
    BY <1>2
  <2>2. CASE \E S \in SUBSET Job : Receive(w, S)
    BY <2>2, ReceiveKeepsInv
  <2>3. CASE Handle(w)
    BY <2>3, HandleKeepsInv
  <2>4. CASE HandlerSucceeds(w)
    BY <2>4, HandlerSucceedsKeepsInv
  <2>5. CASE Delete(w)
    BY <2>5, DeleteKeepsInv
  <2>6. CASE Sigterm(w)
    BY <2>6, SigtermKeepsInv
  <2>7. CASE \E S \in SUBSET Job : ReceiveAnswerLost(w, S)
    BY <2>7, ReceiveAnswerLostKeepsInv
  <2>8. QED
    BY <2>1, <2>2, <2>3, <2>4, <2>5, <2>6, <2>7, QuietStepKeepsInv DEF Loop, Disturb
<1>3. CASE UNCHANGED vars
  BY <1>3 DEF vars, Inv, TypeOK, NoJobLost, Done, OneTryPerReceive, BatchesFresh, AtHand, RunIsAlone
<1>4. QED
  BY <1>1, <1>2, <1>3 DEF Next

-----------------------------------------------------------------------------
\* The inductive invariant holds in every reachable state of the queue and its
\* consumers.
THEOREM InvHolds == Spec => []Inv
BY InvInit, InvStep, PTL DEF Spec

\* Type correctness of the queue and its consumers.
THEOREM TypeCorrect == Spec => []TypeOK
BY InvHolds, PTL DEF Inv

\* No job leaves the queue, except for the DLQ, before a handler has succeeded for
\* it: deleteMessage follows the handler in handleMessage.
THEOREM NoJobLostHolds == Spec => []NoJobLost
BY InvHolds, PTL DEF Inv

\* A receive pays for one run of the handler at most.
THEOREM OneTryPerReceiveHolds == Spec => []OneTryPerReceive
BY InvHolds, PTL DEF Inv

-----------------------------------------------------------------------------
(* The queue with its consumers implements AtLeastOnce.                    *)

\* The initial states are those of module AtLeastOnce.
LEMMA AbsInit == Init => Abs!Init
BY DEF Init, Abs!Init, fateOf

\* Each step maps to a step of AtLeastOnce or leaves fate and handled as they are.
LEMMA AbsStep == Inv /\ [Next]_vars => [Abs!Next]_<<fateOf, handled>>
<1> SUFFICES ASSUME Inv, [Next]_vars PROVE [Abs!Next]_<<fateOf, handled>>
  OBVIOUS
<1> USE DEF Inv, Abs!Next
<1>1. CASE UNCHANGED <<sent, stored, dead, handled>>
  BY <1>1 DEF fateOf
<1>2. ASSUME NEW j \in Job, Send(j) PROVE Abs!Send(j)
  BY <1>2 DEF Send, Abs!Send, Abs!Become, fateOf, TypeOK
<1>3. ASSUME NEW j \in Job, Redrive(j) PROVE Abs!GiveUp(j)
  BY <1>3 DEF Redrive, Abs!GiveUp, Abs!Become, fateOf, TypeOK
<1>4. ASSUME NEW w \in Worker, HandlerSucceeds(w)
      PROVE  \E j \in Job : Abs!Handle(j)
  <2>1. current[w] \in Delivery /\ current[w].job \in sent
    BY <1>4 DEF HandlerSucceeds, TypeOK, AtHand
  <2>2. current[w].job \in Job
    BY <2>1 DEF TypeOK
  <2>3. Abs!Handle(current[w].job)
    BY <1>4, <2>1, <2>2 DEF HandlerSucceeds, queue, Abs!Handle, fateOf
  <2>4. QED
    BY <2>2, <2>3
<1>5. ASSUME NEW w \in Worker, Delete(w)
      PROVE  (\E j \in Job : Abs!Finish(j)) \/ UNCHANGED <<fateOf, handled>>
  <2>1. UNCHANGED <<sent, dead, handled>>
    BY <1>5 DEF Delete
  <2>2. CASE UNCHANGED stored
    BY <2>1, <2>2 DEF fateOf
  <2>3. CASE stored' = stored \ {current[w].job}
    <3>1. PICK j \in Job : j = current[w].job /\ j \in handled /\ j \in sent
      BY <1>5 DEF Delete, TypeOK, AtHand
    <3>2. CASE j \notin stored
      BY <2>1, <2>3, <3>1, <3>2 DEF fateOf
    <3>3. CASE j \in stored
      <4>1. fateOf[j] = "pending" /\ fateOf' = [fateOf EXCEPT ![j] = "done"]
        BY <2>1, <2>3, <3>1, <3>3 DEF fateOf, TypeOK
      <4>2. QED
        BY <2>1, <3>1, <4>1 DEF Abs!Finish, Abs!Become
    <3>4. QED
      BY <3>2, <3>3
  <2>4. QED
    BY <1>5, <2>2, <2>3 DEF Delete
<1>6. ASSUME NEW w \in Worker, Start(w) \/ Loop(w) \/ Exit(w) \/ Disturb(w),
             ~HandlerSucceeds(w), ~Delete(w)
      PROVE  UNCHANGED <<sent, stored, dead, handled>>
  BY <1>6 DEF Loop, Disturb, Start, Poll, Receive, ReceiveNothing, BackoffEnds, Handle,
     HandlerFails, ReceiveFails, ReceiveAnswerLost, DeleteFails, Sigterm, Crash, Exit, Vanish, queue
<1>7. ASSUME NEW j \in Job, Expire(j) PROVE UNCHANGED <<sent, stored, dead, handled>>
  BY <1>7 DEF Expire
<1>8. UNCHANGED vars => UNCHANGED <<sent, stored, dead, handled>>
  BY DEF vars
<1>9. QED
  BY <1>1, <1>2, <1>3, <1>4, <1>5, <1>6, <1>7, <1>8 DEF Next

\* Every behaviour of the queue with its consumers, projected on the fate of the
\* jobs, is one of AtLeastOnce.
THEOREM QueueImplementsAtLeastOnce == Spec => ImplementsAtLeastOnce
<1>1. Init => Abs!Init
  BY AbsInit
<1>2. Inv /\ [Next]_vars => [Abs!Next]_<<fateOf, handled>>
  BY AbsStep
<1>3. QED
  BY <1>1, <1>2, InvHolds, PTL DEF Spec, ImplementsAtLeastOnce, Abs!Spec

=============================================================================
