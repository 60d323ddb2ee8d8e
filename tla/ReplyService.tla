---------------------------- MODULE ReplyService ----------------------------
(***************************************************************************)
(* What a customer and the tenant's conversation may count on, whatever    *)
(* the queue, the worker and the providers do: a reply only to a message   *)
(* that is in the conversation, no more than one for each attempt of its   *)
(* job, a reply in the conversation only if the customer has it, and a job *)
(* given up as done only with a reply in the conversation.                 *)
(***************************************************************************)
EXTENDS Naturals

CONSTANTS
  Job,      \* jobs: one for each inbound message, and more if its send is repeated
  Attempt   \* [job, receipt]: the receives SQS allows for each job

VARIABLES
  accepted,  \* the jobs whose message is in the conversation
  replies,   \* per attempt: the replies the customer has got
  recorded,  \* the attempts whose reply is in the conversation
  closed     \* the jobs whose handler has returned

Init ==
  /\ accepted = {} /\ recorded = {} /\ closed = {}
  /\ replies = [a \in Attempt |-> 0]

Accept(j) ==
  /\ j \notin accepted
  /\ accepted' = accepted \cup {j}
  /\ UNCHANGED <<replies, recorded, closed>>

Reply(a) ==
  /\ a.job \in accepted /\ replies[a] = 0
  /\ replies' = [replies EXCEPT ![a] = 1]
  /\ UNCHANGED <<accepted, recorded, closed>>

Record(a) ==
  /\ replies[a] = 1 /\ a \notin recorded
  /\ recorded' = recorded \cup {a}
  /\ UNCHANGED <<accepted, replies, closed>>

Close(j) ==
  /\ j \notin closed /\ \E a \in recorded : a.job = j
  /\ closed' = closed \cup {j}
  /\ UNCHANGED <<accepted, replies, recorded>>

Next ==
  \/ \E j \in Job : Accept(j) \/ Close(j)
  \/ \E a \in Attempt : Reply(a) \/ Record(a)

Spec == Init /\ [][Next]_<<accepted, replies, recorded, closed>>
=============================================================================
