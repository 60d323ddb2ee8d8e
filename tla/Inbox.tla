------------------------------- MODULE Inbox -------------------------------
(***************************************************************************)
(* What POST /webhook promises about a message, whatever the interleaving  *)
(* of requests and whatever fails: it is accepted once, it is queued only  *)
(* by the request that accepted it, and the webhook is answered 200 only   *)
(* for accepted messages.  It does not promise that every accepted message *)
(* gets a job: a message is stranded when the request that accepted it     *)
(* ends before a job is sent, and nothing queues it afterwards.            *)
(***************************************************************************)
CONSTANT Key        \* keys (tenant, wam id) of inbound messages

VARIABLES
  stage,            \* where each message is
  answered          \* keys of the messages whose webhook was answered 200

Stage == {"unseen", "accepted", "queued", "stranded"}

InboxTypeOK == stage \in [Key -> Stage] /\ answered \subseteq Key

Init == stage = [k \in Key |-> "unseen"] /\ answered = {}

\* The keys in K, all of them in stage "from", move on to stage "to".
Move(K, from, to) ==
  /\ K # {}
  /\ \A k \in K : stage[k] = from
  /\ stage' = [k \in Key |-> IF k \in K THEN to ELSE stage[k]]
  /\ UNCHANGED answered

Accept(k)  == Move({k}, "unseen", "accepted")
Queue(k)   == Move({k}, "accepted", "queued")
Strand(K)  == Move(K, "accepted", "stranded")
\* The message was accepted but the request never learnt it.
Mislay(k)  == Move({k}, "unseen", "stranded")

Answer(K) ==
  /\ \A k \in K : stage[k] # "unseen"
  /\ answered' = answered \cup K
  /\ UNCHANGED stage

Next ==
  \/ \E k \in Key : Accept(k) \/ Queue(k) \/ Mislay(k)
  \/ \E K \in SUBSET Key : Strand(K) \/ Answer(K)

Spec == Init /\ [][Next]_<<stage, answered>>

=============================================================================
