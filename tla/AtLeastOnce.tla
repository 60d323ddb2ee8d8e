---------------------------- MODULE AtLeastOnce ----------------------------
(***************************************************************************)
(* What the job queue and its consumers promise about a job that was sent: *)
(* it leaves the queue either handled successfully at least once, or to    *)
(* the dead-letter queue.  It may be handled again, even afterwards.       *)
(***************************************************************************)
CONSTANT Job

VARIABLES
  fate,             \* where each job is
  handled           \* jobs a handler has finished successfully, once or more

Fate == {"unsent", "pending", "done", "dead"}

AtLeastOnceTypeOK == fate \in [Job -> Fate] /\ handled \subseteq Job

Init == fate = [j \in Job |-> "unsent"] /\ handled = {}

Become(j, from, to) ==
  /\ fate[j] = from
  /\ fate' = [fate EXCEPT ![j] = to]
  /\ UNCHANGED handled

Send(j)   == Become(j, "unsent", "pending")
Finish(j) == j \in handled /\ Become(j, "pending", "done")
GiveUp(j) == Become(j, "pending", "dead")
Handle(j) == /\ fate[j] # "unsent"
             /\ handled' = handled \cup {j}
             /\ UNCHANGED fate

Next == \E j \in Job : Send(j) \/ Handle(j) \/ Finish(j) \/ GiveUp(j)

Spec == Init /\ [][Next]_<<fate, handled>>

=============================================================================
