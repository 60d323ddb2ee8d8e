--------------------------- MODULE MCReplyPipeline ---------------------------
(* Instances of ReplyPipeline for TLC.                                     *)
EXTENDS ReplyPipelineProofs, TLC

\* One customer, so that all jobs are about the same conversation.
MCConversationOf == [j \in Job |-> "thread"]

\* A token and META_MODE=auto, or a token that contains a placeholder.
Settings(token) == [META_TOKEN |-> token]
                     @@ [name \in Required \cup DOMAIN Default |->
                           IF name \in Required THEN "set" ELSE Absent]
MCReal      == Settings({"token"})
MCSimulated == Settings({"my", "mock-token"})

Symmetry == Permutations(Job) \cup Permutations(Worker)
=============================================================================
