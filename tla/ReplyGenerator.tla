--------------------------- MODULE ReplyGenerator ---------------------------
(***************************************************************************)
(* How a worker makes the text of a reply: InboundProcessor.generateReply  *)
(* retrieves the context from the knowledge base, which was loaded at the  *)
(* start, and asks the LLM provider llm.factory has chosen.  The OpenAI    *)
(* provider goes through rounds of tool calls, the simulated one answers   *)
(* from the question and the context; if either throws, the reply is       *)
(* FALLBACK_REPLY.  Module ReplyPipeline takes all this as one step.       *)
(*                                                                         *)
(* One action is one awaited call.  The model of OpenAI, which is          *)
(* external, answers as it likes.                                          *)
(***************************************************************************)
EXTENDS Rag, Environment

CONSTANTS
  Env,            \* environments a worker can start with
  ApiUrl,         \* where the API listens, seen from the worker
  KnowledgeBase,  \* contents of the directory: sequences of files
  Question,       \* user messages: their terms, and the protocol they hold, or Absent
  MaxToolRounds,  \* MAX_TOOL_ROUNDS
  TopK,           \* DEFAULT_TOP_K
  MaxCalls        \* bound: tool calls of one answer

ASSUME BoundAssumption == {MaxToolRounds, TopK, MaxCalls} \subseteq Nat /\ TopK > 0

\* A text has finitely many terms.
ASSUME TextAssumption ==
  /\ KnowledgeBase \subseteq Seq(File)
  /\ \A q \in Question : IsFiniteSet(q.terms)

\* A tool call: get_order_status with a protocol, get_order_status with arguments that
\* are no JSON or have no protocol, another function.
CallKinds == {"order", "unusable", "unknown"}

VARIABLES
  files, env,    \* the knowledge base, the environment of the worker
  chunks,        \* KnowledgeBaseService.chunks
  step, question, context,
  round, calls,  \* the round, its tool calls that have not run: [kind, id]
  messages,      \* the messages after the user's: [role, n]
  reply

vars == <<files, env, chunks, step, question, context, round, calls, messages, reply>>

Assistant(n) == [role |-> "assistant", n |-> n]  \* an answer with n tool calls
ToolMsg(id)  == [role |-> "tool", n |-> id]      \* the output of one, by tool_call_id

TypeOK ==
  /\ files \in KnowledgeBase /\ env \in Env
  /\ step \in {"load", "ready", "retrieve", "create", "tools", "simulate", "done"}
  /\ question \in Question
  /\ round \in 0..MaxToolRounds
  /\ calls \in Seq([kind : CallKinds, id : 1..MaxCalls])
  /\ calls # << >> <=> step = "tools"
  /\ messages \in Seq([role : {"assistant", "tool"}, n : 1..MaxCalls])
  /\ Len(messages) <= (MaxToolRounds + 1) * (MaxCalls + 1)
  /\ reply.kind = "none" <=> step # "done"

\* llm.factory: the provider of the process.
Real == OpenAiMode(env) = "real"

Text(kind) == [kind |-> kind]

\* OrderStatusService: find never fails, a protocol out of the catalogue has a status.
Catalogue == [protocol \in {"PED-1001", "PED-1002", "PED-1003"} |->
                CASE protocol = "PED-1001" -> "em_instalacao"
                  [] protocol = "PED-1002" -> "concluido"
                  [] OTHER                 -> "aguardando_pagamento"]
Find(protocol) == IF protocol \in DOMAIN Catalogue THEN Catalogue[protocol] ELSE "nao_encontrado"

\* formatOrderStatus
FormatOrderStatus(status) ==
  IF status = "nao_encontrado" THEN Text("notFound") ELSE [kind |-> "order", status |-> status]

\* fetchStatus can get an answer: the worker's ORDER_STATUS_BASE_URL leads to the API.
Reachable == OrderStatusBaseUrl(env) = ApiUrl

Init ==
  /\ files \in KnowledgeBase /\ env \in {e \in Env : Valid(e)}
  /\ chunks = << >>
  /\ step = "load"
  /\ question \in Question
  /\ context = << >> /\ round = 0 /\ calls = << >> /\ messages = << >>
  /\ reply = Text("none")

-----------------------------------------------------------------------------
\* KnowledgeBaseService.load, in onModuleInit.
Load ==
  /\ step = "load"
  /\ chunks' = FlattenSeq([f \in DOMAIN files |-> SplitMarkdown(files[f])])
  /\ step' = "ready"
  /\ UNCHANGED <<files, env, question, context, round, calls, messages, reply>>

\* A file cannot be read: the base is empty, and the worker starts.
LoadFails ==
  /\ step = "load"
  /\ chunks' = << >>
  /\ step' = "ready"
  /\ UNCHANGED <<files, env, question, context, round, calls, messages, reply>>

\* process() calls generateReply.
Ask(q) ==
  /\ step \in {"ready", "done"}
  /\ question' = q /\ reply' = Text("none")
  /\ step' = "retrieve"
  /\ UNCHANGED <<files, env, chunks, context, round, calls, messages>>

\* rag.retrieve; then the provider's generate.
Retrieve ==
  /\ step = "retrieve"
  /\ context' = RankChunks(question.terms, chunks, TopK)
  /\ step' = IF Real THEN "create" ELSE "simulate"
  /\ UNCHANGED <<files, env, chunks, question, round, calls, messages, reply>>

\* generateReply returns, and the locals of the call are gone.
Return(text) ==
  /\ reply' = text /\ step' = "done"
  /\ context' = << >> /\ round' = 0 /\ calls' = << >> /\ messages' = << >>
  /\ UNCHANGED <<files, env, chunks, question>>

\* Bug: generateReply does not catch what the provider throws.
Rethrow ==
  /\ step' = "ready"
  /\ context' = << >> /\ round' = 0 /\ calls' = << >> /\ messages' = << >>
  /\ UNCHANGED <<files, env, chunks, question, reply>>

\* The provider throws.
Fallback == Return(Text("fallback"))

-----------------------------------------------------------------------------
(* OpenAiLlmProvider.generate.                                             *)

\* Without tool calls: the content, or DONT_KNOW_REPLY if it is null.
Complete ==
  /\ step = "create"
  /\ Return(Text("llm")) \/ Return(Text("dontKnow"))

\* With tool calls, each with an id of its own: here its number in the answer.
CallTools(kinds) ==
  /\ step = "create"
  /\ calls' = [k \in DOMAIN kinds |-> [kind |-> kinds[k], id |-> k]]
  /\ messages' = Append(messages, Assistant(Len(kinds)))
  /\ step' = "tools"
  /\ UNCHANGED <<files, env, chunks, question, context, round, reply>>

\* The request is refused or lost.
CompletionFails == step = "create" /\ Fallback

\* Bug: one round too many.
EndRoundLate(pushed) ==
  IF round <= MaxToolRounds
  THEN /\ round' = round + 1 /\ step' = "create" /\ messages' = pushed
       /\ UNCHANGED <<files, env, chunks, question, context, reply>>
  ELSE Return(Text("dontKnow"))

\* The calls of the round have run: the next one, or DONT_KNOW_REPLY after the last one.
EndRound(pushed) ==
  IF round < MaxToolRounds
  THEN /\ round' = round + 1 /\ step' = "create" /\ messages' = pushed
       /\ UNCHANGED <<files, env, chunks, question, context, reply>>
  ELSE Return(Text("dontKnow"))

Push(pushed) ==
  /\ calls' = Tail(calls)
  /\ IF Len(calls) = 1
     THEN EndRound(pushed)
     ELSE /\ messages' = pushed
          /\ UNCHANGED <<files, env, chunks, step, question, context, round, reply>>

CanRun(call) == call.kind = "unknown" \/ (call.kind = "order" /\ Reachable)

\* Bug: a function that does not exist gets no message.
RunUnanswered ==
  /\ step = "tools" /\ CanRun(Head(calls))
  /\ Push(IF Head(calls).kind = "order" THEN Append(messages, ToolMsg(Head(calls).id)) ELSE messages)

\* runTool: the status of the order, or the error that there is no such function.
RunTool ==
  /\ step = "tools" /\ CanRun(Head(calls))
  /\ Push(Append(messages, ToolMsg(Head(calls).id)))

\* JSON.parse throws, or the order endpoint does not answer with 200 (throttled, down).
ToolFails ==
  /\ step = "tools" /\ Head(calls).kind \in {"order", "unusable"}
  /\ Fallback

-----------------------------------------------------------------------------
(* SimulatedLlmProvider.generate.                                          *)

\* extractProtocol finds a protocol in the question: fetchStatus, and its status.
SimulateStatus ==
  /\ step = "simulate" /\ question.protocol # Absent
  /\ Reachable
  /\ Return(FormatOrderStatus(Find(question.protocol)))

FetchFails == step = "simulate" /\ question.protocol # Absent /\ Fallback

\* Bug: the last chunk of the context.
SimulateLast ==
  /\ step = "simulate" /\ question.protocol = Absent
  /\ IF context = << >> THEN Return(Text("dontKnow"))
                        ELSE Return([kind |-> "chunk", chunk |-> Last(context)])

\* The first chunk of the context.
Simulate ==
  /\ step = "simulate" /\ question.protocol = Absent
  /\ IF context = << >> THEN Return(Text("dontKnow"))
                        ELSE Return([kind |-> "chunk", chunk |-> context[1]])

-----------------------------------------------------------------------------
OpenAi ==
  \/ Complete \/ CompletionFails \/ RunTool \/ ToolFails
  \/ \E kinds \in SeqOf(CallKinds, MaxCalls) \ {<< >>} : CallTools(kinds)
Simulated == SimulateStatus \/ FetchFails \/ Simulate

Next ==
  \/ Load \/ LoadFails \/ Retrieve \/ OpenAi \/ Simulated
  \/ \E q \in Question : Ask(q)

Spec == Init /\ [][Next]_vars

\* Every call that is awaited settles.
LiveSpec == Spec /\ WF_vars(Load \/ LoadFails \/ Retrieve \/ OpenAi \/ Simulated)

-----------------------------------------------------------------------------
(* Properties.                                                             *)

\* What the chat API demands of the messages it gets: the n tool calls of an answer are
\* followed by their n outputs, in order, and there is no other output.
CallsAnswered ==
  step = "create" =>
    \A i \in DOMAIN messages : LET m == messages[i] IN
      IF m.role = "assistant"
      THEN \A k \in 1..m.n : i + k \in DOMAIN messages /\ messages[i + k] = ToolMsg(k)
      ELSE m.n < i /\ messages[i - m.n].role = "assistant" /\ m.n <= messages[i - m.n].n

AllSections == UNION {Sections(f) : f \in Range(files)}

\* The chunks are the sections with text of all files, or none if a file could not be
\* read: no section is lost, cut, or given the title of another one.
ChunksAreSections ==
  step # "load" => Range(chunks) = AllSections \/ chunks = << >>

\* The context holds the TopK best chunks of the knowledge base, best first.
RetrievedIsBest ==
  step \in {"create", "simulate"} => AreBest(context, question.terms, chunks, TopK)

\* The simulated provider answers with a section of the knowledge base than which no other
\* one has more terms of the question, and says it does not know only if there is none.
BestSectionAnswers ==
  ~Real /\ step = "done" =>
    /\ reply.kind = "chunk" =>
         /\ reply.chunk \in AllSections
         /\ \A s \in AllSections :
              Score(question.terms, s) <= Score(question.terms, reply.chunk)
    /\ reply.kind = "dontKnow" =>
         chunks = << >> \/ \A s \in AllSections : Score(question.terms, s) = 0

\* Every question gets a reply, although the model may ask for tools in every round and
\* every call may fail: process() always has a text to send.
EveryQuestionAnswered == step = "retrieve" ~> step = "done"

=============================================================================
