------------------------ MODULE ReplyGeneratorProofs ------------------------
(***************************************************************************)
(* The protocol of OpenAiLlmProvider.generate with the chat API, for any   *)
(* number of rounds and of tool calls in each: every call gets its output. *)
(* Then what a reply rests on, for every knowledge base and question: the  *)
(* chunks are the sections, the context the best of them, and the answer   *)
(* of SimulatedLlmProvider the best one.                                   *)
(***************************************************************************)
EXTENDS ReplyGenerator, RagProofs

Call    == [kind : CallKinds, id : 1..MaxCalls]
Message == [role : {"assistant", "tool"}, n : 1..MaxCalls]

\* The tool calls of the answer at i have their outputs, but for the calls that are still
\* to run, which are the last ones of the last answer.
AnswerInv(i) ==
  messages[i].role = "assistant" =>
    \A k \in 1..messages[i].n :
      /\ i + k <= Len(messages) + Len(calls)
      /\ i + k <= Len(messages) => messages[i + k] = ToolMsg(k)

\* The output at i follows the answer that asked for it.
OutputInv(i) ==
  messages[i].role = "tool" =>
    /\ messages[i].n < i
    /\ messages[i - messages[i].n].role = "assistant"
    /\ messages[i].n <= messages[i - messages[i].n].n

\* The calls to run are those of the answer at a, from the first one without an output.
Asking(a) ==
  /\ a \in DOMAIN messages /\ messages[a].role = "assistant"
  /\ a + messages[a].n = Len(messages) + Len(calls)
  /\ \A k \in DOMAIN calls : calls[k].id = Len(messages) - a + k

\* A round adds an answer and the outputs of MaxCalls calls at most.
LengthInv ==
  /\ step \in {"create", "tools"} \/ (messages = << >> /\ round = 0)
  /\ step = "create" => Len(messages) <= round * (MaxCalls + 1)
  /\ step = "tools" => Len(messages) + Len(calls) <= (round + 1) * (MaxCalls + 1)

Inv ==
  /\ TypeOK /\ LengthInv
  /\ \A i \in DOMAIN messages : AnswerInv(i) /\ OutputInv(i)
  /\ calls # << >> => \E a \in DOMAIN messages : Asking(a)

-----------------------------------------------------------------------------
\* Rounds are bounded, and so are the messages of a request.
LEMMA Bounds ==
  ASSUME NEW r \in 0..MaxToolRounds
  PROVE  (r + 1) * (MaxCalls + 1) <= (MaxToolRounds + 1) * (MaxCalls + 1)
<1>1. MaxToolRounds \in Nat /\ MaxCalls \in Nat
  BY BoundAssumption
<1>2. \A a, b, c \in Nat : a <= b => a * c <= b * c
  OBVIOUS
<1>3. r + 1 \in Nat /\ MaxToolRounds + 1 \in Nat /\ MaxCalls + 1 \in Nat /\ r + 1 <= MaxToolRounds + 1
  BY <1>1
<1>4. QED
  BY <1>2, <1>3

\* Nothing is asked, and no round has begun.
LEMMA IdleKeepsInv ==
  ASSUME TypeOK', step' \notin {"create", "tools"}, messages' = << >>, round' = 0, calls' = << >>
  PROVE  Inv'
BY DEF Inv, LengthInv

\* generateReply returns a text or throws inside: the request is gone.
LEMMA ReturnKeepsInv ==
  ASSUME Inv, NEW text, text.kind # "none", Return(text)
  PROVE  Inv'
<1>1. TypeOK'
  BY BoundAssumption DEF Inv, TypeOK, Return
<1>2. QED
  BY <1>1, IdleKeepsInv DEF Return

\* The steps before the provider is called.
LEMMA BeforeKeepsInv ==
  ASSUME Inv, Load \/ LoadFails \/ (\E q \in Question : Ask(q)) \/ Retrieve
  PROVE  Inv'
<1>1. UNCHANGED <<messages, calls, round>> /\ messages = << >> /\ round = 0 /\ calls = << >>
  BY DEF Inv, TypeOK, LengthInv, Load, LoadFails, Ask, Retrieve
<1>2. TypeOK' /\ step' \notin {"tools"}
  BY <1>1 DEF Inv, TypeOK, Load, LoadFails, Ask, Retrieve, Text
<1>3. LengthInv'
  BY <1>1, <1>2, BoundAssumption DEF LengthInv
<1>4. QED
  BY <1>1, <1>2, <1>3 DEF Inv

\* An answer with tool calls is the new last one.
LEMMA CallToolsKeepsInv ==
  ASSUME Inv, NEW kinds \in SeqOf(CallKinds, MaxCalls) \ {<< >>}, CallTools(kinds)
  PROVE  Inv'
<1> DEFINE n == Len(kinds)
           L == Len(messages)
<1> USE DEF Inv
<1>1. /\ kinds \in Seq(CallKinds) /\ n \in 1..MaxCalls /\ DOMAIN kinds = 1..n
      /\ MaxCalls \in Nat /\ MaxToolRounds \in Nat
  BY BoundAssumption DEF SeqOf
<1>2. /\ messages \in Seq(Message) /\ L \in Nat /\ calls = << >> /\ step = "create"
      /\ Len(messages) = L /\ DOMAIN messages = 1..L /\ Len(calls) = 0
      /\ round \in 0..MaxToolRounds
  BY DEF TypeOK, CallTools, Message
<1>3. /\ messages' = Append(messages, Assistant(n)) /\ step' = "tools" /\ round' = round
      /\ calls' \in Seq(Call) /\ Len(calls') = n /\ DOMAIN calls' = 1..n
      /\ \A k \in 1..n : calls'[k].id = k
  BY <1>1 DEF CallTools, Call
<1>4. /\ Assistant(n) \in Message /\ messages' \in Seq(Message) /\ Len(messages') = L + 1
      /\ messages'[L + 1] = Assistant(n) /\ DOMAIN messages' = 1..(L + 1)
      /\ \A i \in 1..L : messages'[i] = messages[i]
  BY <1>1, <1>2, <1>3 DEF Assistant, Message
<1> HIDE DEF n, L
<1>5. LengthInv' /\ Len(messages') <= (MaxToolRounds + 1) * (MaxCalls + 1)
  <2>1. L <= round * (MaxCalls + 1)
    BY <1>2 DEF LengthInv, L
  <2>2. (round + 1) * (MaxCalls + 1) = round * (MaxCalls + 1) + (MaxCalls + 1)
    BY <1>1, <1>2
  <2>3. round * (MaxCalls + 1) \in Nat /\ L + 1 + n <= (round + 1) * (MaxCalls + 1)
    BY <1>1, <1>2, <2>1, <2>2
  <2>4. (round + 1) * (MaxCalls + 1) <= (MaxToolRounds + 1) * (MaxCalls + 1)
    BY <1>2, Bounds
  <2>5. L + 1 <= (MaxToolRounds + 1) * (MaxCalls + 1)
    BY <1>1, <1>2, <2>3, <2>4, BoundAssumption
  <2>6. QED
    BY <1>3, <1>4, <2>3, <2>5 DEF LengthInv
<1>6. TypeOK'
  <2>1. calls' # << >>
    BY <1>1, <1>3
  <2>2. QED
    BY <1>3, <1>4, <1>5, <2>1 DEF CallTools, TypeOK, Call, Message
<1>7. \E a \in DOMAIN messages' : Asking(a)'
  <2>1. PICK a \in Nat : a = L + 1
    BY <1>2
  <2> HIDE DEF Inv
  <2>2. Asking(a)'
    <3>1. a \in DOMAIN messages' /\ messages'[a].role = "assistant" /\ messages'[a].n = n
      BY <1>1, <1>2, <1>4, <2>1 DEF Assistant
    <3>2. Len(messages') = a /\ Len(calls') = n /\ n \in Nat
      BY <1>1, <1>3, <1>4, <2>1
    <3>3. a + messages'[a].n = Len(messages') + Len(calls')
      BY <3>1, <3>2
    <3>4. \A k \in DOMAIN calls' : calls'[k].id = Len(messages') - a + k
      <4>1. \A k \in Nat : k = a - a + k
        OBVIOUS
      <4>2. QED
        BY <1>3, <3>2, <4>1
    <3>5. QED
      BY <3>1, <3>3, <3>4 DEF Asking
  <2>3. QED
    BY <1>2, <1>4, <2>1, <2>2 DEF Asking
<1>8. \A i \in DOMAIN messages' : AnswerInv(i)' /\ OutputInv(i)'
  <2> SUFFICES ASSUME NEW i \in 1..(L + 1) PROVE AnswerInv(i)' /\ OutputInv(i)'
    BY <1>2, <1>4
  <2>1. CASE i = L + 1
    BY <1>1, <1>2, <1>3, <1>4, <2>1 DEF AnswerInv, OutputInv, Assistant
  <2>2. CASE i \in 1..L
    <3>1. AnswerInv(i) /\ OutputInv(i) /\ messages'[i] = messages[i] /\ messages[i] \in Message
      BY <1>2, <1>4, <2>2
    <3>2. /\ messages[i].n \in Nat \ {0}
          /\ messages[i].role = "tool" => i - messages[i].n \in 1..L
      BY <1>1, <1>2, <2>2, <3>1 DEF Message, OutputInv
    <3>3. AnswerInv(i)'
      <4> SUFFICES ASSUME messages[i].role = "assistant", NEW k \in 1..messages[i].n
                   PROVE  /\ i + k <= Len(messages') + Len(calls')
                          /\ i + k <= Len(messages') => messages'[i + k] = ToolMsg(k)
        BY <3>1 DEF AnswerInv, ToolMsg
      <4>1. i + k \in 1..L /\ messages[i + k] = ToolMsg(k)
        BY <1>2, <2>2, <3>1, <3>2 DEF AnswerInv
      <4>2. QED
        BY <1>1, <1>2, <1>3, <1>4, <4>1
    <3>4. OutputInv(i)'
      BY <1>4, <3>1, <3>2 DEF OutputInv
    <3>5. QED
      BY <3>3, <3>4
  <2>3. QED
    BY <1>2, <2>1, <2>2
<1>9. QED
  BY <1>2, <1>4, <1>6, <1>5, <1>7, <1>8

\* The output of the first call to run takes the next place after the answer.
LEMMA OutputKeepsAnswers ==
  ASSUME Inv, calls # << >>, calls' = Tail(calls),
         messages' = Append(messages, ToolMsg(Head(calls).id))
  PROVE  /\ messages' \in Seq(Message) /\ Len(messages') = Len(messages) + 1
         /\ calls' \in Seq(Call) /\ Len(calls') = Len(calls) - 1
         /\ \A i \in DOMAIN messages' : AnswerInv(i)' /\ OutputInv(i)'
         /\ calls' # << >> => \E a \in DOMAIN messages' : Asking(a)'
<1> DEFINE L == Len(messages)
           C == Len(calls)
<1> USE DEF Inv
<1>0. messages \in Seq(Message) /\ calls \in Seq(Call)
  BY DEF TypeOK, Message, Call
<1>1. /\ messages \in Seq(Message) /\ L \in Nat /\ Len(messages) = L /\ DOMAIN messages = 1..L
      /\ calls \in Seq(Call) /\ C \in Nat \ {0} /\ Len(calls) = C /\ DOMAIN calls = 1..C
      /\ MaxCalls \in Nat
  BY <1>0, BoundAssumption
<1>2. PICK a \in 1..L : Asking(a)
  BY <1>1
<1> DEFINE id == L - a + 1
<1>3. /\ Head(calls).id = id /\ id \in 1..MaxCalls
      /\ calls' \in Seq(Call) /\ Len(calls') = C - 1 /\ DOMAIN calls' = 1..(C - 1)
      /\ \A k \in 1..(C - 1) : calls'[k] = calls[k + 1]
  <2>1. Head(calls) = calls[1] /\ calls[1] \in Call
    BY <1>1
  <2>2. calls[1].id = id
    <3>1. \A k \in DOMAIN calls : calls[k].id = L - a + k
      BY <1>2 DEF Asking
    <3>2. 1 \in DOMAIN calls
      BY <1>1
    <3>3. QED
      BY <3>1, <3>2
  <2>3. id \in 1..MaxCalls
    BY <2>1, <2>2 DEF Call
  <2>4. /\ calls' \in Seq(Call) /\ Len(calls') = C - 1 /\ DOMAIN calls' = 1..(C - 1)
        /\ \A k \in 1..(C - 1) : calls'[k] = calls[k + 1]
    BY <1>1
  <2>5. QED
    BY <2>1, <2>2, <2>3, <2>4
<1>4. /\ messages' \in Seq(Message) /\ Len(messages') = L + 1 /\ DOMAIN messages' = 1..(L + 1)
      /\ messages'[L + 1] = ToolMsg(id)
      /\ \A i \in 1..L : messages'[i] = messages[i]
  BY <1>1, <1>3 DEF ToolMsg, Message
<1>5. /\ a \in 1..L /\ messages[a].role = "assistant" /\ messages[a].n \in Nat
      /\ a + messages[a].n = L + C
  <2>1. a \in 1..L /\ messages[a] \in Message
    BY <1>1, <1>2
  <2>2. messages[a].n \in Nat
    BY <1>1, <2>1 DEF Message
  <2>3. QED
    BY <1>2, <2>1, <2>2 DEF Asking
<1> HIDE DEF L, C, id
<1>6. \A i \in DOMAIN messages' : AnswerInv(i)' /\ OutputInv(i)'
  <2> SUFFICES ASSUME NEW i \in 1..(L + 1) PROVE AnswerInv(i)' /\ OutputInv(i)'
    BY <1>1, <1>4
  <2>1. CASE i = L + 1
    <3>1. messages'[i].role = "tool" /\ messages'[i].n = id /\ i - id = a
      BY <1>1, <1>4, <1>5, <2>1 DEF ToolMsg, id
    <3>2. id < i /\ id <= messages[a].n /\ messages'[a] = messages[a]
      BY <1>1, <1>4, <1>5, <2>1 DEF id
    <3>3. QED
      BY <1>5, <3>1, <3>2 DEF AnswerInv, OutputInv
  <2>2. CASE i \in 1..L
    <3>1. AnswerInv(i) /\ OutputInv(i) /\ messages'[i] = messages[i] /\ messages[i] \in Message
      <4>1. i \in DOMAIN messages
        BY <1>1, <2>2
      <4>2. AnswerInv(i) /\ OutputInv(i)
        BY <4>1
      <4>3. QED
        BY <1>1, <1>4, <2>2, <4>2
    <3>2. /\ messages[i].n \in Nat \ {0}
          /\ messages[i].role = "tool" => i - messages[i].n \in 1..L
      BY <1>1, <2>2, <3>1 DEF Message, OutputInv
    <3>3. AnswerInv(i)'
      <4> SUFFICES ASSUME messages[i].role = "assistant", NEW k \in 1..messages[i].n
                   PROVE  /\ i + k <= Len(messages') + Len(calls')
                          /\ i + k <= Len(messages') => messages'[i + k] = ToolMsg(k)
        BY <3>1 DEF AnswerInv
      <4>1. /\ i + k <= L + C
            /\ \A j \in 1..messages[i].n : i + j <= L => messages[i + j] = ToolMsg(j)
        BY <1>1, <3>1 DEF AnswerInv
      <4>2. CASE i + k <= L
        BY <1>1, <1>3, <1>4, <2>2, <4>1, <4>2
      <4>3. CASE i + k > L
        <5>1. ~(i < a)
          <6> SUFFICES ASSUME i < a PROVE FALSE
            OBVIOUS
          <6>1. a - i \in 1..messages[i].n /\ i + (a - i) = a
            BY <1>1, <1>5, <2>2, <3>2, <4>3
          <6>2. messages[a] = ToolMsg(a - i)
            BY <1>1, <1>5, <4>1, <6>1
          <6>3. QED
            BY <1>5, <6>2 DEF ToolMsg
        <5>2. ~(a < i)
          <6> SUFFICES ASSUME a < i PROVE FALSE
            OBVIOUS
          <6>1. i - a \in 1..messages[a].n /\ a + (i - a) = i
            BY <1>1, <1>5, <2>2
          <6>2. messages[i] = ToolMsg(i - a)
            <7>1. \A j \in 1..messages[a].n : a + j <= L => messages[a + j] = ToolMsg(j)
              BY <1>1, <1>5 DEF AnswerInv
            <7>2. QED
              BY <1>1, <1>5, <2>2, <6>1, <7>1
          <6>3. QED
            BY <6>2 DEF ToolMsg
        <5>3. i = a
          BY <1>5, <2>2, <5>1, <5>2
        <5>4. i + k = L + 1 => k = id
          <6> HIDE DEF Inv
          <6>1. L \in Nat /\ a \in 1..L /\ k \in Nat
            BY <1>1, <1>5, <3>2
          <6>2. QED
            BY <5>3, <6>1 DEF id
        <5> HIDE DEF Inv
        <5>5. L \in Nat /\ C \in Nat \ {0} /\ i \in Nat /\ k \in Nat
              /\ Len(messages') = L + 1 /\ Len(calls') = C - 1
          BY <1>1, <1>3, <1>4, <2>2, <3>2
        <5>6. i + k <= Len(messages') + Len(calls')
          BY <4>1, <5>5
        <5>7. ASSUME i + k <= Len(messages') PROVE messages'[i + k] = ToolMsg(k)
          <6>1. i + k = L + 1
            BY <4>3, <5>5, <5>7
          <6>2. QED
            BY <1>4, <5>4, <6>1
        <5>8. QED
          BY <5>6, <5>7
      <4>4. QED
        <5>1. i + k <= L \/ i + k > L
          BY <1>1, <2>2, <3>2
        <5>2. QED
          BY <4>2, <4>3, <5>1
    <3>4. OutputInv(i)'
      BY <1>4, <3>1, <3>2 DEF OutputInv
    <3>5. QED
      BY <3>3, <3>4
  <2>3. QED
    BY <1>1, <2>1, <2>2
<1>7. calls' # << >> => \E b \in DOMAIN messages' : Asking(b)'
  <2>1. \A k \in 1..(C - 1) : calls'[k].id = (L + 1) - a + k
    <3>1. \A k \in 1..C : calls[k].id = L - a + k
      BY <1>1, <1>2 DEF Asking
    <3> SUFFICES ASSUME NEW k \in 1..(C - 1) PROVE calls'[k].id = (L + 1) - a + k
      OBVIOUS
    <3>2. k + 1 \in 1..C /\ calls'[k] = calls[k + 1]
      BY <1>1, <1>3
    <3>3. calls'[k].id = L - a + (k + 1)
      BY <3>1, <3>2
    <3>4. QED
      BY <1>1, <1>5, <3>3
  <2>2. /\ a \in DOMAIN messages' /\ messages'[a] = messages[a]
        /\ a + messages[a].n = Len(messages') + Len(calls')
    <3> HIDE DEF Inv
    <3>1. L \in Nat /\ C \in Nat \ {0} /\ Len(messages') = L + 1 /\ Len(calls') = C - 1
      BY <1>1, <1>3, <1>4
    <3>2. Len(messages') + Len(calls') = L + C
      <4>1. (L + 1) + (C - 1) = L + C
        BY <3>1
      <4>2. QED
        BY <3>1, <4>1, Zenon
    <3>3. a \in DOMAIN messages' /\ messages'[a] = messages[a]
      BY <1>4, <1>5, <3>1
    <3>4. a + messages[a].n = Len(messages') + Len(calls')
      BY <1>5, <3>2, Zenon
    <3>5. QED
      BY <3>3, <3>4
  <2>3. \A k \in DOMAIN calls' : calls'[k].id = Len(messages') - a + k
    BY <1>3, <1>4, <2>1
  <2>4. QED
    BY <1>5, <2>2, <2>3 DEF Asking
<1>8. QED
  BY <1>1, <1>3, <1>4, <1>6, <1>7 DEF L, C

\* A tool has run: its output goes in, and after the last one comes the next round, or
\* the end of all rounds.
LEMMA RunToolKeepsInv ==
  ASSUME Inv, RunTool
  PROVE  Inv'
<1> DEFINE pushed == Append(messages, ToolMsg(Head(calls).id))
<1>1. /\ step = "tools" /\ calls # << >> /\ calls' = Tail(calls)
      /\ calls \in Seq(Call) /\ Len(calls) \in Nat \ {0} /\ Len(messages) \in Nat
      /\ round \in 0..MaxToolRounds /\ MaxToolRounds \in Nat /\ MaxCalls \in Nat
  <2>1. /\ step = "tools" /\ calls # << >> /\ calls' = Tail(calls) /\ round \in 0..MaxToolRounds
        /\ calls \in Seq(Call) /\ messages \in Seq(Message)
    BY DEF Inv, TypeOK, RunTool, Push, Call, Message
  <2>2. QED
    BY <2>1, BoundAssumption
<1>2. CASE Len(calls) = 1 /\ round >= MaxToolRounds
  <2>1. Return(Text("dontKnow"))
    BY <1>1, <1>2 DEF RunTool, Push, EndRound
  <2>2. QED
    BY <2>1, ReturnKeepsInv DEF Text
<1>3. CASE ~(Len(calls) = 1 /\ round >= MaxToolRounds)
  <2>1. messages' = pushed
    BY <1>1, <1>3 DEF RunTool, Push, EndRound
  <2>2. /\ messages' \in Seq(Message) /\ Len(messages') = Len(messages) + 1
        /\ calls' \in Seq(Call) /\ Len(calls') = Len(calls) - 1
        /\ \A i \in DOMAIN messages' : AnswerInv(i)' /\ OutputInv(i)'
        /\ calls' # << >> => \E a \in DOMAIN messages' : Asking(a)'
    BY <1>1, <2>1, OutputKeepsAnswers
  <2>3. Len(messages) + Len(calls) <= (round + 1) * (MaxCalls + 1)
    BY <1>1 DEF Inv, LengthInv
  <2>4. (round + 1) * (MaxCalls + 1) <= (MaxToolRounds + 1) * (MaxCalls + 1)
    BY <1>1, Bounds
  <2>5. Len(messages') <= (MaxToolRounds + 1) * (MaxCalls + 1)
    <3>1. Len(messages) + 1 <= Len(messages) + Len(calls)
      BY <1>1
    <3>2. (round + 1) * (MaxCalls + 1) \in Nat /\ (MaxToolRounds + 1) * (MaxCalls + 1) \in Nat
      BY <1>1
    <3>3. QED
      BY <1>1, <2>2, <2>3, <2>4, <3>1, <3>2
  <2>6. CASE Len(calls) = 1
    <3>1. /\ step' = "create" /\ round' = round + 1 /\ round' \in 0..MaxToolRounds
          /\ calls' = << >> /\ Len(calls') = 0
          /\ UNCHANGED <<files, env, chunks, question, context, reply>>
      BY <1>1, <1>3, <2>2, <2>6 DEF RunTool, Push, EndRound
    <3>2. TypeOK'
      <4>1. /\ files \in KnowledgeBase /\ env \in Env /\ question \in Question
            /\ reply.kind = "none"
        BY <1>1 DEF Inv, TypeOK
      <4>2. calls' \in Seq([kind : CallKinds, id : 1..MaxCalls])
        BY <3>1
      <4>3. QED
        BY <2>2, <2>5, <3>1, <4>1, <4>2 DEF TypeOK, Message
    <3>3. LengthInv'
      <4>1. Len(messages') <= (round + 1) * (MaxCalls + 1)
        BY <2>2, <2>3, <2>6
      <4>2. Len(messages') <= round' * (MaxCalls + 1)
        BY <3>1, <4>1, Zenon
      <4>3. QED
        BY <3>1, <4>2 DEF LengthInv
    <3>4. QED
      BY <2>2, <3>1, <3>2, <3>3 DEF Inv
  <2>7. CASE Len(calls) # 1
    <3>1. /\ UNCHANGED <<files, env, chunks, step, question, context, round, reply>>
          /\ calls' # << >>
      BY <1>1, <2>2, <2>7 DEF RunTool, Push
    <3>2. TypeOK'
      BY <1>1, <2>2, <2>5, <3>1 DEF Inv, TypeOK, Message, Call
    <3>3. LengthInv'
      BY <1>1, <2>2, <2>3, <3>1 DEF LengthInv
    <3>4. QED
      BY <2>2, <3>2, <3>3 DEF Inv
  <2>8. QED
    BY <2>6, <2>7
<1>4. QED
  BY <1>2, <1>3

-----------------------------------------------------------------------------
\* Every step of a worker that makes replies keeps the invariant.
LEMMA InvStep == Inv /\ [Next]_vars => Inv'
<1> SUFFICES ASSUME Inv, [Next]_vars PROVE Inv'
  OBVIOUS
<1>1. CASE Load \/ LoadFails \/ Retrieve \/ \E q \in Question : Ask(q)
  BY <1>1, BeforeKeepsInv
<1>2. CASE Complete \/ CompletionFails \/ ToolFails \/ Simulated
  <2>1. PICK text : text.kind # "none" /\ Return(text)
    BY <1>2 DEF Complete, CompletionFails, ToolFails, Simulated, SimulateStatus, FetchFails,
       Simulate, Fallback, FormatOrderStatus, Text
  <2>2. QED
    BY <2>1, ReturnKeepsInv
<1>3. CASE RunTool
  BY <1>3, RunToolKeepsInv
<1>4. CASE \E kinds \in SeqOf(CallKinds, MaxCalls) \ {<< >>} : CallTools(kinds)
  BY <1>4, CallToolsKeepsInv
<1>5. CASE UNCHANGED vars
  BY <1>5 DEF vars, Inv, TypeOK, LengthInv, AnswerInv, OutputInv, Asking
<1>6. QED
  BY <1>1, <1>2, <1>3, <1>4, <1>5 DEF Next, OpenAi

\* The inductive invariant: at most one answer waits for outputs, and it waits for the
\* rest of its calls, in order.
THEOREM InvHolds == Spec => []Inv
<1>1. Init => Inv
  <2> SUFFICES ASSUME Init PROVE Inv
    OBVIOUS
  <2>1. TypeOK
    BY BoundAssumption DEF Init, TypeOK, Text
  <2>2. QED
    BY <2>1 DEF Init, Inv, LengthInv
<1>2. QED
  BY <1>1, InvStep, PTL DEF Spec

\* The rounds, the calls and the messages of a request stay within their bounds.
THEOREM TypeCorrect == Spec => []TypeOK
BY InvHolds, PTL DEF Inv

\* The chat API never gets a request with a tool call that has no output, or an output
\* without its call, however many calls the answers hold.
THEOREM CallsAnsweredHolds == Spec => []CallsAnswered
<1>1. Inv => CallsAnswered
  <2> SUFFICES ASSUME Inv, step = "create", NEW i \in DOMAIN messages
               PROVE  IF messages[i].role = "assistant"
                      THEN \A k \in 1..messages[i].n :
                             i + k \in DOMAIN messages /\ messages[i + k] = ToolMsg(k)
                      ELSE /\ messages[i].n < i
                           /\ messages[i - messages[i].n].role = "assistant"
                           /\ messages[i].n <= messages[i - messages[i].n].n
    BY DEF CallsAnswered
  <2>1. /\ AnswerInv(i) /\ OutputInv(i) /\ messages \in Seq(Message)
        /\ calls = << >> /\ Len(calls) = 0
    BY DEF Inv, TypeOK, Message
  <2>2. /\ i \in 1..Len(messages) /\ DOMAIN messages = 1..Len(messages) /\ Len(messages) \in Nat
        /\ messages[i] \in Message
    BY <2>1
  <2>3. messages[i].role \in {"assistant", "tool"} /\ messages[i].n \in Nat \ {0}
    BY <2>2, BoundAssumption DEF Message
  <2>4. QED
    BY <2>1, <2>2, <2>3 DEF AnswerInv, OutputInv
<1>2. QED
  BY <1>1, InvHolds, PTL

-----------------------------------------------------------------------------
(* What a reply rests on.                                                  *)

\* What rag.retrieve returns for the question, now.
Fitting == RankChunks(question.terms, chunks, TopK)

\* While a request is in the provider its context is what fits the question, and what the
\* simulated provider has replied is the first of it.
ContextInv ==
  /\ chunks \in Seq(Chunk) /\ ChunksAreSections
  /\ step \in {"create", "tools", "simulate"} => context = Fitting
  /\ step \in {"create", "tools"} => Real
  /\ ~Real /\ step = "done" =>
       /\ reply.kind = "chunk" => Fitting # << >> /\ reply.chunk = Fitting[1]
       /\ reply.kind = "dontKnow" => Fitting = << >>

\* What KnowledgeBaseService.load makes of the files.
LEMMA LoadedSections ==
  ASSUME NEW fs \in KnowledgeBase, NEW cs, cs = FlattenSeq([f \in DOMAIN fs |-> SplitMarkdown(fs[f])])
  PROVE  cs \in Seq(Chunk) /\ Range(cs) = UNION {Sections(f) : f \in Range(fs)}
<1> DEFINE split == [f \in DOMAIN fs |-> SplitMarkdown(fs[f])]
<1>1. fs \in Seq(File) /\ DOMAIN fs = 1..Len(fs) /\ Len(fs) \in Nat
  BY TextAssumption
<1>2. \A f \in DOMAIN fs : /\ fs[f] \in File /\ split[f] = SplitMarkdown(fs[f])
                           /\ split[f] \in Seq(Chunk) /\ Range(split[f]) = Sections(fs[f])
  BY <1>1, SplitMarkdownSections
<1>3. split \in Seq(Seq(Chunk)) /\ DOMAIN split = DOMAIN fs
  BY <1>1, <1>2
<1> HIDE DEF split
<1>4. cs \in Seq(Chunk) /\ Range(cs) = UNION {Range(split[f]) : f \in DOMAIN split}
  <2>1. cs = FlattenSeq(split)
    BY DEF split
  <2>2. QED
    BY <1>3, <2>1, FlattenSeqRange
<1>5. {Range(split[f]) : f \in DOMAIN split} = {Sections(f) : f \in Range(fs)}
  <2>1. \A f \in DOMAIN fs : Range(split[f]) = Sections(fs[f])
    BY <1>2
  <2>2. Range(fs) = {fs[f] : f \in DOMAIN fs}
    BY DEF Range
  <2>3. QED
    BY <1>3, <2>1, <2>2
<1>6. QED
  BY <1>4, <1>5

\* What is retrieved for a question of the process, and that it is the best of the chunks.
LEMMA FittingBest ==
  ASSUME question \in Question, chunks \in Seq(Chunk)
  PROVE  Fitting \in Seq(Chunk) /\ AreBest(Fitting, question.terms, chunks, TopK)
<1>1. IsFiniteSet(question.terms) /\ TopK \in Nat
  BY TextAssumption, BoundAssumption
<1>2. QED
  BY <1>1, RankChunksBest DEF Fitting

\* The knowledge base and the environment are fixed at the start of the process.
LEMMA ContextInvKept ==
  ASSUME ContextInv, UNCHANGED <<files, env, chunks, question>>, step # "load", step' # "load"
  PROVE  /\ Real' = Real /\ Fitting' = Fitting
         /\ chunks' \in Seq(Chunk) /\ ChunksAreSections'
<1>1. Real' = Real
  BY DEF Real
<1>2. Fitting' = Fitting
  BY DEF Fitting
<1>3. chunks' \in Seq(Chunk) /\ ChunksAreSections'
  BY DEF ContextInv, ChunksAreSections, AllSections
<1>4. QED
  BY <1>1, <1>2, <1>3

\* Every step keeps the context what fits the question and the reply the first of it.
LEMMA ContextInvStep == TypeOK /\ ContextInv /\ [Next]_vars => ContextInv'
<1> SUFFICES ASSUME TypeOK, ContextInv, [Next]_vars PROVE ContextInv'
  OBVIOUS
<1>1. CASE Load
  <2>1. step = "load" /\ step' = "ready" /\ files \in KnowledgeBase /\ files' = files
        /\ chunks' = FlattenSeq([f \in DOMAIN files |-> SplitMarkdown(files[f])])
    BY <1>1 DEF Load, TypeOK
  <2>2. chunks' \in Seq(Chunk) /\ Range(chunks') = UNION {Sections(f) : f \in Range(files)}
    BY <2>1, LoadedSections
  <2>3. ChunksAreSections'
    BY <2>1, <2>2 DEF ChunksAreSections, AllSections
  <2>4. QED
    BY <2>1, <2>2, <2>3 DEF ContextInv
<1>2. CASE LoadFails
  <2>1. chunks' = << >> /\ step' = "ready"
    BY <1>2 DEF LoadFails
  <2>2. chunks' \in Seq(Chunk)
    BY <2>1, EmptySeq
  <2>3. QED
    BY <2>1, <2>2 DEF ContextInv, ChunksAreSections
<1>3. ASSUME NEW q \in Question, Ask(q) PROVE ContextInv'
  <2>1. /\ step' = "retrieve" /\ step # "load"
        /\ chunks' = chunks /\ files' = files
    BY <1>3 DEF Ask
  <2>2. chunks' \in Seq(Chunk) /\ ChunksAreSections'
    BY <2>1 DEF ContextInv, ChunksAreSections, AllSections
  <2>3. QED
    BY <2>1, <2>2 DEF ContextInv
<1>4. CASE Retrieve
  <2>1. /\ UNCHANGED <<files, env, chunks, question>> /\ step # "load"
        /\ step' = IF Real THEN "create" ELSE "simulate"
        /\ context' = Fitting
    BY <1>4 DEF Retrieve, Fitting
  <2>2. Real' = Real /\ Fitting' = Fitting /\ chunks' \in Seq(Chunk) /\ ChunksAreSections'
    BY <2>1, ContextInvKept
  <2>3. QED
    BY <2>1, <2>2 DEF ContextInv
<1>5. CASE OpenAi
  <2>1. Real /\ step \in {"create", "tools"} /\ context = Fitting
    BY <1>5 DEF OpenAi, Complete, CompletionFails, RunTool, ToolFails, CallTools, ContextInv
  <2>2. /\ UNCHANGED <<files, env, chunks, question>>
        /\ \/ step' \in {"create", "tools"} /\ context' = context
           \/ step' = "done"
    BY <1>5, <2>1 DEF OpenAi, Complete, CompletionFails, RunTool, ToolFails, CallTools,
       Return, Fallback, Push, EndRound
  <2>3. Real' = Real /\ Fitting' = Fitting /\ chunks' \in Seq(Chunk) /\ ChunksAreSections'
    BY <2>1, <2>2, ContextInvKept
  <2>4. QED
    BY <2>1, <2>2, <2>3 DEF ContextInv
<1>6. CASE Simulated
  <2>1. /\ step = "simulate" /\ step' = "done" /\ UNCHANGED <<files, env, chunks, question>>
        /\ \/ reply'.kind \in {"fallback", "order", "notFound"}
           \/ context = << >> /\ reply'.kind = "dontKnow"
           \/ context # << >> /\ reply'.kind = "chunk" /\ reply'.chunk = context[1]
    BY <1>6 DEF Simulated, SimulateStatus, FetchFails, Simulate, Return, Fallback, Text,
       FormatOrderStatus
  <2>2. Real' = Real /\ Fitting' = Fitting /\ chunks' \in Seq(Chunk) /\ ChunksAreSections'
    BY <2>1, ContextInvKept
  <2>3. context = Fitting
    BY <2>1 DEF ContextInv
  <2>4. QED
    BY <2>1, <2>2, <2>3 DEF ContextInv
<1>7. CASE UNCHANGED vars
  <2>1. UNCHANGED <<files, env, chunks, question, step, context, reply>>
    BY <1>7 DEF vars
  <2>2. Real' = Real /\ Fitting' = Fitting
    BY <2>1 DEF Real, Fitting
  <2>3. ChunksAreSections'
    BY <2>1 DEF ContextInv, ChunksAreSections, AllSections
  <2>4. QED
    BY <2>1, <2>2, <2>3 DEF ContextInv
<1>8. QED
  BY <1>1, <1>2, <1>3, <1>4, <1>5, <1>6, <1>7 DEF Next

\* What a worker has retrieved and replied stays what fits its question, throughout the
\* rounds with the model.
THEOREM ContextInvHolds == Spec => []ContextInv
<1>1. Init => ContextInv
  <2>1. << >> \in Seq(Chunk)
    BY EmptySeq
  <2>2. QED
    BY <2>1 DEF Init, ContextInv, ChunksAreSections
<1>2. QED
  BY <1>1, ContextInvStep, TypeCorrect, PTL DEF Spec

\* The knowledge base of a worker holds the sections of its files, for all files.
THEOREM ChunksAreSectionsHolds == Spec => []ChunksAreSections
BY ContextInvHolds, PTL DEF ContextInv

\* What goes to the provider is the best the knowledge base has, for all questions.
THEOREM RetrievedIsBestHolds == Spec => []RetrievedIsBest
<1>1. TypeOK /\ ContextInv => RetrievedIsBest
  <2> SUFFICES ASSUME TypeOK, ContextInv, step \in {"create", "simulate"}
               PROVE  AreBest(context, question.terms, chunks, TopK)
    BY DEF RetrievedIsBest
  <2>1. context = Fitting /\ question \in Question /\ chunks \in Seq(Chunk)
    BY DEF ContextInv, TypeOK
  <2>2. QED
    BY <2>1, FittingBest
<1>2. QED
  BY <1>1, TypeCorrect, ContextInvHolds, PTL

\* The first chunk of the context is a best one, and without a context there is none.
LEMMA FirstIsBest ==
  ASSUME question \in Question, chunks \in Seq(Chunk)
  PROVE  /\ Fitting # << >> =>
              /\ Fitting[1] \in Range(chunks)
              /\ \A s \in Range(chunks) : Score(question.terms, s) <= Score(question.terms, Fitting[1])
         /\ Fitting = << >> => \A s \in Range(chunks) : Score(question.terms, s) = 0
<1> DEFINE score(c) == Score(question.terms, c)
<1>1. Fitting \in Seq(Chunk) /\ AreBest(Fitting, question.terms, chunks, TopK)
  BY FittingBest
<1>2. \A c : score(c) \in Nat
  BY ScoreType, TextAssumption
<1>3. /\ Range(Fitting) \subseteq Range(chunks)
      /\ \A n \in DOMAIN Fitting : \A m \in 1..n : score(Fitting[m]) >= score(Fitting[n])
      /\ \A i \in DOMAIN chunks : chunks[i] \in Range(Fitting) \/ score(chunks[i]) = 0 \/
           /\ Len(Fitting) = TopK
           /\ \A c \in Range(Fitting) : score(c) > score(chunks[i]) \/ score(c) = score(chunks[i])
  BY <1>1 DEF AreBest
<1>4. DOMAIN Fitting = 1..Len(Fitting) /\ Len(Fitting) \in Nat
  BY <1>1
<1> HIDE DEF score
<1>5. CASE Fitting # << >>
  <2>1. 1 \in DOMAIN Fitting /\ Fitting[1] \in Range(Fitting)
    BY <1>1, <1>4, <1>5 DEF Range
  <2>2. ASSUME NEW i \in DOMAIN chunks PROVE score(chunks[i]) <= score(Fitting[1])
    <3>1. CASE chunks[i] \in Range(Fitting)
      <4>1. PICK n \in DOMAIN Fitting : chunks[i] = Fitting[n]
        BY <3>1 DEF Range
      <4>2. score(Fitting[1]) >= score(Fitting[n])
        BY <1>3, <1>4, <4>1
      <4>3. QED
        BY <1>2, <4>1, <4>2
    <3>2. CASE chunks[i] \notin Range(Fitting)
      BY <1>2, <1>3, <2>1, <3>2
    <3>3. QED
      BY <3>1, <3>2
  <2>3. \A s \in Range(chunks) : score(s) <= score(Fitting[1])
    BY <2>2 DEF Range
  <2>4. QED
    BY <1>3, <1>5, <2>1, <2>3 DEF score
<1>6. CASE Fitting = << >>
  <2>1. Range(Fitting) = {} /\ Len(Fitting) # TopK
    BY <1>6, BoundAssumption DEF Range
  <2>2. \A i \in DOMAIN chunks : score(chunks[i]) = 0
    BY <1>3, <2>1
  <2>3. \A s \in Range(chunks) : score(s) = 0
    BY <2>2 DEF Range
  <2>4. QED
    BY <1>6, <2>3 DEF score
<1>7. QED
  BY <1>5, <1>6

\* The simulated provider answers with a best section of the knowledge base, and does not
\* know only what no section has a term of.
THEOREM BestSectionAnswersHolds == Spec => []BestSectionAnswers
<1>1. TypeOK /\ ContextInv => BestSectionAnswers
  <2> SUFFICES ASSUME TypeOK, ContextInv, ~Real, step = "done" PROVE BestSectionAnswers
    BY DEF BestSectionAnswers
  <2>1. /\ question \in Question /\ chunks \in Seq(Chunk)
        /\ Range(chunks) = AllSections \/ chunks = << >>
    BY DEF TypeOK, ContextInv, ChunksAreSections
  <2>2. ASSUME reply.kind = "chunk"
        PROVE  /\ reply.chunk \in AllSections
               /\ \A s \in AllSections : Score(question.terms, s) <= Score(question.terms, reply.chunk)
    <3>1. Fitting # << >> /\ reply.chunk = Fitting[1]
      BY <2>2 DEF ContextInv
    <3>2. /\ reply.chunk \in Range(chunks)
          /\ \A s \in Range(chunks) : Score(question.terms, s) <= Score(question.terms, reply.chunk)
      BY <2>1, <3>1, FirstIsBest
    <3>3. chunks # << >>
      BY <3>2 DEF Range
    <3>4. QED
      BY <2>1, <3>2, <3>3
  <2>3. ASSUME reply.kind = "dontKnow"
        PROVE  chunks = << >> \/ \A s \in AllSections : Score(question.terms, s) = 0
    <3>1. Fitting = << >>
      BY <2>3 DEF ContextInv
    <3>2. QED
      BY <2>1, <3>1, FirstIsBest
  <2>4. QED
    BY <2>2, <2>3 DEF BestSectionAnswers
<1>2. QED
  BY <1>1, TypeCorrect, ContextInvHolds, PTL

=============================================================================
