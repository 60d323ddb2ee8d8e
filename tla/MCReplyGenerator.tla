-------------------------- MODULE MCReplyGenerator --------------------------
(* An instance of ReplyGenerator for TLC.                                  *)
EXTENDS ReplyGeneratorProofs, TLC

L(kind, terms) == [kind |-> kind, terms |-> terms]
MCLine == {L("heading", {"fibra"}), L("text", {"fibra"}), L("text", {"boleto"}), L("blank", {})}

\* A file of up to four lines, and one with a section that fits any question.
Plans == [name |-> {"boleto"}, lines |-> <<L("text", {"fibra"})>>]
MCKnowledgeBase == {<<[name |-> {"sobre"}, lines |-> ls], Plans>> : ls \in SeqOf(MCLine, 4)}

Q(terms, protocol) == [terms |-> terms, protocol |-> protocol]
MCQuestion == {Q({}, Absent), Q({"boleto"}, Absent), Q({"fibra", "boleto"}, Absent),
               Q({}, "PED-1002"), Q({}, "PED-9999")}

\* OpenAI with a key; no key but a placeholder; simulated in spite of a key, in a worker
\* that was not told where the API is; a mode that does not exist.
Settings(mode, key, url) ==
  [OPENAI_MODE |-> mode, OPENAI_API_KEY |-> key, ORDER_STATUS_BASE_URL |-> url]
    @@ [name \in Required \cup DOMAIN Default |-> IF name \in Required THEN "set" ELSE Absent]
MCEnv == {Settings("auto", {"sk"}, "http://api"), Settings(Absent, {"sk", "your-key"}, "http://api"),
          Settings("simulated", {"sk"}, Absent), Settings("off", {"sk"}, "http://api")}
=============================================================================
