-------------------------------- MODULE Rag ---------------------------------
(***************************************************************************)
(* rag.util.ts: markdown to chunks, and the chunks that fit a question.    *)
(* A text stands for the set of its terms (tokenize); a line of markdown   *)
(* is a heading, a text or blank.                                          *)
(***************************************************************************)
EXTENDS Naturals, FiniteSets, SequencesExt

Line == [kind : {"heading", "text", "blank"}, terms : SUBSET STRING]
File == [name : SUBSET STRING, lines : Seq(Line)]

Trim(lines) ==
  LET text == {i \in DOMAIN lines : lines[i].kind # "blank"}
  IN  IF text = {} THEN << >> ELSE SubSeq(lines, Min(text), Max(text))

\* The end of a section; one without text leaves no chunk.
Flush(s) ==
  LET text == Trim(s.buffer)
  IN  [title  |-> s.title,
       buffer |-> << >>,
       chunks |-> IF text = << >> THEN s.chunks
                  ELSE Append(s.chunks, [title |-> s.title, text |-> text])]

ReadLine(s, line) ==
  IF line.kind = "heading" THEN [Flush(s) EXCEPT !.title = line.terms]
                           ELSE [s EXCEPT !.buffer = Append(@, line)]

\* The loop over the lines, after each one.
Read(file) ==
  LET after[n \in 0..Len(file.lines)] ==
        IF n = 0 THEN [title |-> file.name, buffer |-> << >>, chunks |-> << >>]
                 ELSE ReadLine(after[n - 1], file.lines[n])
  IN  after[Len(file.lines)]

\* Bug: the last section is not flushed.
SplitUpToLastHeading(file) == Read(file).chunks

\* splitMarkdownIntoChunks.
SplitMarkdown(file) == Flush(Read(file)).chunks

\* scoreChunk; the terms of the query are a Set.
Score(terms, chunk) ==
  Cardinality(terms \cap (chunk.title \cup UNION {line.terms : line \in Range(chunk.text)}))

\* The order of the chunks that fit; Array.prototype.sort is stable.
Before(terms, chunks, i, j) ==
  \/ Score(terms, chunks[i]) > Score(terms, chunks[j])
  \/ Score(terms, chunks[i]) = Score(terms, chunks[j]) /\ i < j

Hits(terms, chunks) == {i \in DOMAIN chunks : Score(terms, chunks[i]) > 0}
Preceding(terms, chunks, i) == {j \in Hits(terms, chunks) : Before(terms, chunks, j, i)}

\* The hits in that order: the n-th one has n - 1 before it.
Ranked(terms, chunks) ==
  [n \in 1..Cardinality(Hits(terms, chunks)) |->
     chunks[CHOOSE i \in Hits(terms, chunks) : Cardinality(Preceding(terms, chunks, i)) = n - 1]]

Firsts(s, k) == SubSeq(s, 1, Min({k, Len(s)}))

\* Bug: the chunks are cut before they are sorted.
RankCut(terms, chunks, k) == Ranked(terms, Firsts(chunks, k))

\* rankChunks.
RankChunks(terms, chunks, k) == Firsts(Ranked(terms, chunks), k)

-----------------------------------------------------------------------------
(* What they are for.                                                      *)

\* The sections of a file, by the lines they begin after.
Heads(file) == {h \in 0..Len(file.lines) : h = 0 \/ file.lines[h].kind = "heading"}
Body(file, h) ==
  LET after == {i \in DOMAIN file.lines : i > h /\ file.lines[i].kind = "heading"}
  IN  SubSeq(file.lines, h + 1, IF after = {} THEN Len(file.lines) ELSE Min(after) - 1)
Section(file, h) ==
  [title |-> IF h = 0 THEN file.name ELSE file.lines[h].terms, text |-> Trim(Body(file, h))]
Sections(file) == {s \in {Section(file, h) : h \in Heads(file)} : s.text # << >>}

\* The k best chunks, best first: a chunk is left out only if it shares no term with the
\* question, or if there is no room and it has fewer of them than each one that is in, or
\* as many and comes later.
AreBest(best, terms, chunks, k) ==
  LET score(c) == Score(terms, c) IN
  /\ Len(best) <= k /\ Range(best) \subseteq Range(chunks)
  /\ \A n \in DOMAIN best :
       score(best[n]) > 0 /\ \A m \in 1..n : score(best[m]) >= score(best[n])
  /\ \A i \in DOMAIN chunks : chunks[i] \in Range(best) \/ score(chunks[i]) = 0 \/
       /\ Len(best) = k
       /\ \A c \in Range(best) :
            \/ score(c) > score(chunks[i])
            \/ score(c) = score(chunks[i]) /\ \E j \in 1..i : chunks[j] = c

=============================================================================
