------------------------------ MODULE RagProofs ------------------------------
(***************************************************************************)
(* rag.util.ts for every file, question and number of chunks: what         *)
(* splitMarkdownIntoChunks returns are the sections of the file that have  *)
(* text, and what rankChunks returns are the chunks that fit best.         *)
(***************************************************************************)
EXTENDS Rag, DataLemmas, FiniteSetTheorems

Chunk == [title : SUBSET STRING, text : Seq(Line)]

-----------------------------------------------------------------------------
(* Trim.                                                                   *)

\* What trim takes off is blank, and it stops at the first and the last line that are not.
LEMMA TrimKeepsText ==
  ASSUME NEW lines \in Seq(Line)
  PROVE  /\ Trim(lines) \in Seq(Line)
         /\ \A i \in DOMAIN lines : lines[i].kind # "blank" => lines[i] \in Range(Trim(lines))
<1> DEFINE text == {i \in DOMAIN lines : lines[i].kind # "blank"}
<1>1. DOMAIN lines = 1..Len(lines) /\ Len(lines) \in Nat /\ text \in SUBSET Nat
  OBVIOUS
<1>2. CASE text = {}
  BY <1>2 DEF Trim
<1>3. CASE text # {}
  <2>1. /\ Min(text) \in text /\ \A n \in text : Min(text) <= n
        /\ Max(text) \in text /\ \A n \in text : Max(text) >= n
    <3>1. \A n \in text : n <= Len(lines)
      BY <1>1
    <3> HIDE DEF text
    <3>2. QED
      BY <1>1, <1>3, <3>1, MinIsLeast, MaxIsGreatest
  <2>2. PICK lo, hi \in 1..Len(lines) :
          /\ Trim(lines) = SubSeq(lines, lo, hi)
          /\ \A n \in text : lo <= n /\ n <= hi
    <3>1. Min(text) \in 1..Len(lines) /\ Max(text) \in 1..Len(lines)
      BY <1>1, <2>1
    <3>2. Trim(lines) = SubSeq(lines, Min(text), Max(text))
      BY <1>3 DEF Trim
    <3> HIDE DEF text
    <3>3. \A n \in text : Min(text) <= n /\ n <= Max(text)
      BY <1>1, <2>1
    <3>4. QED
      BY <3>1, <3>2, <3>3
  <2>3. /\ Trim(lines) \in Seq(Line)
        /\ Len(Trim(lines)) = IF lo <= hi THEN hi - lo + 1 ELSE 0
        /\ \A i \in 1..(hi - lo + 1) : Trim(lines)[i] = lines[lo + i - 1]
    <3>1. \A i \in lo..hi : lines[i] \in Line
      OBVIOUS
    <3>2. QED
      BY <2>2, <3>1, SubSeqProperties
  <2>4. ASSUME NEW i \in text PROVE lines[i] \in Range(Trim(lines))
    <3>1. i \in Nat /\ lo <= i /\ i <= hi
      BY <1>1, <2>2
    <3>2. i - lo + 1 \in 1..(hi - lo + 1) /\ lo + (i - lo + 1) - 1 = i /\ lo <= hi
      BY <3>1
    <3>3. i - lo + 1 \in DOMAIN Trim(lines) /\ Trim(lines)[i - lo + 1] = lines[i]
      BY <2>3, <3>2
    <3>4. QED
      BY <3>3 DEF Range
  <2>5. QED
    BY <2>3, <2>4
<1>4. QED
  BY <1>2, <1>3

-----------------------------------------------------------------------------
(* splitMarkdownIntoChunks.                                                *)

State == [title : SUBSET STRING, buffer : Seq(Line), chunks : Seq(Chunk)]

\* The section that begins at h has ended by line n: its chunk, if it has text, is there.
Closed(file, n) == {s \in {Section(file, h) : h \in Heads(file) \cap (0..(n - 1))} : s.text # << >>}

\* After n lines the section that began at h is open: it has the title and the buffer, and
\* the sections before it are the chunks.
Open(file, s, n, h) ==
  /\ h \in Heads(file) /\ h <= n
  /\ \A i \in (h + 1)..n : file.lines[i].kind # "heading"
  /\ s.title = Section(file, h).title
  /\ s.buffer = SubSeq(file.lines, h + 1, n)
  /\ Range(s.chunks) = Closed(file, h)

\* flush turns a buffer that has text into a chunk, and empties it.
LEMMA FlushType ==
  ASSUME NEW s \in State
  PROVE  /\ Flush(s) \in State /\ Flush(s).title = s.title /\ Flush(s).buffer = << >>
         /\ Range(Flush(s).chunks) = Range(s.chunks) \cup
              {c \in {[title |-> s.title, text |-> Trim(s.buffer)]} : c.text # << >>}
<1> DEFINE c == [title |-> s.title, text |-> Trim(s.buffer)]
<1>1. c \in Chunk /\ s.chunks \in Seq(Chunk) /\ s.buffer \in Seq(Line) /\ s.title \in SUBSET STRING
  BY TrimKeepsText DEF State, Chunk
<1>2. PICK cs : cs = IF Trim(s.buffer) = << >> THEN s.chunks ELSE Append(s.chunks, c)
  OBVIOUS
<1>3. Flush(s) = [title |-> s.title, buffer |-> << >>, chunks |-> cs]
  BY <1>2 DEF Flush
<1>4. cs \in Seq(Chunk) /\ Range(cs) = Range(s.chunks) \cup {e \in {c} : e.text # << >>}
  <2>1. CASE Trim(s.buffer) = << >>
    <3>1. {e \in {c} : e.text # << >>} = {}
      BY <2>1
    <3> HIDE DEF c
    <3>2. QED
      BY <1>1, <1>2, <2>1, <3>1
  <2>2. CASE Trim(s.buffer) # << >>
    <3>1. {e \in {c} : e.text # << >>} = {c}
      BY <2>2
    <3> HIDE DEF c
    <3>2. QED
      BY <1>1, <1>2, <2>2, <3>1, AppendRange
  <2>3. QED
    BY <2>1, <2>2
<1>5. /\ Flush(s) \in State /\ Flush(s).title = s.title /\ Flush(s).buffer = << >>
      /\ Flush(s).chunks = cs
  <2>1. << >> \in Seq(Line)
    BY EmptySeq
  <2>2. QED
    BY <1>1, <1>3, <1>4, <2>1 DEF State
<1>6. QED
  BY <1>4, <1>5

\* A line that is no heading goes to the open section; a heading closes it and opens the next.
LEMMA ReadLineStep ==
  ASSUME NEW file \in File, NEW n \in Nat, n + 1 \in DOMAIN file.lines,
         NEW s \in State, NEW h, Open(file, s, n, h)
  PROVE  LET t == ReadLine(s, file.lines[n + 1])
         IN  t \in State /\ \E k : Open(file, t, n + 1, k)
<1> DEFINE line == file.lines[n + 1]
           t == ReadLine(s, line)
<1>1. /\ file.lines \in Seq(Line) /\ DOMAIN file.lines = 1..Len(file.lines)
      /\ Len(file.lines) \in Nat /\ line \in Line /\ n + 1 \in 1..Len(file.lines)
      /\ h \in Nat /\ h <= n
  BY DEF File, Open, Heads
<1>2. CASE line.kind = "heading"
  <2>1. Body(file, h) = SubSeq(file.lines, h + 1, n)
    <3> DEFINE after == {i \in DOMAIN file.lines : i > h /\ file.lines[i].kind = "heading"}
    <3>1. after \in SUBSET Nat /\ n + 1 \in after /\ \A i \in after : n + 1 <= i
      <4>1. after \in SUBSET Nat /\ n + 1 \in after
        BY <1>1, <1>2
      <4>2. ASSUME NEW i \in after PROVE n + 1 <= i
        <5>1. i \in Nat /\ i >= h + 1 /\ ~(i \in (h + 1)..n)
          BY <1>1 DEF Open
        <5>2. QED
          BY <1>1, <5>1
      <4>3. QED
        BY <4>1, <4>2
    <3>2. Body(file, h) = SubSeq(file.lines, h + 1, IF after = {} THEN Len(file.lines) ELSE Min(after) - 1)
      BY DEF Body
    <3> HIDE DEF after
    <3>3. Min(after) = n + 1 /\ after # {}
      BY <3>1, MinUnique
    <3>4. Min(after) - 1 = n
      BY <3>3
    <3>5. QED
      BY <3>2, <3>3, <3>4
  <2>2. t = [Flush(s) EXCEPT !.title = line.terms]
    BY <1>2 DEF ReadLine
  <2>3. t \in State /\ t.title = line.terms /\ t.buffer = << >> /\ t.chunks = Flush(s).chunks
    <3>1. Flush(s) \in State /\ Flush(s).buffer = << >> /\ line.terms \in SUBSET STRING
      BY <1>1, FlushType DEF Line
    <3>2. QED
      BY <2>2, <3>1 DEF State
  <2>4. Section(file, h) = [title |-> s.title, text |-> Trim(s.buffer)]
    BY <2>1 DEF Open, Section
  <2>5. n + 1 \in Heads(file) /\ Section(file, n + 1).title = line.terms
    BY <1>1, <1>2 DEF Heads, Section
  <2>6. Closed(file, n + 1) = Closed(file, h) \cup {c \in {Section(file, h)} : c.text # << >>}
    <3>1. ASSUME NEW k \in Heads(file) \cap (0..((n + 1) - 1)) PROVE k \in Heads(file) \cap (0..(h - 1)) \/ k = h
      <4>1. k \in Nat /\ k <= n /\ (k = 0 \/ file.lines[k].kind = "heading")
        BY <1>1 DEF Heads
      <4>2. ~(k \in (h + 1)..n)
        BY <1>1, <4>1 DEF Open
      <4>3. QED
        BY <1>1, <4>1, <4>2
    <3>2. h \in Heads(file) \cap (0..((n + 1) - 1)) /\ 0..(h - 1) \subseteq 0..((n + 1) - 1)
      BY <1>1 DEF Open
    <3>3. Heads(file) \cap (0..((n + 1) - 1)) = (Heads(file) \cap (0..(h - 1))) \cup {h}
      BY <3>1, <3>2
    <3>4. QED
      BY <3>3 DEF Closed
  <2>7. Range(t.chunks) = Closed(file, n + 1)
    BY <2>3, <2>4, <2>6, FlushType DEF Open
  <2>8. t.buffer = SubSeq(file.lines, (n + 1) + 1, n + 1)
    BY <1>1, <2>3, SubSeqEmpty
  <2>9. Open(file, t, n + 1, n + 1)
    BY <1>1, <2>3, <2>5, <2>7, <2>8 DEF Open
  <2>10. QED
    BY <2>3, <2>9
<1>3. CASE line.kind # "heading"
  <2>1. t = [s EXCEPT !.buffer = Append(s.buffer, line)]
    BY <1>3 DEF ReadLine
  <2>2. t \in State /\ t.title = s.title /\ t.chunks = s.chunks /\ t.buffer = Append(s.buffer, line)
    <3>1. \A q \in Seq(Line) : LET r == [s EXCEPT !.buffer = q]
                               IN  r \in State /\ r.title = s.title /\ r.buffer = q /\ r.chunks = s.chunks
      BY DEF State
    <3>2. Append(s.buffer, line) \in Seq(Line)
      BY <1>1, AppendProperties DEF State
    <3> HIDE DEF t, line
    <3>3. QED
      BY <2>1, <3>1, <3>2
  <2>3. Append(SubSeq(file.lines, h + 1, n), line) = SubSeq(file.lines, h + 1, n + 1)
    <3>1. h + 1 \in 1..Len(file.lines) /\ n + 1 \in (h + 1)..Len(file.lines)
      BY <1>1
    <3>2. SubSeq(file.lines, h + 1, n + 1) = SubSeq(file.lines, h + 1, (n + 1) - 1) \o <<line>>
      BY <1>1, <3>1, SubSeqRecursiveSecond
    <3>3. SubSeq(file.lines, h + 1, n) \in Seq(Line)
      <4>1. \A i \in (h + 1)..n : file.lines[i] \in Line
        BY <1>1
      <4>2. QED
        BY <1>1, <4>1, SubSeqProperties
    <3>4. (n + 1) - 1 = n
      OBVIOUS
    <3>5. \A q \in Seq(Line) : Append(q, line) = q \o <<line>>
      BY <1>1, AppendIsConcat
    <3>6. QED
      BY <3>2, <3>3, <3>4, <3>5
  <2>4. \A i \in (h + 1)..(n + 1) : file.lines[i].kind # "heading"
    <3>1. \A i \in (h + 1)..(n + 1) : i \in (h + 1)..n \/ i = n + 1
      BY <1>1
    <3>2. QED
      BY <1>3, <3>1 DEF Open
  <2>5. Open(file, t, n + 1, h)
    <3>1. t.buffer = SubSeq(file.lines, h + 1, n + 1)
      BY <2>2, <2>3 DEF Open
    <3>2. /\ h \in Heads(file) /\ h <= n + 1 /\ t.title = Section(file, h).title
          /\ Range(t.chunks) = Closed(file, h)
      BY <1>1, <2>2 DEF Open
    <3> HIDE DEF t, line
    <3>3. QED
      BY <2>4, <3>1, <3>2 DEF Open
  <2>6. QED
    BY <2>2, <2>5
<1>4. QED
  BY <1>2, <1>3

\* The loop is a function of the number of lines read, and some section is open after each.
LEMMA ReadOpens ==
  ASSUME NEW file \in File
  PROVE  Read(file) \in State /\ \E h : Open(file, Read(file), Len(file.lines), h)
<1> DEFINE N == Len(file.lines)
           start == [title |-> file.name, buffer |-> << >>, chunks |-> << >>]
           Loop(f) == f = [n \in 0..N |-> IF n = 0 THEN start ELSE ReadLine(f[n - 1], file.lines[n])]
           after == CHOOSE f : Loop(f)
           Good(s, n) == s \in State /\ \E h : Open(file, s, n, h)
<1>1. N \in Nat /\ DOMAIN file.lines = 1..N /\ \A n \in 1..N : file.lines[n] \in Line
  BY DEF File
<1>2. Read(file) = after[N]
  BY DEF Read
<1>3. start \in State
  <2>1. << >> \in Seq(Line) /\ << >> \in Seq(Chunk) /\ file.name \in SUBSET STRING
    BY EmptySeq DEF File
  <2>2. QED
    BY <2>1 DEF State
<1> HIDE DEF N
<1>4. Loop(after)
  <2> DEFINE d == [n \in 0..N |-> [s \in State |-> IF n = 0 THEN s ELSE ReadLine(s, file.lines[n])]]
  <2>1. d \in [0..N -> [State -> State]]
    <3>1. ASSUME NEW s \in State, NEW line \in Line PROVE ReadLine(s, line) \in State
      <4>1. Flush(s) \in State /\ line.terms \in SUBSET STRING
        BY FlushType DEF Line
      <4>2. CASE line.kind = "heading"
        <5>1. \A r \in State, t \in SUBSET STRING : [r EXCEPT !.title = t] \in State
          BY DEF State
        <5>2. QED
          BY <4>1, <4>2, <5>1 DEF ReadLine
      <4>3. CASE line.kind # "heading"
        <5>1. \A r \in State, b \in Seq(Line) : [r EXCEPT !.buffer = b] \in State
          BY DEF State
        <5>2. Append(s.buffer, line) \in Seq(Line)
          BY AppendProperties DEF State
        <5>3. QED
          BY <4>3, <5>1, <5>2 DEF ReadLine
      <4>4. QED
        BY <4>2, <4>3
    <3>2. \A n \in 0..N : n # 0 => n \in 1..N
      BY <1>1
    <3>3. QED
      BY <1>1, <3>1, <3>2
  <2>2. PICK f \in [0..N -> State] : Recurs(f, start, d, 0, N)
    <3> HIDE DEF d, start
    <3>1. 0 \in Nat /\ 0 <= N
      BY <1>1
    <3>2. QED
      BY <1>1, <1>3, <2>1, <3>1, Recursion
  <2>3. ASSUME NEW n \in 0..N PROVE f[n] = IF n = 0 THEN start ELSE ReadLine(f[n - 1], file.lines[n])
    <3>1. CASE n = 0
      BY <2>2, <3>1 DEF Recurs
    <3>2. CASE n # 0
      <4>1. n - 1 \in 0..N /\ f[n - 1] \in State
        BY <1>1, <2>2, <3>2
      <4>2. f[n] = d[n][f[n - 1]]
        BY <2>2, <3>2 DEF Recurs
      <4>3. QED
        BY <3>2, <4>1, <4>2
    <3>3. QED
      BY <3>1, <3>2
  <2>4. Loop(f)
    <3> HIDE DEF start, d
    <3>1. QED
      BY <2>2, <2>3
  <2>5. QED
    BY <2>4
<1>5. after[0] = start /\ \A n \in Nat : n + 1 \in 1..N => after[n + 1] = ReadLine(after[n], file.lines[n + 1])
  <2> HIDE DEF after, start
  <2>1. \A n \in 0..N : after[n] = IF n = 0 THEN start ELSE ReadLine(after[n - 1], file.lines[n])
    BY <1>4
  <2>2. 0 \in 0..N /\ \A n \in Nat : n + 1 \in 1..N => n + 1 \in 0..N /\ n + 1 # 0 /\ (n + 1) - 1 = n
    BY <1>1
  <2> HIDE DEF Loop
  <2>3. QED
    BY <2>1, <2>2
<1>6. Good(after[0], 0)
  <2>1. Open(file, start, 0, 0)
    <3>1. 0 \in Heads(file)
      BY <1>1 DEF Heads, N
    <3>2. start.title = Section(file, 0).title
      BY DEF Section
    <3>3. start.buffer = SubSeq(file.lines, 0 + 1, 0)
      BY SubSeqEmpty
    <3>4. Range(start.chunks) = Closed(file, 0)
      <4>1. 0..(0 - 1) = {}
        OBVIOUS
      <4>2. Closed(file, 0) = {} /\ Range(<< >>) = {}
        BY <4>1 DEF Closed, Range
      <4>3. QED
        BY <4>2
    <3>5. (0 + 1)..0 = {}
      OBVIOUS
    <3> HIDE DEF start
    <3>6. QED
      BY <3>1, <3>2, <3>3, <3>4, <3>5 DEF Open
  <2> HIDE DEF start
  <2>2. QED
    BY <1>3, <1>5, <2>1
<1> HIDE DEF after
<1>7. ASSUME NEW n \in Nat, n + 1 \in 1..N, Good(after[n], n) PROVE Good(after[n + 1], n + 1)
  <2>1. after[n + 1] = ReadLine(after[n], file.lines[n + 1]) /\ n + 1 \in DOMAIN file.lines
    BY <1>1, <1>5, <1>7
  <2>2. PICK s, h : s = after[n] /\ s \in State /\ Open(file, s, n, h)
    BY <1>7
  <2>3. ReadLine(s, file.lines[n + 1]) \in State /\ \E k : Open(file, ReadLine(s, file.lines[n + 1]), n + 1, k)
    BY <1>7, <2>1, <2>2, ReadLineStep
  <2>4. QED
    BY <2>1, <2>2, <2>3
<1>8. Good(after[N], N)
  <2> DEFINE S == {n \in Nat : n \in 0..N => Good(after[n], n)}
  <2> HIDE DEF Good
  <2>1. 0 \in S
    BY <1>6
  <2>2. ASSUME NEW n \in Nat, n \in S PROVE n + 1 \in S
    BY <1>1, <1>7, <2>2
  <2> HIDE DEF S
  <2>3. Nat \subseteq S
    BY <2>1, <2>2, Induction
  <2>4. QED
    BY <1>1, <2>3 DEF S
<1>9. QED
  BY <1>2, <1>8 DEF N

\* splitMarkdownIntoChunks returns the sections of the file that have text, and no more: no
\* section is lost, cut, merged with another one, or given a title that is not its own.
THEOREM SplitMarkdownSections ==
  ASSUME NEW file \in File
  PROVE  SplitMarkdown(file) \in Seq(Chunk) /\ Range(SplitMarkdown(file)) = Sections(file)
<1>1. PICK s, h : s = Read(file) /\ s \in State /\ Open(file, s, Len(file.lines), h)
  BY ReadOpens
<1> DEFINE N == Len(file.lines)
<1>2. N \in Nat /\ h \in Heads(file) /\ h \in 0..N /\ DOMAIN file.lines = 1..N
  BY <1>1 DEF Open, Heads, File
<1>3. /\ SplitMarkdown(file) \in Seq(Chunk)
      /\ Range(SplitMarkdown(file)) = Closed(file, h) \cup
           {c \in {[title |-> s.title, text |-> Trim(s.buffer)]} : c.text # << >>}
  <2>1. SplitMarkdown(file) = Flush(s).chunks /\ Flush(s) \in State
    BY <1>1, FlushType DEF SplitMarkdown
  <2>2. Flush(s).chunks \in Seq(Chunk)
    BY <2>1 DEF State
  <2>3. QED
    BY <1>1, <2>1, <2>2, FlushType DEF Open
<1>4. Section(file, h) = [title |-> s.title, text |-> Trim(s.buffer)]
  <2> DEFINE last == {i \in DOMAIN file.lines : i > h /\ file.lines[i].kind = "heading"}
  <2>1. last = {}
    <3> SUFFICES ASSUME NEW i \in last PROVE FALSE
      OBVIOUS
    <3>1. i \in (h + 1)..N
      BY <1>2
    <3>2. QED
      BY <1>1, <3>1 DEF Open
  <2>2. Body(file, h) = SubSeq(file.lines, h + 1, N)
    BY <2>1 DEF Body
  <2>3. QED
    BY <1>1, <2>2 DEF Open, Section
<1>5. \A k \in Heads(file) : k = h \/ k \in 0..(h - 1)
  <2> SUFFICES ASSUME NEW k \in Heads(file), k # h PROVE k \in 0..(h - 1)
    OBVIOUS
  <2>1. k \in 0..N /\ (k = 0 \/ file.lines[k].kind = "heading")
    BY DEF Heads
  <2>2. ~(k \in (h + 1)..N)
    BY <1>1, <1>2, <2>1 DEF Open
  <2>3. QED
    BY <1>2, <2>1, <2>2
<1>6. Sections(file) = Closed(file, h) \cup {c \in {Section(file, h)} : c.text # << >>}
  <2>1. Heads(file) = (Heads(file) \cap (0..(h - 1))) \cup {h}
    BY <1>2, <1>5
  <2>2. QED
    BY <2>1 DEF Sections, Closed
<1>7. QED
  BY <1>3, <1>4, <1>6

-----------------------------------------------------------------------------
(* rankChunks.                                                             *)

\* A score is a natural number, as no question has infinitely many terms.
LEMMA ScoreType ==
  ASSUME NEW terms, IsFiniteSet(terms), NEW chunk
  PROVE  Score(terms, chunk) \in Nat
BY FS_Intersection, FS_CardinalityType DEF Score

\* The order of two chunks is strict and total: sorting has one result.
LEMMA BeforeIsOrder ==
  ASSUME NEW terms, IsFiniteSet(terms), NEW chunks, DOMAIN chunks \in SUBSET Nat
  PROVE  \A i, j, k \in DOMAIN chunks :
           /\ ~ Before(terms, chunks, i, i)
           /\ i = j \/ Before(terms, chunks, i, j) \/ Before(terms, chunks, j, i)
           /\ Before(terms, chunks, i, j) => ~ Before(terms, chunks, j, i)
           /\ Before(terms, chunks, i, j) /\ Before(terms, chunks, j, k) => Before(terms, chunks, i, k)
<1>1. \A i \in DOMAIN chunks : i \in Nat /\ Score(terms, chunks[i]) \in Nat
  BY ScoreType
<1>2. QED
  BY <1>1 DEF Before

\* The hits can be numbered in that order, and Ranked is what they are then.
LEMMA RankedOrder ==
  ASSUME NEW terms, IsFiniteSet(terms), NEW T, NEW chunks \in Seq(T)
  PROVE  LET hits == Hits(terms, chunks)
             size == Cardinality(hits)
         IN  /\ size \in Nat
             /\ \E p \in [1..size -> hits] :
                  /\ Ranked(terms, chunks) = [n \in 1..size |-> chunks[p[n]]]
                  /\ \A i \in hits : \E n \in 1..size : p[n] = i
                  /\ \A m, n \in 1..size : m < n => Before(terms, chunks, p[m], p[n])
<1> DEFINE hits == Hits(terms, chunks)
           size == Cardinality(hits)
           before(i) == Preceding(terms, chunks, i)
           r == [i \in hits |-> Cardinality(before(i)) + 1]
           p == [n \in 1..size |-> CHOOSE i \in hits : Cardinality(before(i)) = n - 1]
<1>1. DOMAIN chunks = 1..Len(chunks) /\ Len(chunks) \in Nat /\ DOMAIN chunks \in SUBSET Nat
  OBVIOUS
<1>2. hits \in SUBSET DOMAIN chunks /\ IsFiniteSet(hits) /\ size \in Nat
  <2>1. IsFiniteSet(1..Len(chunks)) /\ hits \in SUBSET (1..Len(chunks))
    BY <1>1, FS_Interval DEF Hits
  <2>2. QED
    BY <1>1, <2>1, FS_Subset, FS_CardinalityType
<1>3. \A i \in hits : before(i) \in SUBSET hits /\ IsFiniteSet(before(i)) /\ Cardinality(before(i)) \in Nat
  <2>1. \A i \in hits : before(i) \in SUBSET hits
    BY DEF Preceding
  <2>2. QED
    BY <1>2, <2>1, FS_Subset, FS_CardinalityType
<1>4. \A i, j, k \in hits :
        /\ ~ Before(terms, chunks, i, i)
        /\ i = j \/ Before(terms, chunks, i, j) \/ Before(terms, chunks, j, i)
        /\ Before(terms, chunks, i, j) => ~ Before(terms, chunks, j, i)
        /\ Before(terms, chunks, i, j) /\ Before(terms, chunks, j, k) => Before(terms, chunks, i, k)
  BY <1>1, <1>2, BeforeIsOrder
<1> HIDE DEF hits, size
<1>5. ASSUME NEW i \in hits, NEW S \in SUBSET hits, before(i) \subseteq S \ {i}, i \in S
      PROVE  Cardinality(before(i)) < Cardinality(S)
  <2>1. IsFiniteSet(S) /\ Cardinality(S) \in Nat
    BY <1>2, FS_Subset, FS_CardinalityType
  <2>2. IsFiniteSet(S \ {i}) /\ Cardinality(S \ {i}) = Cardinality(S) - 1
    BY <1>5, <2>1, FS_RemoveElement
  <2>3. Cardinality(before(i)) <= Cardinality(S \ {i})
    BY <1>5, <2>2, FS_Subset
  <2>4. QED
    BY <1>3, <2>1, <2>2, <2>3
<1>6. ASSUME NEW i \in hits, NEW j \in hits, Before(terms, chunks, i, j)
      PROVE  Cardinality(before(i)) < Cardinality(before(j))
  <2>1. before(i) \subseteq before(j) \ {i} /\ i \in before(j)
    BY <1>4, <1>6 DEF Preceding, hits
  <2>2. QED
    BY <1>3, <1>5, <2>1
<1>7. r \in Injection(hits, 1..size)
  <2>1. \A i \in hits : Cardinality(before(i)) < size
    <3>1. \A i \in hits : before(i) \subseteq hits \ {i}
      BY <1>3, <1>4 DEF Preceding
    <3>2. QED
      BY <1>5, <3>1 DEF size
  <2>2. r \in [hits -> 1..size]
    BY <1>2, <1>3, <2>1
  <2>3. ASSUME NEW i \in hits, NEW j \in hits, r[i] = r[j] PROVE i = j
    <3>1. Cardinality(before(i)) = Cardinality(before(j))
      BY <1>3, <2>3
    <3>2. QED
      BY <1>3, <1>4, <1>6, <3>1
  <2>4. QED
    BY <2>2, <2>3 DEF Injection, IsInjective
<1>8. r \in Surjection(hits, 1..size)
  <2>1. IsFiniteSet(1..size) /\ Cardinality(1..size) = size
    BY <1>2, FS_Interval
  <2> HIDE DEF r
  <2>2. QED
    BY <1>2, <1>7, <2>1, FS_Injection DEF size
<1>9. ASSUME NEW n \in 1..size PROVE p[n] \in hits /\ Cardinality(before(p[n])) = n - 1
  <2>1. \E i \in hits : r[i] = n
    BY <1>8 DEF Surjection
  <2>2. \E i \in hits : Cardinality(before(i)) = n - 1
    BY <1>2, <1>3, <2>1
  <2>3. QED
    BY <2>2
<1>10. Ranked(terms, chunks) = [n \in 1..size |-> chunks[p[n]]]
  BY DEF Ranked, hits, size
<1>11. p \in [1..size -> hits]
  BY <1>9
<1> HIDE DEF p
<1>12. \A i \in hits : \E n \in 1..size : p[n] = i
  <2> SUFFICES ASSUME NEW i \in hits PROVE \E n \in 1..size : p[n] = i
    OBVIOUS
  <2>1. PICK n \in 1..size : n = r[i] /\ n = Cardinality(before(i)) + 1
    BY <1>7 DEF Injection
  <2>2. p[n] \in hits /\ Cardinality(before(p[n])) = Cardinality(before(i))
    BY <1>3, <1>9, <2>1
  <2>3. QED
    BY <1>3, <1>4, <1>6, <2>2
<1>13. \A m, n \in 1..size : m < n => Before(terms, chunks, p[m], p[n])
  <2> SUFFICES ASSUME NEW m \in 1..size, NEW n \in 1..size, m < n
               PROVE  Before(terms, chunks, p[m], p[n])
    OBVIOUS
  <2>1. /\ p[m] \in hits /\ Cardinality(before(p[m])) = m - 1
        /\ p[n] \in hits /\ Cardinality(before(p[n])) = n - 1
    BY <1>9
  <2>2. ~ (Cardinality(before(p[n])) < Cardinality(before(p[m]))) /\ p[m] # p[n]
    BY <1>2, <2>1
  <2>3. QED
    BY <1>4, <1>6, <2>1, <2>2
<1>14. QED
  BY <1>2, <1>10, <1>11, <1>12, <1>13 DEF hits, size

\* rankChunks returns the best chunks, best first, for every question and number of chunks;
\* ties go to the chunk that was loaded first.
THEOREM RankChunksBest ==
  ASSUME NEW terms, IsFiniteSet(terms), NEW T, NEW chunks \in Seq(T), NEW k \in Nat
  PROVE  /\ RankChunks(terms, chunks, k) \in Seq(T)
         /\ AreBest(RankChunks(terms, chunks, k), terms, chunks, k)
<1> DEFINE hits == Hits(terms, chunks)
           size == Cardinality(hits)
           score(c) == Score(terms, c)
           best == RankChunks(terms, chunks, k)
<1>1. size \in Nat /\ \A i \in hits : i \in DOMAIN chunks /\ i \in Nat /\ score(chunks[i]) > 0
  BY RankedOrder DEF Hits
<1>2. PICK p \in [1..size -> hits] :
        /\ Ranked(terms, chunks) = [n \in 1..size |-> chunks[p[n]]]
        /\ \A i \in hits : \E n \in 1..size : p[n] = i
        /\ \A m, n \in 1..size : m < n => Before(terms, chunks, p[m], p[n])
  BY RankedOrder
<1>3. \A c : score(c) \in Nat
  BY ScoreType
<1>4. \A i \in DOMAIN chunks : score(chunks[i]) = 0 \/ i \in hits
  BY <1>3 DEF Hits
<1> HIDE DEF hits, size, score
<1> DEFINE l == Min({k, size})
<1>5. l \in Nat /\ l <= k /\ l <= size /\ (l = k \/ l = size)
  <2>1. {k, size} \in SUBSET Nat /\ {k, size} # {}
    BY <1>1
  <2>2. l \in {k, size} /\ \A n \in {k, size} : l <= n
    BY <2>1, MinIsLeast
  <2>3. QED
    BY <1>1, <2>2
<1>6. best \in Seq(T) /\ Len(best) = l /\ \A n \in 1..l : best[n] = chunks[p[n]]
  <2>1. /\ Len(Ranked(terms, chunks)) = size
        /\ \A n \in 1..size : Ranked(terms, chunks)[n] = chunks[p[n]] /\ chunks[p[n]] \in T
    BY <1>1, <1>2
  <2>2. best = SubSeq(Ranked(terms, chunks), 1, l)
    BY <2>1 DEF RankChunks, Firsts
  <2> HIDE DEF l, best
  <2>3. \A n \in 1..l : n \in 1..size
    BY <1>1, <1>5
  <2>4. \A n \in 1..l : Ranked(terms, chunks)[n] \in T
    BY <2>1, <2>3
  <2>5. /\ best \in Seq(T)
        /\ Len(best) = IF 1 <= l THEN l - 1 + 1 ELSE 0
        /\ \A n \in 1..(l - 1 + 1) : best[n] = Ranked(terms, chunks)[1 + n - 1]
    BY <1>5, <2>2, <2>4, SubSeqProperties
  <2>6. l - 1 + 1 = l /\ \A n \in 1..l : 1 + n - 1 = n
    BY <1>5
  <2>7. Len(best) = l
    BY <1>5, <2>5, <2>6
  <2>8. QED
    BY <2>1, <2>3, <2>5, <2>6, <2>7
<1> HIDE DEF l, best
<1>7. DOMAIN best = 1..l /\ Range(best) = {chunks[p[n]] : n \in 1..l} /\ 1..l \subseteq 1..size
  <2>1. DOMAIN best = 1..l /\ 1..l \subseteq 1..size
    BY <1>1, <1>5, <1>6
  <2>2. Range(best) = {best[n] : n \in 1..l}
    BY <2>1 DEF Range
  <2>3. QED
    BY <1>6, <2>1, <2>2
<1>8. \A m, n \in 1..size : m <= n =>
        /\ score(chunks[p[m]]) \in Nat /\ score(chunks[p[n]]) \in Nat
        /\ score(chunks[p[m]]) >= score(chunks[p[n]])
  <2> SUFFICES ASSUME NEW m \in 1..size, NEW n \in 1..size, m <= n
               PROVE  score(chunks[p[m]]) >= score(chunks[p[n]])
    BY <1>3
  <2>1. CASE m = n
    BY <1>3, <2>1
  <2>2. CASE m < n
    <3>1. Before(terms, chunks, p[m], p[n])
      BY <1>2, <2>2
    <3>2. QED
      BY <1>3, <3>1 DEF Before, score
  <2>3. m = n \/ m < n
    BY <1>1
  <2>4. QED
    BY <2>1, <2>2, <2>3
<1>9. Range(best) \subseteq Range(chunks)
  <2>1. \A n \in 1..l : p[n] \in DOMAIN chunks
    BY <1>1, <1>2, <1>7
  <2>2. \A i \in DOMAIN chunks : chunks[i] \in Range(chunks)
    BY DEF Range
  <2>3. QED
    BY <1>7, <2>1, <2>2
<1>10. ASSUME NEW n \in 1..l
       PROVE  score(best[n]) > 0 /\ \A m \in 1..n : score(best[m]) >= score(best[n])
  <2>1. \A m \in 1..n : m \in 1..l /\ m \in 1..size /\ n \in 1..size /\ m <= n
    BY <1>1, <1>5
  <2>2. score(best[n]) > 0
    BY <1>1, <1>2, <1>6, <1>7
  <2>3. QED
    BY <1>6, <1>8, <2>1, <2>2
<1>11. ASSUME NEW i \in DOMAIN chunks, score(chunks[i]) # 0, chunks[i] \notin Range(best)
       PROVE  /\ Len(best) = k
              /\ \A c \in Range(best) :
                   \/ score(c) > score(chunks[i])
                   \/ score(c) = score(chunks[i]) /\ \E j \in 1..i : chunks[j] = c
  <2>1. PICK m \in 1..size : p[m] = i
    BY <1>2, <1>4, <1>11
  <2>2. m \notin 1..l
    BY <1>7, <1>11, <2>1
  <2>3. l = k
    BY <1>1, <1>5, <2>2
  <2>4. ASSUME NEW c \in Range(best)
        PROVE  \/ score(c) > score(chunks[i])
               \/ score(c) = score(chunks[i]) /\ \E j \in 1..i : chunks[j] = c
    <3>1. PICK n \in 1..l : c = chunks[p[n]]
      BY <1>7
    <3>2. n \in 1..size /\ n < m
      BY <1>1, <1>5, <2>2
    <3>3. Before(terms, chunks, p[n], i)
      BY <1>2, <2>1, <3>2
    <3>4. p[n] \in DOMAIN chunks /\ DOMAIN chunks = 1..Len(chunks) /\ Len(chunks) \in Nat
      BY <1>1, <1>2, <3>2
    <3>5. score(c) > score(chunks[i]) \/ (score(c) = score(chunks[i]) /\ p[n] < i)
      BY <3>1, <3>3 DEF Before, score
    <3>6. p[n] < i => p[n] \in 1..i
      BY <3>4
    <3>7. QED
      BY <3>1, <3>5, <3>6
  <2>5. QED
    BY <1>6, <2>3, <2>4
<1>12. QED
  BY <1>5, <1>6, <1>7, <1>9, <1>10, <1>11 DEF AreBest, best, score

=============================================================================
