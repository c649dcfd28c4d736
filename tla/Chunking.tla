------------------------------ MODULE Chunking ------------------------------
(***************************************************************************)
(* How a parsed document becomes chunks to embed (ai/rag/typed_chunk.go).  *)
(*                                                                         *)
(* Text is cut at the last separator of the best kind in the second half   *)
(* of what the token budget admits, and the next piece starts inside the   *)
(* previous one, by the overlap.  A table is packed row by row under its   *)
(* header; a row that does not fit is cut into pieces.  More chunks than   *)
(* the limit, or a header without room for a row, mark the document as     *)
(* truncated, and the indexer then publishes nothing.                      *)
(*                                                                         *)
(* A rune is one of its classes: an ASCII letter or digit, of which four   *)
(* make a token; a Han rune or a full stop, a token each; a space; and the *)
(* blank line that joins two sections.  A table row is its number of       *)
(* tokens, without a separator inside.                                     *)
(***************************************************************************)
EXTENDS Integers, Sequences, FiniteSets, SequencesExt, FiniteSetsExt

CONSTANTS MaxRunes,        \* runes of a text
          MaxRows          \* rows of a table

VARIABLES input, sections, chunks, section, start, pending, truncated

vars == <<input, sections, chunks, section, start, pending, truncated>>

Blank == {"space", "line"}
Separators == <<"line", "dot", "space">>

\* EstimateTokens: a run of n ASCII runes is n / 4 tokens, rounded up.
EstimateTokens(s) ==
  LET step(acc, r) ==
        IF r = "ascii" THEN [acc EXCEPT !.run = @ + 1]
        ELSE [count |-> acc.count + (acc.run + 3) \div 4 + (IF r \in Blank THEN 0 ELSE 1), run |-> 0]
      end == FoldLeft(step, [count |-> 0, run |-> 0], s)
  IN end.count + (end.run + 3) \div 4

\* The budget and the overlap as they are used.
NormalizeChunkOptions(budget, overlap) ==
  LET b == IF budget <= 0 THEN 3 ELSE budget
      o == IF overlap = 0 /\ budget <= 0 THEN 1 ELSE overlap
  IN [budget |-> b, overlap |-> IF o >= b THEN b \div 8 ELSE o]

\* Two text sections of one kind, heading and place become one.
CoalesceTypedSections(texts, alike) ==
  IF Len(texts) = 2 /\ alike THEN <<texts[1] \o <<"line">> \o texts[2]>> ELSE texts

Trimmed == {s \in UNION {[1..n -> {"ascii", "han", "dot", "space"}] : n \in 1..MaxRunes} :
              s[1] # "space" /\ s[Len(s)] # "space"}

Options == {NormalizeChunkOptions(o[1], o[2]) : o \in {<<1, 0>>, <<2, 1>>, <<2, 5>>, <<3, 2>>, <<0, 0>>, <<4, 1>>}}

TextInputs ==
  [kind : {"text"}, texts : {<<s>> : s \in Trimmed}
                            \cup {<<s, t>> : s, t \in {u \in Trimmed : Len(u) \in {1, 3}}},
   alike : BOOLEAN, heading : {0, 1}, options : Options, maxChunks : {2, 99}]

TableInputs ==
  [kind : {"table"}, rows : UNION {[1..n -> 1..4] : n \in 0..MaxRows}, header : 0..2, rowStart : {0, 5},
   heading : {0, 1}, options : {NormalizeChunkOptions(b, 0) : b \in 2..5}, maxChunks : {2, 99}]

\* Texts of one section need no flag, and only a few inputs are cut short.
Sensible(i) ==
  /\ i.kind = "text" => (i.alike => Len(i.texts) = 2)
  /\ i.kind = "text" /\ i.maxChunks = 2 => i.options.overlap = 0
  /\ i.kind = "text" /\ i.heading = 1 => i.options.budget \in {2, 4}

Init ==
  /\ input \in {i \in TextInputs \cup TableInputs : Sensible(i)}
  /\ sections = (IF input.kind = "text" THEN CoalesceTypedSections(input.texts, input.alike) ELSE <<>>)
  /\ chunks = <<>> /\ section = 1 /\ start = 1 /\ pending = {}
  /\ truncated = FALSE

Budget == input.options.budget
BodyBudget == Max({1, Budget - input.heading - (IF input.heading = 0 THEN 0 ELSE 1)})

\* The heading goes in front of a chunk when the budget admits it.
AddHeading(tokens) == IF tokens + input.heading <= Budget THEN tokens + input.heading ELSE tokens

----------------------------------------------------------------------------
(* Text.  A piece is the runes from..to - 1. *)

\* The tokens that the runes from..to start, counted forwards from `from` on.
Starts(s, from, to) ==
  LET run(i) == i - 1 - Max({from - 1} \cup {j \in from..i - 1 : s[j] # "ascii"})
  IN {i \in from..to : s[i] \notin Blank /\ (s[i] = "ascii" => run(i) % 4 = 0)}

FittingTokenEnd(s, from, budget) ==
  Min({Len(s) + 1} \cup {e \in from..Len(s) : Cardinality(Starts(s, from, e)) > budget})

\* The places to cut at one kind of separator; a decimal point is none.
SeparatorCuts(s, from, minimum, end, separator) ==
  {cut \in Max({minimum, from + 1})..end :
     /\ s[cut - 1] = separator
     /\ ~(separator = "dot" /\ cut > 2 /\ cut <= Len(s) /\ s[cut - 2] = "ascii" /\ s[cut] = "ascii")}

PreferredSplitEnd(s, from, minimum, end) ==
  LET usable == {k \in DOMAIN Separators : SeparatorCuts(s, from, minimum, end, Separators[k]) # {}}
  IN IF usable = {} THEN end ELSE Max(SeparatorCuts(s, from, minimum, end, Separators[Min(usable)]))

\* The same tokens counted backwards from the end of a piece.
StartsBackwards(s, from, to) ==
  LET run(i) == Min({to + 1} \cup {j \in i + 1..to : s[j] # "ascii"}) - i - 1
  IN {i \in from..to : s[i] \notin Blank /\ (s[i] = "ascii" => run(i) % 4 = 0)}

OverlapTokenStart(s, from, end, overlap) ==
  IF overlap <= 0 THEN end
  ELSE LET next == Min({end} \cup {n \in from..end - 1 :
                          Cardinality(StartsBackwards(s, n, end - 1)) <= overlap})
           boundary == {i \in next..end - 2 : s[i] \in Blank \cup {"dot"}}
       IN IF boundary = {} THEN next ELSE Min(boundary) + 1

\* One piece of the section: where it ends, and where the next one starts.
PieceEnd(s, from, budget) ==
  LET fitting == FittingTokenEnd(s, from, budget)
  IN IF fitting > Len(s) THEN fitting
     ELSE PreferredSplitEnd(s, from, FittingTokenEnd(s, from, Max({1, budget \div 2})), fitting)

NextStart(s, from, end, budget) ==
  LET next == OverlapTokenStart(s, from, end, Min({input.options.overlap, budget - 1}))
  IN IF next <= from THEN end ELSE next

\* One turn of splitTextByTokens, with the chunk it adds to the result.
SplitTextByTokens ==
  /\ input.kind = "text" /\ ~truncated /\ section <= Len(sections)
  /\ UNCHANGED <<input, sections, pending>>
  /\ LET s == sections[section]
         end == PieceEnd(s, start, BodyBudget)
         ink == {i \in start..end - 1 : s[i] \notin Blank}
         chunk == [section |-> section, from |-> start, to |-> end - 1,
                   tokens |-> AddHeading(EstimateTokens(SubSeq(s, start, end - 1)))]
         last == end > Len(s)
     IN IF ink # {} /\ Len(chunks) >= input.maxChunks
        THEN truncated' = TRUE /\ UNCHANGED <<chunks, section, start>>
        ELSE /\ chunks' = (IF ink = {} THEN chunks ELSE Append(chunks, chunk))
             /\ section' = (IF last THEN section + 1 ELSE section)
             /\ start' = (IF last THEN 1 ELSE NextStart(s, start, end, BodyBudget))
             /\ UNCHANGED truncated

----------------------------------------------------------------------------
(* Tables.  section is the next row, pending the rows of the open chunk and *)
(* start the number of the row that the next chunk begins with.             *)

FirstRow == IF input.rowStart > 0 THEN input.rowStart ELSE 1 + (IF input.header = 0 THEN 0 ELSE 1)

Weight(rows) == FoldSet(LAMBDA i, sum : sum + input.rows[i], 0, rows)

\* The chunk of the pending rows, numbered from `number` on.
Flush(number) ==
  [rows |-> pending, from |-> 0, to |-> 0,
   tokens |-> AddHeading(input.header + Weight(pending)),
   first |-> number, last |-> number + Cardinality(pending) - 1]

\* The pieces of a row that does not fit with its header.
RowPieces(i, number) ==
  LET size == Max({1, BodyBudget - input.header - 1})
      count == (input.rows[i] + size - 1) \div size
  IN [k \in 1..count |->
        LET to == Min({k * size, input.rows[i]})
        IN [rows |-> {i}, from |-> (k - 1) * size + 1, to |-> to,
            tokens |-> AddHeading(input.header + to - (k - 1) * size),
            first |-> number, last |-> number]]

\* A header without room for a row ends the document.
HeaderTooLarge ==
  /\ input.kind = "table" /\ section = 1 /\ ~truncated
  /\ input.header > 0 /\ input.header >= BodyBudget
  /\ truncated' = TRUE
  /\ UNCHANGED <<input, sections, chunks, section, start, pending>>

\* One turn of splitTypedTable's loop: the row joins the open chunk, opens the next
\* one, or is cut into pieces.
SplitTypedTable ==
  /\ input.kind = "table" /\ ~truncated /\ section <= Len(input.rows)
  /\ ~(input.header > 0 /\ input.header >= BodyBudget)
  /\ section' = section + 1
  /\ UNCHANGED <<input, sections, truncated>>
  /\ LET number == IF section = 1 THEN FirstRow ELSE start
         fixed == input.heading + input.header
         flushed == IF pending = {} THEN <<>> ELSE <<Flush(number)>>
         after == number + Cardinality(pending)
     IN IF fixed + Weight(pending) + input.rows[section] <= Budget
        THEN pending' = pending \cup {section} /\ start' = number /\ UNCHANGED chunks
        ELSE IF fixed + input.rows[section] <= Budget
        THEN pending' = {section} /\ start' = after /\ chunks' = chunks \o flushed
        ELSE /\ pending' = {}
             /\ start' = after + 1
             /\ chunks' = chunks \o flushed \o RowPieces(section, after)

\* The last flush, also of a header alone; then the chunks are added to the result
\* up to the limit.
FinishTable ==
  /\ input.kind = "table" /\ ~truncated /\ section = Len(input.rows) + 1
  /\ ~(input.header > 0 /\ input.header >= BodyBudget)
  /\ UNCHANGED <<input, sections, pending, start>>
  /\ section' = section + 1
  /\ LET number == IF section = 1 THEN FirstRow ELSE start
         all == IF pending = {} /\ input.header = 0 THEN chunks ELSE Append(chunks, Flush(number))
     IN /\ chunks' = SubSeq(all, 1, Min({Len(all), input.maxChunks}))
        /\ truncated' = (Len(all) > input.maxChunks)

Next == SplitTextByTokens \/ HeaderTooLarge \/ SplitTypedTable \/ FinishTable

Spec == Init /\ [][Next]_vars

----------------------------------------------------------------------------
Complete ==
  /\ ~truncated
  /\ section > IF input.kind = "text" THEN Len(sections) ELSE Len(input.rows) + 1

\* Every rune of a document that is published is in a chunk, no chunk exceeds the
\* token budget, pieces move forward and repeat no more than the overlap.
TextSound ==
  input.kind = "text" =>
    /\ \A c \in Range(chunks) : c.tokens <= Budget
    /\ Complete =>
         \A k \in DOMAIN sections : \A i \in DOMAIN sections[k] :
           sections[k][i] \in Blank
           \/ \E c \in Range(chunks) : c.section = k /\ i \in c.from..c.to
    /\ \A n \in 1..Len(chunks) - 1 :
         LET c == chunks[n]  d == chunks[n + 1]
         IN c.section = d.section =>
              /\ c.from < d.from
              /\ d.from <= c.to =>
                   EstimateTokens(SubSeq(sections[c.section], d.from, c.to)) <= input.options.overlap

\* Every row of a table is in one chunk, or cut into pieces that make it up in
\* order; no chunk exceeds the budget, and a chunk's row numbers are those of its
\* rows in the sheet.
TableSound ==
  input.kind = "table" =>
    /\ \A c \in Range(chunks) :
         /\ c.tokens <= Budget
         /\ c.rows # {} => /\ c.first = FirstRow + Min(c.rows) - 1
                           /\ c.last = FirstRow + Max(c.rows) - 1
    /\ Complete =>
         \A i \in DOMAIN input.rows :
           LET of == SelectSeq(chunks, LAMBDA c : i \in c.rows)
           IN \/ Len(of) = 1 /\ of[1].from = 0
              \/ /\ of # <<>> /\ of[1].from = 1 /\ of[Len(of)].to = input.rows[i]
                 /\ \A n \in 1..Len(of) - 1 : of[n + 1].from = of[n].to + 1

\* A document that is published loses nothing in chunking (MakeTypedChunks), and
\* every chunk fits the embedding model's budget.
ChunksSound == TextSound /\ TableSound
=============================================================================
