----------------------------- MODULE Answering ------------------------------
(***************************************************************************)
(* One search or question of an owner, from the gRPC server's rate limit   *)
(* to the cited answer (ai/search.go, ai/tracing.go), while files are      *)
(* deleted, documents indexed again and objects collected.                 *)
(*                                                                         *)
(* PostgreSQL or the external indexes recall ranked chunks for the text    *)
(* and for the vector of the query, at the same time.  The external        *)
(* indexes lag, so what they name is arbitrary, and it is read again       *)
(* through SQL; with the fallback on, an outage or too few files sends the *)
(* recall to PostgreSQL.  Reciprocal rank fusion joins the two lists, the  *)
(* question's candidates are loaded once more, reranked and cut to the     *)
(* evidence that the model may cite.                                       *)
(*                                                                         *)
(* A candidate is <<file, chunk>>, its chunk 0 when it was found by name.  *)
(* Files 1 and 2 are two entries of one object; file 4 is another owner's  *)
(* entry of it.  Query, folder, MIME and file filters are abstracted: any  *)
(* subset of the readable chunks may match.                                *)
(***************************************************************************)
EXTENDS Integers, Sequences, FiniteSets, SequencesExt

CONSTANTS MaxChanges,      \* deletions, new versions and collections during the request
          Limit,           \* the caller's limit of hits
          RecallLimit,     \* hybridRecallLimit, and the floor of a query's rows
          FusionLimit,     \* hybridFusionLimit, which is also Ask's limit of hits
          CandidateLimit,  \* RerankCandidates
          TopK,            \* RerankTopK
          PerFile,         \* pieces of evidence of one file
          MaxMatches       \* bound: chunks that an external index names

VARIABLES world, request, pc, path, list, fused, candidates, evidence, cited,
          authorised, current, faults

vars == <<world, request, pc, path, list, fused, candidates, evidence, cited,
          authorised, current, faults>>

Files == 1..4
Owned == 1..3
Chunks == 1..4
ObjectOf == <<1, 1, 2, 1>>
ChunkObject == <<1, 1, 1, 2>>
ChunkVersion == <<1, 1, 2, 1>>
Modes == {"name", "fulltext", "semantic"}

ModesOf(goal) == IF goal \in {"hybrid", "ask"} THEN {"fulltext", "semantic"} ELSE {goal}

\* The join of entries, objects, documents, active versions and chunks that every
\* query makes: what the owner may read in world w.
ReadableIn(w) ==
  {r \in Owned \X Chunks :
     /\ r[1] \in w.live
     /\ ObjectOf[r[1]] = ChunkObject[r[2]]
     /\ ChunkObject[r[2]] \in w.ready
     /\ w.active[ChunkObject[r[2]]] = ChunkVersion[r[2]]}

Readable == ReadableIn(world)

Init ==
  /\ world \in {[live |-> l, active |-> <<1, 1>>, ready |-> {1, 2}, changes |-> 0] : l \in {Files, Files \ {3}}}
  /\ request \in [goal : Modes \cup {"hybrid", "ask"},
                  backend : {"postgres", "shadow", "es_qdrant"}, fallback : BOOLEAN]
  /\ request.fallback => request.backend = "es_qdrant"
  /\ pc = "start"
  /\ path = [mode \in Modes |-> "none"]
  /\ list = [mode \in Modes |-> <<>>]
  /\ fused = <<>> /\ candidates = <<>> /\ evidence = <<>> /\ cited = {}
  /\ authorised = Readable
  /\ current = {}
  /\ faults = {}

----------------------------------------------------------------------------
(* The rest of the system, at any time during the request. *)

Change(w) ==
  /\ pc # "done" /\ world.changes < MaxChanges
  /\ world' = [w EXCEPT !.changes = @ + 1]
  /\ authorised' = authorised \cup ReadableIn(w)
  /\ UNCHANGED <<request, pc, path, list, fused, candidates, evidence, cited, current, faults>>

\* An entry is deleted.
DeleteFile == \E f \in world.live \ {4} : Change([world EXCEPT !.live = @ \ {f}])

\* Object 1 gets a new active version.
Reindex == world.active[1] = 1 /\ Change([world EXCEPT !.active[1] = 2])

\* Object 2 is collected after its last entry was deleted.
Collect == 3 \notin world.live /\ 2 \in world.ready /\ Change([world EXCEPT !.ready = @ \ {2}])

----------------------------------------------------------------------------
End(why) == pc' = "done" /\ faults' = faults \cup why

\* The server asks the limiter, and serves on when the limiter is down.
Allow ==
  /\ pc = "start"
  /\ \/ End({"refused"})
     \/ pc' = "validate" /\ faults' \in {faults, faults \cup {"limiter"}}
  /\ UNCHANGED <<world, request, path, list, fused, candidates, evidence, cited, authorised, current>>

\* The request is malformed or its folder is not there; otherwise the modes that
\* need a vector have the query embedded first.
Start ==
  /\ pc = "validate"
  /\ \/ End({"refused"})
     \/ pc' = (IF "semantic" \in ModesOf(request.goal) THEN "embed" ELSE "recall") /\ UNCHANGED faults
  /\ path' = [mode \in Modes |->
                IF mode \notin ModesOf(request.goal) THEN "none"
                ELSE IF request.backend = "es_qdrant" /\ mode # "name" THEN "external" ELSE "database"]
  /\ UNCHANGED <<world, request, list, fused, candidates, evidence, cited, authorised, current>>

\* The query's vector comes from the cache or from the provider.
EmbedQuery ==
  /\ pc = "embed"
  /\ \/ pc' = "recall" /\ UNCHANGED faults
     \/ End({"provider"})
  /\ UNCHANGED <<world, request, path, list, fused, candidates, evidence, cited, authorised, current>>

\* The sequence of a set in a strict order; SetToSortSeq tries all functions first.
InOrder(S, before(_, _)) ==
  [k \in 1..Cardinality(S) |-> CHOOSE r \in S : Cardinality({q \in S : before(q, r)}) = k - 1]

\* Rows by descending score of their chunk, then by file and chunk.
Ranked(rows, score) ==
  InOrder(rows, LAMBDA a, b :
    \/ score[a[2]] > score[b[2]]
    \/ score[a[2]] = score[b[2]] /\ (a[1] < b[1] \/ (a[1] = b[1] /\ a[2] < b[2])))

Scores(chunks) == [chunks -> 1..2]

\* A path reports its candidates, or its error.
Recalled(mode, rows) ==
  /\ list' = [list EXCEPT ![mode] = rows]
  /\ UNCHANGED <<world, request, pc, fused, candidates, evidence, cited, authorised, current>>

\* Query the external index and read its candidates again through SQL.
QueryExternalCandidates(mode) ==
  /\ pc = "recall" /\ path[mode] = "external"
  /\ \/ \E named \in {S \in SUBSET Chunks : Cardinality(S) <= MaxMatches} : \E score \in Scores(named) :
          LET rows == Ranked({r \in Readable : r[2] \in named}, score)
              files == {rows[i][1] : i \in DOMAIN rows}
              wanted == IF request.goal \in {"hybrid", "ask"} THEN RecallLimit ELSE Limit
          IN IF request.fallback /\ Cardinality(files) < wanted
             THEN Recalled(mode, <<>>) /\ path' = [path EXCEPT ![mode] = "database"] /\ UNCHANGED faults
             ELSE Recalled(mode, rows) /\ path' = [path EXCEPT ![mode] = "done"] /\ UNCHANGED faults
     \/ /\ Recalled(mode, <<>>)
        /\ path' = [path EXCEPT ![mode] = IF request.fallback THEN "database" ELSE "failed"]
        /\ faults' = faults \cup {"external"}

\* The answers of the SQL query: by name and by text what matches, by vector every
\* chunk of the documents that the current model embedded, ties in any order.
DatabaseAnswers(mode) ==
  CASE mode = "name" ->
         LET named == {f \in Owned \cap world.live : ObjectOf[f] \in world.ready}
         IN UNION {{[i \in DOMAIN s |-> <<s[i], 0>>] : s \in SetToSeqs(S)} : S \in SUBSET named}
    [] mode = "fulltext" ->
         UNION {{Ranked({r \in Readable : r[2] \in S}, score) : score \in Scores(S)} :
                  S \in SUBSET {r[2] : r \in Readable}}
    [] mode = "semantic" ->
         UNION {LET rows == {r \in Readable : ChunkObject[r[2]] \in documents}
                    chunks == {r[2] : r \in rows}
                IN {s \in SetToSeqs(rows) : \E score \in Scores(chunks) :
                      \A i \in 1..Len(s) - 1 : score[s[i][2]] >= score[s[i + 1][2]]} :
                  documents \in SUBSET {1, 2}}

FirstOf(s, n) == SubSeq(s, 1, IF Len(s) < n THEN Len(s) ELSE n)

QueryCandidates(mode) ==
  /\ pc = "recall" /\ path[mode] = "database"
  /\ \/ /\ \E answer \in DatabaseAnswers(mode) : Recalled(mode, FirstOf(answer, RecallLimit))
        /\ path' = [path EXCEPT ![mode] = IF request.backend = "shadow" /\ mode # "name" THEN "shadow" ELSE "done"]
        /\ UNCHANGED faults
     \/ /\ Recalled(mode, <<>>)
        /\ path' = [path EXCEPT ![mode] = "failed"]
        /\ faults' = faults \cup {"database"}

\* A sampled shadow read is recorded beside the answer, whatever it returns.
ShadowRead(mode) ==
  /\ pc = "recall" /\ path[mode] = "shadow"
  /\ Recalled(mode, list[mode])
  /\ path' = [path EXCEPT ![mode] = "done"]
  /\ faults' \in {faults, faults \cup {"external"}}

Recall == \E mode \in {"name", "fulltext", "semantic"} :
  QueryExternalCandidates(mode) \/ QueryCandidates(mode) \/ ShadowRead(mode)

----------------------------------------------------------------------------
RankOf(s, r) == IF r \in Range(s) THEN CHOOSE i \in DOMAIN s : s[i] = r ELSE 0

\* 1 / (60 + rank), times the product of the denominators that can occur.
Share(s, r) == IF r \in Range(s) THEN (61 * 62 * 63 * 64) \div (60 + RankOf(s, r)) ELSE 0

FusedScore(text, vector, r) == Share(text, r) + Share(vector, r)

\* By score, then by chunk; two files' entries of one chunk come in the order in
\* which the map of items yields them, reversed for the chunks in flip.
ReciprocalRankFusion(text, vector, flip, limit) ==
  LET score == [r \in Range(text) \cup Range(vector) |-> FusedScore(text, vector, r)]
      before(a, b) ==
        \/ score[a] > score[b]
        \/ score[a] = score[b] /\ a[2] < b[2]
        \/ score[a] = score[b] /\ a[2] = b[2] /\ (IF a[2] \in flip THEN a[1] > b[1] ELSE a[1] < b[1])
  IN FirstOf(InOrder(DOMAIN score, before), limit)

\* The places of a list where a file appears first: the hits, best score first.
HitsOf(s) == {i \in DOMAIN s : \A j \in 1..i - 1 : s[j][1] # s[i][1]}

\* The list grouped by its first `limit` files.
GroupCandidates(s, limit) ==
  LET hits == HitsOf(s)
      placed == {<<CHOOSE h \in hits : s[h][1] = s[i][1], i>> : i \in DOMAIN s}
      kept == {p \in placed : Cardinality({h \in hits : h < p[1]}) < limit}
      order == InOrder(kept, LAMBDA p, q : p[1] < q[1] \/ (p[1] = q[1] /\ p[2] < q[2]))
  IN [k \in DOMAIN order |-> s[order[k][2]]]

\* What stands at the places I of a list, in the order of the list.
Picked(s, I) ==
  LET order == InOrder(I, <)
  IN [k \in DOMAIN order |-> s[order[k]]]

\* Both paths are back: an error of either ends the request, a search returns its
\* hits and a question goes on with the fused candidates.
Fuse ==
  /\ pc = "recall"
  /\ \A mode \in ModesOf(request.goal) : path[mode] \in {"done", "failed"}
  /\ UNCHANGED <<world, request, path, list, evidence, cited, authorised, current, faults>>
  /\ IF \E mode \in Modes : path[mode] = "failed"
     THEN pc' = "done" /\ UNCHANGED <<fused, candidates>>
     ELSE IF request.goal \in Modes
     THEN /\ pc' = "done"
          /\ candidates' = GroupCandidates(list[request.goal], Limit)
          /\ UNCHANGED fused
     ELSE \E flip \in SUBSET {1, 2, 3} :
          /\ fused' = ReciprocalRankFusion(list["fulltext"], list["semantic"], flip, FusionLimit)
          /\ candidates' = GroupCandidates(fused', IF request.goal = "ask" THEN FusionLimit ELSE Limit)
          /\ pc' = IF request.goal = "ask" THEN "load" ELSE "done"

\* The first appearance of each chunk, up to the reranker's limit.
DistinctChunks(s) ==
  FirstOf(Picked(s, {i \in DOMAIN s : \A j \in 1..i - 1 : s[j][2] # s[i][2]}), CandidateLimit)

\* Mutation: the candidates' text is taken as it was recalled.
LoadTrusting ==
  /\ pc = "load"
  /\ current' = Readable
  /\ list' = [mode \in Modes |-> <<>>] /\ fused' = <<>>
  /\ UNCHANGED <<world, request, path, evidence, cited, authorised>>
  /\ candidates' = DistinctChunks(candidates)
  /\ pc' = "rerank" /\ UNCHANGED faults

\* The text of the candidates is read under the owner's rights of this moment.
LoadFullChunks ==
  /\ pc = "load"
  /\ current' = Readable
  /\ list' = [mode \in Modes |-> <<>>] /\ fused' = <<>>
  /\ UNCHANGED <<world, request, path, evidence, cited, authorised>>
  /\ \/ /\ candidates' = LET s == DistinctChunks(candidates) IN Picked(s, {i \in DOMAIN s : s[i] \in Readable})
        /\ pc' = "rerank" /\ UNCHANGED faults
     \/ candidates # <<>> /\ End({"database"}) /\ UNCHANGED candidates

\* The orders a reranker can make: by one finite score for each document, where any
\* other response is an error and the order stays.
RerankAnswers(s) == SetToSeqs(Range(s)) \cup {s}

Rerank ==
  /\ pc = "rerank"
  /\ candidates' \in IF Len(candidates) > 1 THEN RerankAnswers(candidates) ELSE {candidates}
  /\ pc' = "answer"
  /\ UNCHANGED <<world, request, path, list, fused, evidence, cited, authorised, current, faults>>

\* The evidence: candidates in order, at most PerFile of a file, at most TopK.
Evidence(s) ==
  FirstOf(Picked(s, {i \in DOMAIN s : Cardinality({j \in 1..i - 1 : s[j][1] = s[i][1]}) < PerFile}), TopK)

\* What is not evidence is dropped from what the model names, and an answer that is
\* not grounded cites nothing.
Citations(said, grounded, given) == IF grounded THEN said \cap given ELSE {}

\* The model answers from the evidence.
Answer ==
  /\ pc = "answer"
  /\ evidence' = Evidence(candidates)
  /\ \/ /\ \E said \in SUBSET (Range(evidence') \cup {<<4, 1>>}), grounded \in BOOLEAN :
             cited' = Citations(said, grounded, Range(evidence'))
        /\ End({})
     \/ End({"provider"}) /\ UNCHANGED cited
  /\ UNCHANGED <<world, request, path, list, fused, candidates, authorised, current>>

Next ==
  \/ DeleteFile \/ Reindex \/ Collect
  \/ Allow \/ Start \/ EmbedQuery \/ Recall \/ Fuse \/ LoadFullChunks \/ Rerank \/ Answer

Spec == Init /\ [][Next]_vars

----------------------------------------------------------------------------
Failed == pc = "done" /\ (faults \cap {"refused", "provider", "database"} # {}
                          \/ \E mode \in Modes : path[mode] = "failed")

\* queryExternalCandidates promises that an index never authorizes a result: every
\* chunk recalled was readable by the owner at some moment of this request.
IndexAuthorisesNothing ==
  \A mode \in Modes \ {"name"} : Range(list[mode]) \subseteq authorised

\* The evidence that leaves for the model was readable when its text was loaded, not
\* only when it was recalled, and nothing else is cited; no chunk stands in it twice, no file more than twice,
\* and a candidate stays out only for one of the two limits.
EvidenceFair ==
  LET of(f) == {i \in DOMAIN evidence : evidence[i][1] = f}
  IN /\ Range(evidence) \subseteq current /\ cited \subseteq current
     /\ \A i, j \in DOMAIN evidence : evidence[i][2] = evidence[j][2] => i = j
     /\ Len(evidence) <= TopK
     /\ \A f \in Files : Cardinality(of(f)) <= PerFile
     /\ pc = "done" /\ "provider" \notin faults /\ evidence # <<>> =>
          \A r \in Range(candidates) \ Range(evidence) :
            Len(evidence) = TopK \/ Cardinality(of(r[1])) = PerFile

\* A candidate that both paths rank above another one is fused above it.
FusionFair ==
  LET above(s, a, b) == a \in Range(s) /\ (b \notin Range(s) \/ RankOf(s, a) < RankOf(s, b))
      rows == Range(list["fulltext"]) \cup Range(list["semantic"])
  IN fused # <<>> =>
       \A a, b \in rows :
         (\A mode \in {"fulltext", "semantic"} :
            above(list[mode], a, b) \/ {a, b} \cap Range(list[mode]) = {})
         => b \notin Range(fused) \/ above(fused, a, b)

\* With the fallback, or with another backend, an outage of the external indexes
\* alone fails no request.
OutageHidden ==
  Failed => \/ faults \cap {"refused", "provider", "database"} # {}
            \/ request.backend = "es_qdrant" /\ ~request.fallback

\* Only what the owner may read reaches the model, fairly ranked and chosen, and an
\* index that is down or behind costs no answer (ai/search.go, ai/tracing.go).
AnswerSound == IndexAuthorisesNothing /\ EvidenceFair /\ FusionFair /\ OutageHidden
=============================================================================
