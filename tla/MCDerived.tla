----------------------------- MODULE MCDerived ------------------------------
(***************************************************************************)
(* What is derived from an object's content, and the workflows, for TLC:   *)
(* Parsing and Chunking on the way in, Documents, ContentIndex, index      *)
(* Generations and Thumbnails as what is kept, Answering on the way out,   *)
(* and Workflow.                                                           *)
(* They do not share state here, so a behaviour is one of the component    *)
(* that `part` names, with the others at rest.                             *)
(***************************************************************************)
EXTENDS ContentIndex, SequencesExt

CONSTANTS Indexers, DocumentVersions, DocumentLives,
          Attempts, Cleaners, Collectors, ThumbnailLives, ThumbnailFaults, Nobody,
          Steps, Commands,
          Operators, Generation, Built, Pages, MaxCommands,
          MaxChanges, Limit, RecallLimit, FusionLimit, CandidateLimit, TopK, PerFile, MaxMatches,
          MaxRunes, MaxRows,
          Requests, ServerSlots, WorkerSlots, MaxTries

ASSUME DerivedConstants == DocumentVersions \in Nat /\ DocumentLives \in Nat
ASSUME WorkerNames == Attempts \cap Cleaners = {} /\ Nobody \notin Attempts \cup Cleaners \cup Collectors

ASSUME IndexConstants ==
  /\ MaxVersions \in Nat /\ MaxEvents \in Nat /\ Snapshots \subseteq Projectors
  /\ Pages \in Nat /\ 1 \in DOMAIN Generation
  /\ \A t \in DOMAIN Generation : Generation[t] \in Seq(1..4) /\ {3, 4} \subseteq Range(Generation[t])

ASSUME AnswerLimits ==
  {Limit, RecallLimit, FusionLimit, CandidateLimit, TopK, PerFile} \subseteq Nat

VARIABLES part,
          object, document, versions, indexer, reprocess,
          image, variant, stored, cleanup, writer, cleaner, deletion, collector, mishaps,
          instance, steps, commands, calls, undone,
          version, cursor, written, operator, given, hindered,
          world, request, pc, path, list, fused, candidates, evidence, cited, authorised, current, outages,
          input, sections, chunks, section, start, pending, truncated,
          asked, call, threads, tries, verdict, disturbed

\* The generation in use is PostgreSQL's alone, the new ones have both backends.
TwoNew == <<<<3, 4>>, <<1, 2, 3, 4>>, <<1, 2, 3, 4>>>>

Doc == INSTANCE Documents WITH MaxVersions <- DocumentVersions, MaxLives <- DocumentLives
Th == INSTANCE Thumbnails WITH MaxLives <- ThumbnailLives, MaxFaults <- ThumbnailFaults, faults <- mishaps
Wf == INSTANCE Workflow
Gn == INSTANCE Generations WITH faults <- hindered
An == INSTANCE Answering WITH faults <- outages
Ch == INSTANCE Chunking
Ps == INSTANCE Parsing WITH document <- asked

documentVars == <<object, document, versions, indexer, reprocess>>
thumbnailVars == <<image, variant, stored, cleanup, writer, cleaner, deletion, collector, mishaps>>
workflowVars == <<instance, steps, commands, calls, undone>>
generationVars == <<version, cursor, written, operator, given, hindered>>
answerVars == <<world, request, pc, path, list, fused, candidates, evidence, cited, authorised, current, outages>>
chunkVars == <<input, sections, chunks, section, start, pending, truncated>>
parseVars == <<asked, call, threads, tries, verdict, disturbed>>
keptVars == <<vars, documentVars, thumbnailVars, workflowVars, generationVars>>
passingVars == <<answerVars, chunkVars, parseVars>>
suiteVars == <<part, keptVars, passingVars>>

\* The components whose initial states are their inputs, at rest.
AnswerRest ==
  /\ world = 0 /\ request = 0 /\ pc = 0 /\ path = 0 /\ list = 0 /\ fused = 0
  /\ candidates = 0 /\ evidence = 0 /\ cited = 0 /\ authorised = 0 /\ current = 0 /\ outages = 0

ChunkRest ==
  /\ input = 0 /\ sections = 0 /\ chunks = 0 /\ section = 0 /\ start = 0 /\ pending = 0
  /\ truncated = 0

ParseRest ==
  /\ asked = 0 /\ call = 0 /\ threads = 0 /\ tries = 0 /\ verdict = 0 /\ disturbed = 0

SuiteInit ==
  /\ Init /\ Doc!Init /\ Th!Init /\ Wf!Init /\ Gn!Init
  /\ \/ part \in {"content", "documents", "thumbnails", "workflow", "generations"} /\ AnswerRest /\ ChunkRest /\ ParseRest
     \/ part = "answering" /\ An!Init /\ ChunkRest /\ ParseRest
     \/ part = "chunking" /\ Ch!Init /\ AnswerRest /\ ParseRest
     \/ part = "parsing" /\ Ps!Init /\ AnswerRest /\ ChunkRest

SuiteNext ==
  \/ part = "content" /\ Next /\ UNCHANGED <<part, documentVars, thumbnailVars, workflowVars, generationVars, passingVars>>
  \/ part = "documents" /\ Doc!Next /\ UNCHANGED <<part, vars, thumbnailVars, workflowVars, generationVars, passingVars>>
  \/ part = "thumbnails" /\ Th!Next /\ UNCHANGED <<part, vars, documentVars, workflowVars, generationVars, passingVars>>
  \/ part = "workflow" /\ Wf!Next /\ UNCHANGED <<part, vars, documentVars, thumbnailVars, generationVars, passingVars>>
  \/ part = "generations" /\ Gn!Next /\ UNCHANGED <<part, vars, documentVars, thumbnailVars, workflowVars, passingVars>>
  \/ part = "answering" /\ An!Next /\ UNCHANGED <<part, keptVars, chunkVars, parseVars>>
  \/ part = "chunking" /\ Ch!Next /\ UNCHANGED <<part, keptVars, answerVars, parseVars>>
  \/ part = "parsing" /\ Ps!Next /\ UNCHANGED <<part, keptVars, answerVars, chunkVars>>

SuiteSpec == SuiteInit /\ [][SuiteNext]_suiteVars

\* No stale indexer switches the active version or brings back that of a deleted
\* object, and no failed replacement hides the index in use (Documents).
DocumentSound == part = "documents" => Doc!ActiveVersionFenced /\ Doc!SummaryKeepsIndex

\* A served thumbnail exists, and stored bytes have somebody who removes them.
ThumbnailsHold == part = "thumbnails" => Th!ThumbnailsHold

\* Compensation undoes what succeeded, once, and never a workflow that succeeded.
CompensationSound == part = "workflow" => Wf!CompensationSound

\* Both indexes show the active version of the content when its events are handled
\* (ContentIndex), and an index generation is cut over as a whole, whole (Generations).
IndexSound ==
  /\ part = "content" => ContentCaughtUp
  /\ part = "generations" => Gn!GenerationsSound

\* What the model is given for an answer is readable by the owner, fairly ranked and
\* chosen, and an index that is down or behind costs no answer (Answering).
AnswerSound == part = "answering" => An!AnswerSound

\* A document is given up for its own fault, or as an image that the vision provider
\* refused for good, and what is published of one is whole and fits the token budget
\* (Parsing, Chunking).
IngestSound ==
  /\ part = "parsing" => Ps!ParsingSound
  /\ part = "chunking" => Ch!ChunksSound
=============================================================================
