------------------------------ MODULE Parsing -------------------------------
(***************************************************************************)
(* How the indexer has a document parsed and what it makes of a failure:   *)
(* the indexer (ai/service.go) calls the parser service over gRPC          *)
(* (ai/parserrpc), which has its own slots and posts the document to a     *)
(* worker process (ai/parserengine, parser_worker/server.py) that has      *)
(* slots as well and answers 503 when they are taken.  Images go to the    *)
(* vision model instead, and without the service the built-in parser works *)
(* in the indexer's process.                                               *)
(*                                                                         *)
(* A call that times out gives its gRPC slot back at once, while the       *)
(* worker's thread goes on and keeps its slot.  A failure is classified    *)
(* four times on its way: HTTP status, parse error, gRPC code, parse error *)
(* again.  The last one decides whether the document is given up            *)
(* ("unsupported") or tried again.  The vision model may also refuse a     *)
(* request for good, for what is no fault of the image: a key that is not  *)
(* accepted, a quota that is used up.  The image is then given up as well, *)
(* under an error code of its own ("rejected").                            *)
(***************************************************************************)
EXTENDS Integers, FiniteSets

CONSTANTS Requests,
          ServerSlots,     \* parses that the gRPC server admits
          WorkerSlots,     \* parses that the worker process admits
          MaxTries         \* attempts of one document

VARIABLES document,        \* what a request asks to parse
          call,            \* where its call stands
          threads,         \* the worker's threads: <<request, attempt>>
          tries, verdict,
          disturbed        \* a transient fault met the last attempt

vars == <<document, call, threads, tries, verdict, disturbed>>

\* "broken" makes the worker raise an exception it does not know; "long" is parsed
\* well and yields more chunks than the limit.
Natures == {"good", "unsupported", "large", "invalid", "broken", "long"}

Init ==
  /\ document \in [Requests -> [parser : {"remote", "builtin", "vision"}, nature : Natures]]
  /\ call = [r \in Requests |-> "idle"]
  /\ threads = {}
  /\ tries = [r \in Requests |-> 0]
  /\ verdict = [r \in Requests |-> "none"]
  /\ disturbed = {}

----------------------------------------------------------------------------
(* The four classifications. *)

\* The status with which the worker answers.
WorkerStatus(nature) ==
  CASE nature \in {"good", "long"} -> 200
    [] nature = "unsupported" -> 415
    [] nature = "large" -> 413
    [] nature = "invalid" -> 422
    [] nature = "broken" -> 500

\* Mutation: everything but 500 is the document's fault.
WorkerErrorBlunt(status) ==
  CASE status = 415 -> "unsupported"
    [] status = 413 -> "limit"
    [] status \in {400, 422, 503} -> "permanent"
    [] OTHER -> "retryable"

WorkerError(status) ==
  CASE status = 415 -> "unsupported"
    [] status = 413 -> "limit"
    [] status \in {400, 422} -> "permanent"
    [] OTHER -> "retryable"

\* The gRPC code for a class of parse error, and for one that the context caused.
ParserStatus(class) ==
  CASE class = "unsupported" -> "Unimplemented"
    [] class = "limit" -> "ResourceExhausted"
    [] class = "retryable" -> "Unavailable"
    [] class = "permanent" -> "FailedPrecondition"

ParserError(code) ==
  CASE code = "Unimplemented" -> "unsupported"
    [] code = "ResourceExhausted" -> "limit"
    [] code = "FailedPrecondition" -> "permanent"
    [] code \in {"DeadlineExceeded", "Unavailable", "Internal"} -> "retryable"

\* What runIndex does: give the document up, or fail the attempt.
VerdictOf(class) == IF class = "retryable" THEN "retry" ELSE "unsupported"

\* A result that was cut short is never published.
ChunksForIndex(nature) == IF nature = "long" THEN "unsupported" ELSE "indexed"

----------------------------------------------------------------------------
End(r, result) ==
  /\ call' = [call EXCEPT ![r] = "idle"]
  /\ verdict' = [verdict EXCEPT ![r] = result]

Begin(r) ==
  /\ call[r] = "idle" /\ verdict[r] \in {"none", "retry"} /\ tries[r] < MaxTries
  /\ tries' = [tries EXCEPT ![r] = @ + 1]

\* parseForIndex with the parser service: the RPC waits for a slot.
Parse(r) ==
  /\ Begin(r) /\ document[r].parser = "remote"
  /\ call' = [call EXCEPT ![r] = "waiting"]
  /\ disturbed' = disturbed \ {r}
  /\ UNCHANGED <<document, threads, verdict>>

\* The class of what the built-in parser or the vision model says of a document.
Extracted(nature) ==
  CASE nature = "unsupported" -> "unsupported"
    [] nature = "large" -> "limit"
    [] nature = "invalid" -> "permanent"
    [] nature = "broken" -> "retryable"

\* A document parsed in the indexer's process: what it is decides, unless the
\* provider is away or overloaded or the context ends.
ParseHere(r, parser) ==
  /\ Begin(r) /\ document[r].parser = parser
  /\ \/ /\ disturbed' = disturbed \cup {r}
        /\ End(r, VerdictOf("retryable"))
     \/ /\ disturbed' = disturbed \ {r}
        /\ End(r, IF document[r].nature \in {"good", "long"} THEN ChunksForIndex(document[r].nature)
                  ELSE VerdictOf(Extracted(document[r].nature)))
  /\ UNCHANGED <<document, threads>>

BuiltinParse(r) == ParseHere(r, "builtin")

\* The provider refuses an image that was not too large to be sent: a 4xx other than
\* 408, 409 and 429 (401, 403, 404 among them), or no free allowance left.  The
\* refusal is a permanent parse error and so gives the image up, whatever it shows.
VisionRejects(r) ==
  /\ Begin(r) /\ document[r].parser = "vision" /\ document[r].nature # "large"
  /\ End(r, "rejected")
  /\ disturbed' = disturbed \ {r}
  /\ UNCHANGED <<document, threads>>

ParseVisionImage(r) == ParseHere(r, "vision") \/ VisionRejects(r)

\* The server has a slot: the document is posted, or the worker is at capacity.
ParseDocument(r) ==
  /\ call[r] = "waiting"
  /\ Cardinality({q \in Requests : call[q] = "posted"}) < ServerSlots
  /\ UNCHANGED <<document, tries>>
  /\ IF Cardinality(threads) < WorkerSlots
     THEN /\ call' = [call EXCEPT ![r] = "posted"]
          /\ threads' = threads \cup {<<r, tries[r]>>}
          /\ UNCHANGED <<verdict, disturbed>>
     ELSE /\ End(r, VerdictOf(ParserError(ParserStatus(WorkerError(503)))))
          /\ disturbed' = disturbed \cup {r}
          /\ UNCHANGED threads

\* A thread is done and frees its slot; its answer counts when the call still waits
\* for it.
WorkerAnswers(r, attempt) ==
  /\ <<r, attempt>> \in threads
  /\ threads' = threads \ {<<r, attempt>>}
  /\ UNCHANGED <<document, tries, disturbed>>
  /\ IF call[r] = "posted" /\ tries[r] = attempt
     THEN LET status == WorkerStatus(document[r].nature)
          IN End(r, IF status = 200 THEN ChunksForIndex(document[r].nature)
                    ELSE VerdictOf(ParserError(ParserStatus(WorkerError(status)))))
     ELSE UNCHANGED <<call, verdict>>

\* The call's deadline passes, in the queue or while the worker parses.
Timeout(r) ==
  /\ call[r] \in {"waiting", "posted"}
  /\ End(r, VerdictOf(ParserError("DeadlineExceeded")))
  /\ disturbed' = disturbed \cup {r}
  /\ UNCHANGED <<document, threads, tries>>

\* The server or its connection to the worker breaks, or its handler panics.
Outage(r, code) ==
  /\ call[r] = "posted"
  /\ End(r, VerdictOf(ParserError(code)))
  /\ disturbed' = disturbed \cup {r}
  /\ UNCHANGED <<document, threads, tries>>

Next == \E r \in Requests :
  \/ Parse(r) \/ BuiltinParse(r) \/ ParseVisionImage(r) \/ ParseDocument(r)
  \/ \E attempt \in 1..MaxTries : WorkerAnswers(r, attempt)
  \/ Timeout(r)
  \/ \E code \in {"Unavailable", "Internal"} : Outage(r, code)

Spec == Init /\ [][Next]_vars

----------------------------------------------------------------------------
\* A document is given up as unsupported only for its own fault, not for a full
\* worker, a deadline, an outage, nor the thread that an abandoned call of another
\* document left behind; a refusal by the vision provider, which is final too, meets
\* images alone and is told apart.  The other way round, an attempt that nothing
\* disturbed is tried again only after an error nobody knows, and only a whole
\* document is indexed.
ParsingSound == \A r \in Requests :
  /\ verdict[r] = "unsupported" => document[r].nature \in {"unsupported", "large", "invalid", "long"}
  /\ verdict[r] = "rejected" => document[r].parser = "vision"
  /\ verdict[r] = "retry" /\ call[r] = "idle" /\ r \notin disturbed => document[r].nature = "broken"
  /\ verdict[r] = "indexed" => document[r].nature = "good"
=============================================================================
