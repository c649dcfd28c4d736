----------------------------- MODULE Thumbnails -----------------------------
(***************************************************************************)
(* The thumbnail of one image object (media.Service): attempts that write  *)
(* it, the cleanup of abandoned attempts and the object's garbage          *)
(* collection (objectstore), which removes it with the object.             *)
(*                                                                         *)
(* Every attempt has a key of its own and, before it writes, a             *)
(* variant.delete operation that it owns until it commits; attempt and     *)
(* key are the same name here.  The object may be uploaded again after its *)
(* deletion and has a new key then: `life` counts the keys.                *)
(***************************************************************************)
EXTENDS Naturals, FiniteSets

CONSTANTS Attempts,    \* one thumbnail task delivery each
          Cleaners,    \* maintenance workers that run variant.delete operations
          Collectors,  \* maintenance workers that run the object.delete operation
          MaxLives,    \* bound: how often the content is uploaded
          MaxFaults,   \* bound: failed calls, crashes, outlived leases
          Nobody

VARIABLES image,    \* file_objects: status and key
          variant,  \* object_variants: the key of the thumbnail, or Nobody
          stored,   \* provider: keys that hold bytes
          cleanup,  \* the variant.delete operation of each attempt
          writer,   \* the attempts
          cleaner,  \* the attempt each cleaner works on, and where it is
          deletion, \* the object.delete operation of the present key
          collector,
          faults

vars == <<image, variant, stored, cleanup, writer, cleaner, deletion, collector, faults>>
writing == <<writer, variant>>
cleaning == <<cleaner>>
collecting == <<deletion, collector>>

Resting == [at |-> "idle", life |-> 0]
Free == [at |-> "idle", attempt |-> Nobody]
Waiting == [at |-> "idle", life |-> 0, todo |-> {}]

Init ==
  /\ image = [status |-> "ready", life |-> 1] /\ variant = Nobody /\ stored = {}
  /\ cleanup = [a \in Attempts |-> [state |-> "absent", owner |-> Nobody]]
  /\ writer = [a \in Attempts |-> Resting] /\ cleaner = [c \in Cleaners |-> Free]
  /\ deletion = [state |-> "absent", owner |-> Nobody]
  /\ collector = [g \in Collectors |-> Waiting]
  /\ faults = [n |-> 0, outlived |-> FALSE]

Fault(outlived) ==
  /\ faults.n < MaxFaults
  /\ faults' = [n |-> faults.n + 1, outlived |-> faults.outlived \/ outlived]

Current(life) == image = [status |-> "ready", life |-> life]

\* Who works on attempt a's operation: the attempt itself or a cleaner.
Working(p, a) ==
  \/ p = a /\ writer[a].at \in {"put", "commit", "fail"}
  \/ p \in Cleaners /\ cleaner[p].attempt = a

Owns(p, a) == cleanup[a] = [state |-> "running", owner |-> p]

-----------------------------------------------------------------------------
(* Process and writeVariant *)

\* The task sees the object ready, without a thumbnail, and reads it.
Process(a) ==
  /\ writer[a].at = "idle" /\ image.status = "ready" /\ variant = Nobody
  /\ writer' = [writer EXCEPT ![a] = [at |-> "register", life |-> image.life]]
  /\ UNCHANGED <<image, variant, stored, cleanup, cleaning, collecting, faults>>

\* The bytes are gone, unreadable or no image: nothing was registered.
DecodeFails(a) ==
  /\ writer[a].at = "register" /\ writer' = [writer EXCEPT ![a].at = "end"]
  /\ UNCHANGED <<image, variant, stored, cleanup, cleaning, collecting, faults>>

\* Under the object's lock: enqueue and claim the compensation.
Register(a) ==
  /\ writer[a].at = "register"
  /\ IF Current(writer[a].life)
     THEN /\ cleanup' = [cleanup EXCEPT ![a] = [state |-> "running", owner |-> a]]
          /\ writer' = [writer EXCEPT ![a].at = "put"]
     ELSE writer' = [writer EXCEPT ![a].at = "end"] /\ UNCHANGED cleanup
  /\ UNCHANGED <<image, variant, stored, cleaning, collecting, faults>>

PutObject(a) ==
  /\ writer[a].at = "put" /\ stored' = stored \cup {a}
  /\ writer' = [writer EXCEPT ![a].at = "commit"]
  /\ UNCHANGED <<image, variant, cleanup, cleaning, collecting, faults>>

\* The provider reports an error, with or without having stored the bytes.
PutFails(a) ==
  /\ writer[a].at = "put" /\ Fault(FALSE) /\ stored' \in {stored, stored \cup {a}}
  /\ writer' = [writer EXCEPT ![a].at = "fail"]
  /\ UNCHANGED <<image, variant, cleanup, cleaning, collecting>>

\* Mutation: the thumbnail is published without the ownership of its removal.
CommitUnowned(a) ==
  /\ writer[a].at = "commit"
  /\ IF Current(writer[a].life) /\ variant = Nobody
     THEN /\ variant' = a /\ writer' = [writer EXCEPT ![a].at = "end"]
          /\ cleanup' = [cleanup EXCEPT ![a] = [state |-> "succeeded", owner |-> Nobody]]
     ELSE writer' = [writer EXCEPT ![a].at = "fail"] /\ UNCHANGED <<variant, cleanup>>
  /\ UNCHANGED <<image, stored, cleaning, collecting, faults>>

\* The transaction that publishes the thumbnail and cancels its removal.  It
\* is not needed when the object was retired or another attempt was first.
CommitVariant(a) ==
  /\ writer[a].at = "commit"
  /\ IF Owns(a, a) /\ Current(writer[a].life) /\ variant = Nobody
     THEN /\ variant' = a /\ writer' = [writer EXCEPT ![a].at = "end"]
          /\ cleanup' = [cleanup EXCEPT ![a] = [state |-> "succeeded", owner |-> Nobody]]
     ELSE writer' = [writer EXCEPT ![a].at = "fail"] /\ UNCHANGED <<variant, cleanup>>
  /\ UNCHANGED <<image, stored, cleaning, collecting, faults>>

\* MarkFailedOwned and RecordError: an operation still owned is retried later.
FailVariant(a) ==
  /\ writer[a].at = "fail" /\ writer' = [writer EXCEPT ![a].at = "end"]
  /\ cleanup' = IF Owns(a, a) THEN [cleanup EXCEPT ![a] = [state |-> "failed", owner |-> Nobody]] ELSE cleanup
  /\ UNCHANGED <<image, variant, stored, cleaning, collecting, faults>>

WriterCrash(a) ==
  /\ writer[a].at \notin {"idle", "end"} /\ Fault(FALSE)
  /\ writer' = [writer EXCEPT ![a].at = "end"]
  /\ UNCHANGED <<image, variant, stored, cleanup, cleaning, collecting>>

-----------------------------------------------------------------------------
(* ReconcileObjectDeletes, performVariantDelete *)

\* Claim a failed operation or one whose lease has run out, because its owner is
\* gone or, as a fault, because it is slow.
ClaimCleanup(c, a) ==
  /\ cleaner[c] = Free /\ cleanup[a].state \in {"failed", "running"}
  /\ IF cleanup[a].state = "running" /\ Working(cleanup[a].owner, a) THEN Fault(TRUE) ELSE UNCHANGED faults
  /\ cleanup' = [cleanup EXCEPT ![a] = [state |-> "running", owner |-> c]]
  /\ cleaner' = [cleaner EXCEPT ![c] = [at |-> "adopted", attempt |-> a]]
  /\ UNCHANGED <<image, writing, stored, collecting>>

CheckAdopted(c) ==
  /\ cleaner[c].at = "adopted"
  /\ cleaner' = [cleaner EXCEPT ![c].at = IF variant = cleaner[c].attempt THEN "mark" ELSE "remove"]
  /\ UNCHANGED <<image, writing, stored, cleanup, collecting, faults>>

RemoveAttempt(c) ==
  /\ cleaner[c].at = "remove" /\ stored' = stored \ {cleaner[c].attempt}
  /\ cleaner' = [cleaner EXCEPT ![c].at = "mark"]
  /\ UNCHANGED <<image, writing, cleanup, collecting, faults>>

MarkCleaned(c) ==
  /\ cleaner[c].at = "mark" /\ cleaner' = [cleaner EXCEPT ![c] = Free]
  /\ LET a == cleaner[c].attempt IN
     cleanup' = IF Owns(c, a) THEN [cleanup EXCEPT ![a] = [state |-> "succeeded", owner |-> Nobody]] ELSE cleanup
  /\ UNCHANGED <<image, writing, stored, collecting, faults>>

CleanerCrash(c) ==
  /\ cleaner[c] # Free /\ Fault(FALSE) /\ cleaner' = [cleaner EXCEPT ![c] = Free]
  /\ UNCHANGED <<image, writing, stored, cleanup, collecting>>

-----------------------------------------------------------------------------
(* GarbageCollect, performObjectDelete and the next upload of the content *)

GarbageCollect ==
  /\ image.status = "ready" /\ image' = [image EXCEPT !.status = "deleting"]
  /\ deletion' = [state |-> "pending", owner |-> Nobody]
  /\ UNCHANGED <<writing, stored, cleanup, cleaning, collector, faults>>

ClaimDelete(g) ==
  /\ collector[g] = Waiting /\ deletion.state \in {"pending", "running"}
  /\ IF deletion.state = "running" /\ collector[deletion.owner] # Waiting THEN Fault(TRUE) ELSE UNCHANGED faults
  /\ deletion' = [state |-> "running", owner |-> g]
  /\ collector' = [collector EXCEPT ![g] = [at |-> "check", life |-> image.life, todo |-> {}]]
  /\ UNCHANGED <<image, writing, stored, cleanup, cleaning>>

Deleting(g) == image = [status |-> "deleting", life |-> collector[g].life]
OwnsDelete(g) == deletion = [state |-> "running", owner |-> g] /\ Deleting(g)

\* An attempt or a cleanup at work defers the deletion.
CheckWriters(g) ==
  /\ collector[g].at = "check"
  /\ IF Deleting(g) /\ \A a \in Attempts : cleanup[a].state # "running"
     THEN collector' = [collector EXCEPT ![g].at = "list"] /\ UNCHANGED deletion
     ELSE /\ collector' = [collector EXCEPT ![g] = Waiting]
          /\ deletion' = IF OwnsDelete(g) THEN [state |-> "pending", owner |-> Nobody] ELSE deletion
  /\ UNCHANGED <<image, writing, stored, cleanup, cleaning, faults>>

\* The thumbnails, of an object that still has this key and is being deleted.
ListVariants(g) ==
  /\ collector[g].at = "list"
  /\ collector' = [collector EXCEPT ![g].at = "remove",
                                    ![g].todo = IF Deleting(g) THEN {variant} \ {Nobody} ELSE {}]
  /\ UNCHANGED <<image, writing, stored, cleanup, cleaning, deletion, faults>>

RemoveObjects(g) ==
  /\ collector[g].at = "remove" /\ stored' = stored \ collector[g].todo
  /\ collector' = [collector EXCEPT ![g].at = "commit"]
  /\ UNCHANGED <<image, writing, cleanup, cleaning, deletion, faults>>

CommitDelete(g) ==
  /\ collector[g].at = "commit" /\ collector' = [collector EXCEPT ![g] = Waiting]
  /\ IF OwnsDelete(g)
     THEN /\ image' = [image EXCEPT !.status = "deleted"] /\ variant' = Nobody
          /\ deletion' = [state |-> "succeeded", owner |-> Nobody]
     ELSE UNCHANGED <<image, variant, deletion>>
  /\ UNCHANGED <<stored, cleanup, writer, cleaning, faults>>

CollectorCrash(g) ==
  /\ collector[g] # Waiting /\ Fault(FALSE) /\ collector' = [collector EXCEPT ![g] = Waiting]
  /\ UNCHANGED <<image, writing, stored, cleanup, cleaning, deletion>>

\* CreateOrGet of a deleted row: the same row under a new key.
Revive ==
  /\ image.status = "deleted" /\ image.life < MaxLives
  /\ image' = [status |-> "ready", life |-> image.life + 1]
  /\ deletion' = [state |-> "absent", owner |-> Nobody]
  /\ UNCHANGED <<writing, stored, cleanup, cleaning, collector, faults>>

Next ==
  \/ GarbageCollect \/ Revive
  \/ \E a \in Attempts : Process(a) \/ DecodeFails(a) \/ Register(a) \/ PutObject(a) \/ PutFails(a)
                         \/ CommitVariant(a) \/ FailVariant(a) \/ WriterCrash(a)
  \/ \E c \in Cleaners : \/ \E a \in Attempts : ClaimCleanup(c, a)
                         \/ CheckAdopted(c) \/ RemoveAttempt(c) \/ MarkCleaned(c) \/ CleanerCrash(c)
  \/ \E g \in Collectors : ClaimDelete(g) \/ CheckWriters(g) \/ ListVariants(g) \/ RemoveObjects(g)
                           \/ CommitDelete(g) \/ CollectorCrash(g)

-----------------------------------------------------------------------------

\* A thumbnail that is served exists: no cleanup and no collector of an earlier
\* life removed its bytes.  And bytes in the store belong to the thumbnail or to
\* an operation that will remove them, unless somebody outlived a lease: a write
\* that arrives after its cleanup stays.
ThumbnailsHold ==
  /\ image.status = "ready" /\ variant # Nobody => variant \in stored
  /\ faults.outlived \/ \A a \in stored : variant = a \/ cleanup[a].state \in {"running", "failed"}
=============================================================================
