------------------------------- MODULE Sharing -------------------------------
(***************************************************************************)
(* One share link of one file (package sharing): its owner creates it,     *)
(* changes its expiry, revokes it and may delete the file; a visitor       *)
(* resolves the link to a short-lived access token and reads the file, or  *)
(* imports it into the own drive.   A transaction whose reads are all      *)
(* under its row locks is one step (their order is the matter of           *)
(* RowLocks); what is read without a lock is a step of its own.            *)
(***************************************************************************)
EXTENDS Naturals, Sequences, FiniteSets

CONSTANTS Requests,  \* requests the visitor has under way at once
          Keys,      \* idempotency keys of imports
          Expiries,  \* expiry times the owner chooses from
          TTL,       \* access_ttl, in ticks
          Second,    \* ticks per second
          MaxTime,   \* bound on time
          MaxEdits,  \* bound on changes of the expiry
          None

VARIABLES now,      \* the clock, in ticks
          share,    \* the row of shares
          live,     \* the source file is not deleted
          edit,     \* version the owner's browser has loaded, 0 for none
          acl,      \* the owner's ACL epoch
          tokens,   \* expiry, in seconds, of the access tokens handed out
          imports,  \* share_imports: the keys of the visitor's imports
          copy,     \* the imported file is in the visitor's drive
          full,     \* the visitor's quota is used up
          req,      \* the visitor's requests
          events    \* outbox events of the share, in commit order

vars == <<now, share, live, edit, acl, tokens, imports, copy, full, req, events>>

Never == MaxTime + 1
Goals == {"resolve", "access", "import"}

TypeOK ==
  /\ now \in 0 .. MaxTime /\ live \in BOOLEAN /\ edit \in Nat /\ acl \in Nat
  /\ share \in [ver : Nat, revoked : BOOLEAN, expires : Expiries \cup {Never}]
  /\ tokens \subseteq Nat
  /\ imports \subseteq Keys /\ copy \in BOOLEAN /\ full \in BOOLEAN
  /\ req \in [Requests -> [pc : {"idle", "file", "granted"}, goal : Goals \cup {None},
                           ver : Nat, expires : Nat, entitled : BOOLEAN]]
  /\ events \in Seq([type : {"created", "updated", "revoked", "imported"}, ver : Nat])

IdleRequest == [pc |-> "idle", goal |-> None, ver |-> 0, expires |-> 0, entitled |-> FALSE]

Init ==
  /\ now = 0 /\ live = TRUE /\ edit = 0 /\ acl = 1
  /\ share = [ver |-> 0, revoked |-> FALSE, expires |-> Never]
  /\ tokens = {} /\ imports = {} /\ copy = FALSE /\ full \in BOOLEAN
  /\ req = [v \in Requests |-> IdleRequest]
  /\ events = <<>>

AddTyped(type, ver) == events' = Append(events, [type |-> type, ver |-> ver])

-----------------------------------------------------------------------------
(* The owner *)

\* Create: lockSource holds the live source file until the share is committed.
Create(expires) ==
  /\ share.ver = 0 /\ expires > now /\ live
  /\ share' = [ver |-> 1, revoked |-> FALSE, expires |-> expires]
  /\ acl' = acl + 1
  /\ AddTyped("created", 1)
  /\ UNCHANGED <<now, live, edit, tokens, imports, copy, full, req>>

\* The browser loads the share (GetView) before it is edited.
LoadView ==
  /\ share.ver > 0 /\ edit # share.ver
  /\ edit' = share.ver
  /\ UNCHANGED <<now, share, live, acl, tokens, imports, copy, full, req, events>>

\* UpdateExpiry; it may renew an expired share.
UpdateExpiry(expires) ==
  /\ edit > 0 /\ expires > now /\ share.ver <= MaxEdits
  /\ ~share.revoked /\ share.ver = edit /\ live
  /\ share' = [share EXCEPT !.ver = @ + 1, !.expires = expires]
  /\ acl' = acl + 1
  /\ AddTyped("updated", share.ver + 1)
  /\ UNCHANGED <<now, live, edit, tokens, imports, copy, full, req>>

\* Revoke; a second one changes nothing.
Revoke ==
  /\ share.ver > 0 /\ ~share.revoked
  /\ share' = [share EXCEPT !.ver = @ + 1, !.revoked = TRUE]
  /\ acl' = acl + 1
  /\ AddTyped("revoked", share.ver + 1)
  /\ UNCHANGED <<now, live, edit, tokens, imports, copy, full, req>>

\* drive.FileManager.Delete of the source.
DeleteSource ==
  /\ live
  /\ live' = FALSE
  /\ UNCHANGED <<now, share, edit, acl, tokens, imports, copy, full, req, events>>

-----------------------------------------------------------------------------
(* Visitors *)

\* validateShare; a share that was never created is not found.
ValidateShare == share.ver > 0 /\ ~share.revoked /\ share.expires > now

\* signAccess rounds up to a full second, verifyAccess compares full seconds.
SignAccess(expires) == (expires + Second - 1) \div Second
VerifyAccess(token) == now \div Second < token

Begin(v, goal) ==
  req' = [req EXCEPT ![v] = [pc |-> "file", goal |-> goal, ver |-> share.ver,
                             expires |-> IF goal = "resolve" THEN share.expires ELSE 0,
                             entitled |-> ValidateShare /\ live]]

\* Resolve reads and validates the share by its key.
Resolve(v) ==
  /\ req[v].pc = "idle" /\ ValidateShare
  /\ Begin(v, "resolve")
  /\ UNCHANGED <<now, share, live, edit, acl, tokens, imports, copy, full, events>>

\* Access (alone or first in Import) verifies the token, then the share.
Access(v, token, goal) ==
  /\ req[v].pc = "idle" /\ VerifyAccess(token) /\ ValidateShare
  /\ Begin(v, goal)
  /\ UNCHANGED <<now, share, live, edit, acl, tokens, imports, copy, full, events>>

\* drive.File asks the database whether the file is still there.
FileVisible == live

Min(a, b) == IF a < b THEN a ELSE b

\* drive.File; Resolve then signs a token that ends with the share.
ReadFile(v) ==
  /\ req[v].pc = "file"
  /\ IF ~FileVisible THEN req' = [req EXCEPT ![v] = IdleRequest] /\ UNCHANGED tokens
     ELSE /\ req' = [req EXCEPT ![v].pc = "granted"]
          /\ tokens' = IF req[v].goal = "resolve"
                         THEN tokens \cup {SignAccess(Min(now + TTL, req[v].expires))} ELSE tokens
  /\ UNCHANGED <<now, share, live, edit, acl, imports, copy, full, events>>

\* The answer is on its way.
Answered(v) ==
  /\ req[v].pc = "granted" /\ req[v].goal # "import"
  /\ req' = [req EXCEPT ![v] = IdleRequest]
  /\ UNCHANGED <<now, share, live, edit, acl, tokens, imports, copy, full, events>>

\* The transaction of Import, under the advisory lock of visitor and key: an
\* earlier import with this key is returned (refused, when the folder is another
\* one); else share and source are read again, under share locks.
ImportReplay(v, key) ==
  /\ req[v].pc = "granted" /\ req[v].goal = "import" /\ key \in imports
  /\ req' = [req EXCEPT ![v] = IdleRequest]
  /\ UNCHANGED <<now, share, live, edit, acl, tokens, imports, copy, full, events>>

ImportRefused(v, key) ==
  /\ req[v].pc = "granted" /\ req[v].goal = "import" /\ key \notin imports
  /\ ~ValidateShare \/ ~live \/ full \/ copy
  /\ req' = [req EXCEPT ![v] = IdleRequest]
  /\ UNCHANGED <<now, share, live, edit, acl, tokens, imports, copy, full, events>>

\* Mutation: the share that Access has read is not read again.
ImportCommitStale(v, key) ==
  /\ req[v].pc = "granted" /\ req[v].goal = "import" /\ key \notin imports
  /\ live /\ ~full /\ ~copy
  /\ imports' = imports \cup {key}
  /\ copy' = TRUE /\ full' = TRUE
  /\ AddTyped("imported", req[v].ver)
  /\ req' = [req EXCEPT ![v] = IdleRequest]
  /\ UNCHANGED <<now, share, live, edit, acl, tokens>>

\* AddLogicalUsage, CreateFile (which refuses a second live entry of the same
\* content), AddReference, the import row and the events; the first of them
\* carries the version that Access has read.
ImportCommit(v, key) ==
  /\ req[v].pc = "granted" /\ req[v].goal = "import" /\ key \notin imports
  /\ ValidateShare /\ live /\ ~full /\ ~copy
  /\ imports' = imports \cup {key}
  /\ copy' = TRUE /\ full' = TRUE
  /\ AddTyped("imported", req[v].ver)
  /\ req' = [req EXCEPT ![v] = IdleRequest]
  /\ UNCHANGED <<now, share, live, edit, acl, tokens>>

\* The visitor deletes the imported file, which returns its quota.
DeleteCopy ==
  /\ copy
  /\ copy' = FALSE /\ full' = FALSE
  /\ UNCHANGED <<now, share, live, edit, acl, tokens, imports, req, events>>

Tick ==
  /\ now < MaxTime /\ now' = now + 1
  /\ UNCHANGED <<share, live, edit, acl, tokens, imports, copy, full, req, events>>

Next ==
  \/ \E e \in Expiries : Create(e) \/ UpdateExpiry(e)
  \/ LoadView \/ Revoke \/ DeleteSource \/ DeleteCopy \/ Tick
  \/ \E v \in Requests :
       \/ Resolve(v) \/ ReadFile(v) \/ Answered(v)
       \/ \E token \in tokens, goal \in {"access", "import"} : Access(v, token, goal)
       \/ \E k \in Keys : ImportReplay(v, k) \/ ImportRefused(v, k) \/ ImportCommit(v, k)

Spec == Init /\ [][Next]_vars

-----------------------------------------------------------------------------
(* Properties *)

\* The changes of the share among the first i events.
Changes(i) == {j \in 1 .. i : events[j].type # "imported"}

\* What a share grants ends with it.  A request gets the file only if share and
\* file were both valid at some moment of the request, although they are read
\* one after the other, tokens are rounded up and metadata is cached; after the
\* revocation nothing is imported or changed any more, whatever was read before
\* it; every change has its own version; and a repeated import is not charged.
SharesHonoured ==
  /\ \A v \in Requests : req[v].pc = "granted" => req[v].entitled
  /\ \A i \in 1 .. Len(events) : events[i].type = "revoked" => i = Len(events)
  /\ \A i \in Changes(Len(events)) : events[i].ver = Cardinality(Changes(i))
  /\ Cardinality(Changes(Len(events))) = share.ver /\ acl = share.ver + 1
  /\ Len(events) - share.ver = Cardinality(imports)
=============================================================================
