------------------------------ MODULE Sessions ------------------------------
(***************************************************************************)
(* Accounts and refresh sessions (package identity).  A registration takes *)
(* one advisory lock per login identifier, in sorted order; a rotation     *)
(* takes the advisory lock of its token family, then the token's row.      *)
(* Tokens are numbered in the order they are issued and a family bears the *)
(* number of its first token.                                              *)
(***************************************************************************)
EXTENDS Naturals, Sequences, FiniteSets

CONSTANTS Accounts,    \* registrations; a row of users bears their name
          Name, Email, \* its normalised login identifiers, 0 for no e-mail
          Requests,    \* concurrent Login, Rotate and Logout requests
          MaxTokens,   \* bound on issued tokens
          NoToken

ConstantsOK ==
  /\ Name \in [Accounts -> Nat] /\ Email \in [Accounts -> Nat]
  /\ MaxTokens \in Nat
ASSUME SessionConstants == ConstantsOK

VARIABLES users,     \* accounts that are registered
          disabled,  \* accounts whose status is disabled
          held,      \* identifiers locked by each registration
          ended,     \* registrations that are over
          token,     \* refresh_sessions, a sequence of rows
          req,       \* what each request is doing, and with which token
          replayed   \* families of which a revoked token was presented (history)

vars == <<users, disabled, held, ended, token, req, replayed>>

Tokens == 1 .. Len(token)
LoginsOf(a) == {Name[a], Email[a]} \ {0}
Row == [family : 1 .. MaxTokens, user : Accounts, revoked : BOOLEAN, expired : BOOLEAN]

TypeOK ==
  /\ users \subseteq Accounts /\ disabled \subseteq users
  /\ held \in [Accounts -> SUBSET Nat] /\ \A a \in Accounts : held[a] \subseteq LoginsOf(a)
  /\ ended \subseteq Accounts
  /\ token \in Seq(Row) /\ Len(token) <= MaxTokens
  /\ req \in [Requests -> [pc : {"idle", "login", "family", "row", "commit"},
                           token : Tokens \cup {NoToken}, user : Accounts \cup {NoToken}]]
  /\ replayed \subseteq 1 .. MaxTokens

Idle == [pc |-> "idle", token |-> NoToken, user |-> NoToken]

Init ==
  /\ users = {} /\ disabled = {} /\ replayed = {} /\ ended = {}
  /\ held = [a \in Accounts |-> {}]
  /\ token = <<>>
  /\ req = [r \in Requests |-> Idle]

-----------------------------------------------------------------------------
(* Sessions *)

\* issueSession: a live token of the family, or of a new one (family 0).
IssueSession(rows, user, family) ==
  Append(rows, [family |-> IF family = 0 THEN Len(rows) + 1 ELSE family,
                user |-> user, revoked |-> FALSE, expired |-> FALSE])

MayIssue == Len(token) < MaxTokens

\* Login reads the account without a lock ...
LoginRead(r, u) ==
  /\ req[r].pc = "idle"
  /\ u \in users \ disabled
  /\ req' = [req EXCEPT ![r] = [Idle EXCEPT !.pc = "login", !.user = u]]
  /\ UNCHANGED <<users, disabled, held, ended, token, replayed>>

\* ... and inserts the first token of a new family.
LoginIssue(r) ==
  /\ req[r].pc = "login" /\ MayIssue
  /\ token' = IssueSession(token, req[r].user, 0)
  /\ req' = [req EXCEPT ![r] = Idle]
  /\ UNCHANGED <<users, disabled, held, ended, replayed>>

\* Rotate looks the token up, to learn its family.
RotateRead(r, t) ==
  /\ req[r].pc = "idle"
  /\ req' = [req EXCEPT ![r] = [Idle EXCEPT !.pc = "family", !.token = t]]
  /\ UNCHANGED <<users, disabled, held, ended, token, replayed>>

FamilyOf(r) == token[req[r].token].family
HoldsFamily(r, family) == req[r].pc \in {"row", "commit"} /\ FamilyOf(r) = family

\* Mutation: no advisory lock.
RotateNoFamilyLock(r) ==
  /\ req[r].pc = "family"
  /\ req' = [req EXCEPT ![r].pc = "row"]
  /\ UNCHANGED <<users, disabled, held, ended, token, replayed>>

\* dblock.Transaction on the family.
RotateLockFamily(r) ==
  /\ req[r].pc = "family"
  /\ ~\E q \in Requests : HoldsFamily(q, FamilyOf(r))
  /\ req' = [req EXCEPT ![r].pc = "row"]
  /\ UNCHANGED <<users, disabled, held, ended, token, replayed>>

RowLocked(t) == \E q \in Requests : req[q].pc = "commit" /\ req[q].token = t

\* SELECT ... FOR UPDATE.  A revoked token ends the whole family, which is
\* committed although the request is refused.
RotateReplay(r) ==
  LET family == FamilyOf(r) IN
  /\ req[r].pc = "row" /\ ~RowLocked(req[r].token)
  /\ token[req[r].token].revoked
  /\ token' = [t \in Tokens |-> IF token[t].family = family
                                  THEN [token[t] EXCEPT !.revoked = TRUE] ELSE token[t]]
  /\ replayed' = replayed \cup {family}
  /\ req' = [req EXCEPT ![r] = Idle]
  /\ UNCHANGED <<users, disabled, held, ended>>

RotateLockRow(r) ==
  /\ req[r].pc = "row" /\ ~RowLocked(req[r].token)
  /\ ~token[req[r].token].revoked
  /\ req' = [req EXCEPT ![r] = IF token[req[r].token].expired THEN Idle ELSE [@ EXCEPT !.pc = "commit"]]
  /\ UNCHANGED <<users, disabled, held, ended, token, replayed>>

\* Revoke it and issue its successor; the account is read last, and when it is
\* disabled everything is rolled back.
RotateCommit(r) ==
  LET t == req[r].token
      user == token[t].user
  IN /\ req[r].pc = "commit"
     /\ \/ /\ user \in disabled
           /\ UNCHANGED token
        \/ /\ user \notin disabled /\ MayIssue
           /\ token' = IssueSession([token EXCEPT ![t].revoked = TRUE], user, token[t].family)
     /\ req' = [req EXCEPT ![r] = Idle]
     /\ UNCHANGED <<users, disabled, held, ended, replayed>>

\* Logout is one UPDATE of the presented token; it waits for the row only.
Logout(t) ==
  /\ ~RowLocked(t) /\ ~token[t].revoked
  /\ token' = [token EXCEPT ![t].revoked = TRUE]
  /\ UNCHANGED <<users, disabled, held, ended, req, replayed>>

-----------------------------------------------------------------------------
(* Registration *)

\* The locks are taken in sorted order.
NextIdentifier(a) ==
  CHOOSE i \in LoginsOf(a) \ held[a] : \A j \in LoginsOf(a) \ held[a] : i <= j

Registering(a) == a \notin ended /\ held[a] # LoginsOf(a)

RegisterLock(a) ==
  /\ Registering(a)
  /\ ~\E b \in Accounts \ {a} : NextIdentifier(a) \in held[b]
  /\ held' = [held EXCEPT ![a] = @ \cup {NextIdentifier(a)}]
  /\ UNCHANGED <<users, disabled, ended, token, req, replayed>>

\* The count over both columns.
Taken(a) == \E b \in users : LoginsOf(a) \cap LoginsOf(b) # {}

\* Create the account, its root folder and its first session, or refuse.
RegisterCommit(a) ==
  /\ a \notin ended /\ held[a] = LoginsOf(a)
  /\ ended' = ended \cup {a}
  /\ held' = [held EXCEPT ![a] = {}]
  /\ \/ /\ Taken(a)
        /\ UNCHANGED <<users, token>>
     \/ /\ ~Taken(a) /\ MayIssue
        /\ users' = users \cup {a}
        /\ token' = IssueSession(token, a, 0)
  /\ UNCHANGED <<disabled, req, replayed>>

-----------------------------------------------------------------------------
(* The rest of the world *)

\* The status column is changed by an operator.
Disable(u) ==
  /\ u \in users \ disabled
  /\ disabled' = disabled \cup {u}
  /\ UNCHANGED <<users, held, ended, token, req, replayed>>

Expire(t) ==
  /\ ~token[t].expired
  /\ token' = [token EXCEPT ![t].expired = TRUE]
  /\ UNCHANGED <<users, disabled, held, ended, req, replayed>>

Next ==
  \/ \E a \in Accounts : RegisterLock(a) \/ RegisterCommit(a) \/ Disable(a)
  \/ \E r \in Requests :
       \/ \E u \in Accounts : LoginRead(r, u)
       \/ \E t \in Tokens : RotateRead(r, t)
       \/ LoginIssue(r) \/ RotateLockFamily(r) \/ RotateReplay(r) \/ RotateLockRow(r) \/ RotateCommit(r)
  \/ \E t \in Tokens : Logout(t) \/ Expire(t)

Spec == Init /\ [][Next]_vars

-----------------------------------------------------------------------------
(* Properties *)

LiveOf(family) == {t \in Tokens : token[t].family = family /\ ~token[t].revoked}

\* A family never has two usable tokens, however its rotations and logouts
\* interleave, and once a used token was presented again it has none, for good:
\* no rotation under way lets a descendant escape the revocation.
FamilyFenced ==
  \A family \in 1 .. MaxTokens :
    /\ Cardinality(LiveOf(family)) <= 1
    /\ family \in replayed => LiveOf(family) = {}

WaitsFor(a, b) == a # b /\ Registering(a) /\ NextIdentifier(a) \in held[b]

\* No two accounts can be meant by one login, though names and e-mails are
\* different columns, and registrations that want each other's identifiers do
\* not lock each other out.
LoginsUnique ==
  /\ \A a, b \in users : a # b => LoginsOf(a) \cap LoginsOf(b) = {}
  /\ \A a, b \in Accounts : ~(WaitsFor(a, b) /\ WaitsFor(b, a))

\* What the locks of package identity are for: a stolen or used refresh token is
\* worth nothing, and a login means one account.
SessionsSound == FamilyFenced /\ LoginsUnique
=============================================================================
