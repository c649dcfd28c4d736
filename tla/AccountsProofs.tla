--------------------------- MODULE AccountsProofs ---------------------------
(***************************************************************************)
(* Proofs about Sessions, Sharing and RowLocks.  For any accounts,         *)
(* requests and number of tokens, a token family has at most one usable    *)
(* token and none after a replay, and a login means one account.  For any  *)
(* number of visits and edits, nothing is granted that the share does not  *)
(* allow.  For any set of transactions, a deadlock needs an import or two  *)
(* verifications.                                                          *)
(***************************************************************************)
EXTENDS MCAccounts, FiniteSetTheorems, SequenceTheorems, TLAPS

-----------------------------------------------------------------------------
(* Sessions: the inductive invariant *)

\* A family is as old as its first token, so the next one is new.
Families ==
  /\ \A t \in Tokens : token[t].family <= t
  /\ \A f \in replayed : f <= Len(token)

\* What FamilyFenced says, token by token.
OneLive ==
  \A t, u \in Tokens :
    token[t].family = token[u].family /\ ~token[t].revoked /\ ~token[u].revoked => t = u
ReplayedDead == \A t \in Tokens : token[t].family \in replayed => token[t].revoked

\* What a request knows at its place, and what its locks keep from others.
Presented ==
  \A r \in Requests : /\ req[r].pc \in {"family", "row", "commit"} => req[r].token \in Tokens
                      /\ req[r].pc = "login" => req[r].user \in Accounts
FamilyLocks ==
  \A q, r \in Requests :
    q # r /\ req[q].pc \in {"row", "commit"} /\ req[r].pc \in {"row", "commit"} => FamilyOf(q) # FamilyOf(r)
RowHeld == \A r \in Requests : req[r].pc = "commit" => ~token[req[r].token].revoked

\* A registration holds the first of its identifiers.
SortedLocks == \A a \in Accounts : \A i \in held[a], j \in LoginsOf(a) \ held[a] : i < j
UniqueLogins == \A a, b \in users : a # b => LoginsOf(a) \cap LoginsOf(b) = {}

SessionInv == Families /\ OneLive /\ ReplayedDead /\ Presented /\ FamilyLocks /\ RowHeld
IInv == TypeOK /\ SessionInv /\ SortedLocks /\ UniqueLogins

-----------------------------------------------------------------------------
(* The table of tokens *)

\* issueSession adds one live token, of a family that is given or new.
LEMMA Issued ==
  ASSUME ConstantsOK, NEW rows \in Seq(Row), NEW user \in Accounts, NEW family \in 0 .. Len(rows),
         Len(rows) < MaxTokens
  PROVE  /\ IssueSession(rows, user, family) \in Seq(Row)
         /\ Len(IssueSession(rows, user, family)) = Len(rows) + 1
         /\ \A t \in 1 .. Len(rows) : IssueSession(rows, user, family)[t] = rows[t]
         /\ IssueSession(rows, user, family)[Len(rows) + 1] =
              [family |-> IF family = 0 THEN Len(rows) + 1 ELSE family,
               user |-> user, revoked |-> FALSE, expired |-> FALSE]
<1> DEFINE new == [family |-> IF family = 0 THEN Len(rows) + 1 ELSE family,
                   user |-> user, revoked |-> FALSE, expired |-> FALSE]
<1>1. (IF family = 0 THEN Len(rows) + 1 ELSE family) \in 1 .. MaxTokens
  BY LenProperties DEF ConstantsOK
<1>2. new \in Row
  BY <1>1 DEF Row
<1>3. IssueSession(rows, user, family) = Append(rows, new)
  BY DEF IssueSession
<1> HIDE DEF new
<1>4. /\ Append(rows, new) \in Seq(Row) /\ Len(Append(rows, new)) = Len(rows) + 1
      /\ \A t \in 1 .. Len(rows) : Append(rows, new)[t] = rows[t]
      /\ Append(rows, new)[Len(rows) + 1] = new
  BY <1>2
<1> QED BY <1>3, <1>4 DEF new

\* A table that is changed in place keeps its length.
LEMMA InPlace ==
  ASSUME NEW rows \in Seq(Row), NEW new \in [1 .. Len(rows) -> Row]
  PROVE  new \in Seq(Row) /\ Len(new) = Len(rows)
<1>1. Len(rows) \in Nat
  BY LenProperties
<1>2. new \in Seq(Row)
  BY <1>1
<1>3. DOMAIN new = 1 .. Len(new) /\ DOMAIN new = 1 .. Len(rows) /\ Len(new) \in Nat
  BY <1>2, LenProperties
<1> QED BY <1>1, <1>2, <1>3

\* The table and the requests stay well typed.
LEMMA TableType ==
  ASSUME TypeOK, token' \in Seq(Row), Len(token') >= Len(token), Len(token') <= MaxTokens,
         req' \in [Requests -> [pc : {"idle", "login", "family", "row", "commit"},
                                token : Tokens' \cup {NoToken}, user : Accounts \cup {NoToken}]],
         replayed' \subseteq 1 .. MaxTokens, UNCHANGED <<users, disabled, held, ended>>
  PROVE  TypeOK'
BY DEF TypeOK

\* Sessions do not touch registrations.
LEMMA RegistrationsKept ==
  ASSUME IInv, TypeOK', SessionInv', UNCHANGED <<users, held>>
  PROVE  IInv'
BY DEF IInv, SortedLocks, UniqueLogins

\* A request that ends or has just begun knows nothing; the table is as it was.
LEMMA RequestMoves ==
  ASSUME IInv, NEW r \in Requests,
         NEW new \in [pc : {"idle", "login", "family"}, token : Tokens \cup {NoToken}, user : Accounts \cup {NoToken}],
         new.pc = "family" => new.token \in Tokens,
         new.pc = "login" => new.user \in Accounts,
         req' = [req EXCEPT ![r] = new], UNCHANGED <<users, disabled, held, ended, token, replayed>>
  PROVE  IInv'
<1>1. TypeOK'
  BY DEF IInv, TypeOK, Tokens
<1>2. Families' /\ OneLive' /\ ReplayedDead'
  BY DEF IInv, SessionInv, Families, OneLive, ReplayedDead, Tokens
<1>3. Presented' /\ FamilyLocks' /\ RowHeld'
  BY DEF IInv, TypeOK, SessionInv, Presented, FamilyLocks, RowHeld, FamilyOf, Tokens
<1> QED BY <1>1, <1>2, <1>3, RegistrationsKept DEF SessionInv

LEMMA InitInv == ConstantsOK /\ Init => IInv
<1> SUFFICES ASSUME ConstantsOK, Init PROVE IInv
  OBVIOUS
<1>1. token \in Seq(Row) /\ Len(token) = 0
  BY DEF Init
<1>2. TypeOK
  BY <1>1 DEF Init, TypeOK, Idle, ConstantsOK
<1>3. SessionInv
  BY <1>1 DEF Init, SessionInv, Families, OneLive, ReplayedDead, Presented, FamilyLocks, RowHeld, Tokens, Idle
<1>4. SortedLocks /\ UniqueLogins
  BY DEF Init, SortedLocks, UniqueLogins
<1> QED BY <1>2, <1>3, <1>4 DEF IInv

-----------------------------------------------------------------------------
(* Login, rotation, logout *)

LEMMA ReadInv ==
  ASSUME IInv, NEW r \in Requests,
         \/ \E u \in Accounts : LoginRead(r, u)
         \/ \E t \in Tokens : RotateRead(r, t)
  PROVE  IInv'
<1>1. CASE \E u \in Accounts : LoginRead(r, u)
  BY <1>1, RequestMoves DEF LoginRead, Idle
<1>2. CASE \E t \in Tokens : RotateRead(r, t)
  BY <1>2, RequestMoves DEF RotateRead, Idle
<1> QED BY <1>1, <1>2

\* A new token of a new family disturbs nobody.
LEMMA NewFamily ==
  ASSUME ConstantsOK, IInv, MayIssue, NEW user \in Accounts, token' = IssueSession(token, user, 0),
         UNCHANGED <<disabled, replayed>>
  PROVE  /\ token' \in Seq(Row) /\ Len(token') = Len(token) + 1 /\ Len(token') <= MaxTokens
         /\ \A t \in Tokens : t \in Tokens' /\ token'[t] = token[t]
         /\ Families' /\ OneLive' /\ ReplayedDead'
<1>0. token \in Seq(Row) /\ Len(token) \in Nat /\ MaxTokens \in Nat
  BY LenProperties DEF IInv, TypeOK, ConstantsOK
<1>1. /\ token' \in Seq(Row) /\ Len(token') = Len(token) + 1
      /\ \A t \in 1 .. Len(token) : token'[t] = token[t]
      /\ token'[Len(token) + 1] = [family |-> Len(token) + 1, user |-> user, revoked |-> FALSE, expired |-> FALSE]
  <2>1. 0 \in 0 .. Len(token) /\ Len(token) < MaxTokens
    BY <1>0 DEF MayIssue
  <2> QED BY <1>0, <2>1, Issued
<1>2. Len(token') <= MaxTokens /\ \A t \in Tokens : t \in Tokens' /\ token'[t] = token[t]
  BY <1>0, <1>1 DEF MayIssue, Tokens
<1>3. \A t \in Tokens' : t \in Tokens \/ t = Len(token) + 1
  BY <1>0, <1>1 DEF Tokens
<1>4. \A t \in Tokens : token[t].family \in Nat /\ token[t].family < Len(token) + 1
  <2>1. \A t \in Tokens : token[t] \in Row
    BY <1>0, ElementOfSeq DEF Tokens
  <2> QED BY <1>0, <2>1 DEF IInv, SessionInv, Families, Tokens, Row
<1>5. Families'
  <2>1. \A f \in replayed : f \in Nat
    BY DEF IInv, TypeOK
  <2> QED BY <1>0, <1>1, <1>3, <2>1 DEF IInv, SessionInv, Families, Tokens
<1>6. OneLive'
  BY <1>0, <1>1, <1>2, <1>3, <1>4 DEF IInv, SessionInv, OneLive
<1>7. ReplayedDead'
  <2>1. Len(token) + 1 \notin replayed
    BY <1>0 DEF IInv, SessionInv, Families, TypeOK
  <2> QED BY <1>1, <1>2, <1>3, <2>1 DEF IInv, SessionInv, ReplayedDead
<1> QED BY <1>1, <1>2, <1>5, <1>6, <1>7

LEMMA LoginIssueInv ==
  ASSUME ConstantsOK, IInv, NEW r \in Requests, LoginIssue(r)
  PROVE  IInv'
<1>0. req[r].user \in Accounts
  BY DEF LoginIssue, IInv, SessionInv, Presented
<1>1. /\ token' \in Seq(Row) /\ Len(token') = Len(token) + 1 /\ Len(token') <= MaxTokens
      /\ \A t \in Tokens : t \in Tokens' /\ token'[t] = token[t]
      /\ Families' /\ OneLive' /\ ReplayedDead'
  BY <1>0, NewFamily DEF LoginIssue
<1>2. Len(token) \in Nat
  BY LenProperties DEF IInv, TypeOK
<1>3. TypeOK'
  <2>1. req' \in [Requests -> [pc : {"idle", "login", "family", "row", "commit"},
                               token : Tokens' \cup {NoToken}, user : Accounts \cup {NoToken}]]
    BY <1>1 DEF LoginIssue, Idle, IInv, TypeOK
  <2> QED BY <1>1, <1>2, <2>1, TableType DEF LoginIssue, IInv, TypeOK
<1>a. req' = [req EXCEPT ![r] = Idle] /\ req \in [Requests -> [pc : {"idle", "login", "family", "row", "commit"},
                                            token : Tokens \cup {NoToken}, user : Accounts \cup {NoToken}]]
  BY DEF LoginIssue, IInv, TypeOK
<1>b. \A q \in Requests : req'[q].pc # "idle" => req'[q] = req[q] /\ q # r
  BY <1>a DEF Idle
<1>4. Presented'
  BY <1>1, <1>b DEF IInv, SessionInv, Presented
<1>5. \A q \in Requests : req'[q].pc \in {"row", "commit"} => token'[req'[q].token] = token[req[q].token]
  BY <1>1, <1>b DEF IInv, SessionInv, Presented
<1>6. FamilyLocks' /\ RowHeld'
  BY <1>5, <1>b DEF IInv, SessionInv, FamilyLocks, RowHeld, FamilyOf
<1> QED BY <1>1, <1>3, <1>4, <1>6, RegistrationsKept DEF SessionInv, LoginIssue

LEMMA LockFamilyInv ==
  ASSUME IInv, NEW r \in Requests, RotateLockFamily(r)
  PROVE  IInv'
<1>1. TypeOK'
  BY DEF RotateLockFamily, IInv, TypeOK, Tokens
<1>2. Families' /\ OneLive' /\ ReplayedDead'
  BY DEF RotateLockFamily, IInv, SessionInv, Families, OneLive, ReplayedDead, Tokens
<1>3. Presented' /\ FamilyLocks' /\ RowHeld'
  BY DEF RotateLockFamily, HoldsFamily, IInv, TypeOK, SessionInv, Presented, FamilyLocks, RowHeld, FamilyOf, Tokens
<1> QED BY <1>1, <1>2, <1>3, RegistrationsKept DEF SessionInv, RotateLockFamily

LEMMA LockRowInv ==
  ASSUME IInv, NEW r \in Requests, RotateLockRow(r)
  PROVE  IInv'
<1>1. CASE token[req[r].token].expired
  BY <1>1, RequestMoves DEF RotateLockRow, Idle
<1>2. CASE ~token[req[r].token].expired
  <2>0. req' = [req EXCEPT ![r].pc = "commit"] /\ UNCHANGED <<users, disabled, held, ended, token, replayed>>
    BY <1>2 DEF RotateLockRow, IInv, TypeOK
  <2>1. TypeOK'
    BY <2>0 DEF IInv, TypeOK, Tokens
  <2>2. Families' /\ OneLive' /\ ReplayedDead'
    BY <2>0 DEF IInv, SessionInv, Families, OneLive, ReplayedDead, Tokens
  <2>3. Presented' /\ FamilyLocks' /\ RowHeld'
    BY <2>0 DEF RotateLockRow, IInv, TypeOK, SessionInv, Presented, FamilyLocks, RowHeld, FamilyOf, Tokens
  <2> QED BY <2>0, <2>1, <2>2, <2>3, RegistrationsKept DEF SessionInv
<1> QED BY <1>1, <1>2

\* A replay ends the family; its lock keeps away the one rotation that could add to it.
LEMMA ReplayInv ==
  ASSUME ConstantsOK, IInv, NEW r \in Requests, RotateReplay(r)
  PROVE  IInv'
<1> DEFINE family == FamilyOf(r)
<1>0. token \in Seq(Row) /\ Len(token) \in Nat /\ \A t \in Tokens : token[t] \in Row
  BY LenProperties, ElementOfSeq DEF IInv, TypeOK, Tokens
<1>a. req[r].token \in Tokens /\ family \in 1 .. MaxTokens /\ family <= Len(token)
  <2>1. req[r].token \in Tokens
    BY DEF RotateReplay, IInv, SessionInv, Presented
  <2>2. family \in 1 .. MaxTokens /\ family <= req[r].token
    BY <1>0, <2>1 DEF IInv, SessionInv, Families, FamilyOf, Row
  <2>3. req[r].token \in Nat /\ req[r].token <= Len(token) /\ family \in Nat
    BY <1>0, <2>1, <2>2 DEF Tokens, ConstantsOK
  <2> HIDE DEF family
  <2> QED BY <1>0, <2>1, <2>2, <2>3
<1>1. /\ token' = [t \in Tokens |-> IF token[t].family = family
                                     THEN [token[t] EXCEPT !.revoked = TRUE] ELSE token[t]]
      /\ replayed' = replayed \cup {family} /\ req' = [req EXCEPT ![r] = Idle]
      /\ req[r].pc = "row" /\ UNCHANGED <<users, disabled, held, ended>>
  BY DEF RotateReplay
<1> HIDE DEF family
<1>2. token' \in Seq(Row) /\ Len(token') = Len(token)
  <2>1. token' \in [1 .. Len(token) -> Row]
    BY <1>0, <1>1 DEF Tokens, Row
  <2> QED BY <1>0, <2>1, InPlace
<1>3. Tokens' = Tokens
  BY <1>2 DEF Tokens
<1>4. \A t \in Tokens : /\ token'[t].family = token[t].family
                        /\ token[t].family = family => token'[t].revoked
                        /\ token[t].family # family => token'[t] = token[t]
  BY <1>0, <1>1 DEF Row
<1>5. TypeOK'
  <2>1. req' \in [Requests -> [pc : {"idle", "login", "family", "row", "commit"},
                               token : Tokens' \cup {NoToken}, user : Accounts \cup {NoToken}]]
    BY <1>1, <1>3 DEF Idle, IInv, TypeOK
  <2> QED BY <1>0, <1>1, <1>2, <1>a, <2>1, TableType DEF IInv, TypeOK
<1>6. Families' /\ OneLive' /\ ReplayedDead'
  BY <1>0, <1>1, <1>2, <1>3, <1>4, <1>a DEF IInv, SessionInv, Families, OneLive, ReplayedDead
<1>7. Presented' /\ FamilyLocks'
  BY <1>1, <1>3, <1>4 DEF Idle, IInv, TypeOK, SessionInv, Presented, FamilyLocks, FamilyOf
<1>8. RowHeld'
  <2> SUFFICES ASSUME NEW q \in Requests, req'[q].pc = "commit" PROVE ~token'[req'[q].token].revoked
    BY DEF RowHeld
  <2>1. q # r /\ req'[q] = req[q]
    BY <1>1 DEF Idle, IInv, TypeOK
  <2>2. FamilyOf(q) # family /\ req[q].token \in Tokens
    BY <1>1, <2>1 DEF IInv, SessionInv, FamilyLocks, Presented, family
  <2> QED BY <1>4, <2>1, <2>2 DEF IInv, SessionInv, RowHeld, FamilyOf
<1> QED BY <1>1, <1>5, <1>6, <1>7, <1>8, RegistrationsKept DEF SessionInv

\* The successor replaces the one live token of its family.
LEMMA CommitInv ==
  ASSUME ConstantsOK, IInv, NEW r \in Requests, RotateCommit(r)
  PROVE  IInv'
<1> DEFINE t == req[r].token
           user == token[t].user
           family == token[t].family
           rows == [token EXCEPT ![t].revoked = TRUE]
<1>0. token \in Seq(Row) /\ Len(token) \in Nat /\ \A u \in Tokens : token[u] \in Row
  BY LenProperties, ElementOfSeq DEF IInv, TypeOK, Tokens
<1>a. t \in Tokens /\ ~token[t].revoked /\ req[r].pc = "commit"
  BY DEF RotateCommit, IInv, SessionInv, Presented, RowHeld
<1>1. CASE user \in disabled /\ UNCHANGED token
  BY <1>1, RequestMoves DEF RotateCommit, Idle
<1>2. CASE MayIssue /\ token' = IssueSession(rows, user, family)
  <2>0. req' = [req EXCEPT ![r] = Idle] /\ UNCHANGED <<users, disabled, held, ended, replayed>>
    BY DEF RotateCommit
  <2>1. user \in Accounts /\ family \in 1 .. Len(token)
    BY <1>0, <1>a DEF Row, IInv, SessionInv, Families, Tokens
  <2>2. rows \in Seq(Row) /\ Len(rows) = Len(token)
    <3>1. rows \in [1 .. Len(token) -> Row]
      <4>1. token \in [1 .. Len(token) -> Row]
        BY <1>0, LenProperties
      <4>2. [token[t] EXCEPT !.revoked = TRUE] \in Row
        BY <1>0, <1>a DEF Row
      <4> QED BY <1>a, <4>1, <4>2 DEF Tokens
    <3> QED BY <1>0, <3>1, InPlace
  <2>3. /\ \A u \in Tokens : /\ rows[u].family = token[u].family
                             /\ u # t => rows[u] = token[u]
        /\ rows[t].revoked
    BY <1>0, <1>a DEF Tokens, Row
  <2> HIDE DEF rows
  <2>4. /\ token' \in Seq(Row) /\ Len(token') = Len(token) + 1
        /\ \A u \in Tokens : token'[u] = rows[u]
        /\ token'[Len(token) + 1] = [family |-> family, user |-> user, revoked |-> FALSE, expired |-> FALSE]
    <3>1. family \in 0 .. Len(rows) /\ family # 0 /\ Len(rows) < MaxTokens
      BY <1>0, <1>2, <2>1, <2>2 DEF MayIssue
    <3> HIDE DEF family, user
    <3> QED BY <1>2, <2>1, <2>2, <3>1, Issued DEF Tokens
  <2>5. /\ Len(token') <= MaxTokens
        /\ \A u \in Tokens : u \in Tokens'
        /\ \A u \in Tokens' : u \in Tokens \/ u = Len(token) + 1
        /\ Len(token) + 1 \notin Tokens
    BY <1>0, <1>2, <2>4 DEF MayIssue, Tokens, ConstantsOK
  <2>6. /\ \A u \in Tokens : token'[u].family = token[u].family /\ (u # t => token'[u] = token[u])
        /\ token'[t].revoked
    BY <1>a, <2>3, <2>4
  <2>7. TypeOK'
    <3>1. req' \in [Requests -> [pc : {"idle", "login", "family", "row", "commit"},
                                 token : Tokens' \cup {NoToken}, user : Accounts \cup {NoToken}]]
      BY <2>0, <2>5 DEF Idle, IInv, TypeOK
    <3> QED BY <1>0, <2>0, <2>4, <2>5, <3>1, TableType DEF IInv, TypeOK
  <2>8. Families'
    <3>1. \A f \in replayed : f \in Nat
      BY DEF IInv, TypeOK
    <3> QED BY <1>0, <2>0, <2>1, <2>4, <2>5, <2>6, <3>1 DEF IInv, SessionInv, Families, Tokens
  <2>9. \A u \in Tokens' : token'[u].family = family /\ ~token'[u].revoked => u = Len(token) + 1
    BY <1>a, <2>5, <2>6 DEF IInv, SessionInv, OneLive
  <2>10. OneLive'
    <3>1. token'[Len(token) + 1].family = family
      BY <2>4
    <3> HIDE DEF family
    <3> QED BY <1>a, <2>5, <2>6, <2>9, <3>1 DEF IInv, SessionInv, OneLive
  <2>11. ReplayedDead'
    <3>1. family \notin replayed
      BY <1>a DEF IInv, SessionInv, ReplayedDead
    <3>2. token'[Len(token) + 1].family = family
      BY <2>4
    <3> HIDE DEF family
    <3> QED BY <2>0, <2>5, <2>6, <3>1, <3>2 DEF IInv, SessionInv, ReplayedDead
  <2>12. Presented' /\ FamilyLocks'
    BY <2>0, <2>5, <2>6 DEF Idle, IInv, TypeOK, SessionInv, Presented, FamilyLocks, FamilyOf
  <2>13. RowHeld'
    <3> SUFFICES ASSUME NEW q \in Requests, req'[q].pc = "commit" PROVE ~token'[req'[q].token].revoked
      BY DEF RowHeld
    <3>1. q # r /\ req'[q] = req[q]
      BY <2>0 DEF Idle, IInv, TypeOK
    <3>2. FamilyOf(q) # FamilyOf(r) /\ req[q].token \in Tokens /\ ~token[req[q].token].revoked
      BY <1>a, <3>1 DEF IInv, SessionInv, FamilyLocks, Presented, RowHeld
    <3>3. req[q].token # t
      BY <3>2 DEF FamilyOf
    <3> QED BY <2>6, <3>1, <3>2, <3>3
  <2> QED BY <2>0, <2>7, <2>8, <2>10, <2>11, <2>12, <2>13, RegistrationsKept DEF SessionInv
<1> QED BY <1>1, <1>2 DEF RotateCommit

\* One row changes in place, and is not locked when it is revoked.
LEMMA RowUpdateInv ==
  ASSUME ConstantsOK, IInv, NEW t \in Tokens, Logout(t) \/ Expire(t)
  PROVE  IInv'
<1>0. token \in Seq(Row) /\ Len(token) \in Nat /\ \A u \in Tokens : token[u] \in Row
  BY LenProperties, ElementOfSeq DEF IInv, TypeOK, Tokens
<1>1. /\ token' \in [1 .. Len(token) -> Row]
      /\ \A u \in Tokens : /\ token'[u].family = token[u].family
                           /\ token[u].revoked => token'[u].revoked
                           /\ token'[u].revoked => token[u].revoked \/ ~RowLocked(u)
  <2>1. token \in [1 .. Len(token) -> Row] /\ t \in 1 .. Len(token)
    BY <1>0, LenProperties DEF Tokens
  <2>2. [token[t] EXCEPT !.revoked = TRUE] \in Row /\ [token[t] EXCEPT !.expired = TRUE] \in Row
    BY <1>0 DEF Row
  <2>3. CASE Logout(t)
    <3>1. token' = [token EXCEPT ![t] = [token[t] EXCEPT !.revoked = TRUE]] /\ ~RowLocked(t)
      BY <2>3 DEF Logout
    <3>2. token' \in [1 .. Len(token) -> Row]
      BY <2>1, <2>2, <3>1
    <3>3. \A u \in Tokens : token'[u] = IF u = t THEN [token[t] EXCEPT !.revoked = TRUE] ELSE token[u]
      BY <2>1, <3>1 DEF Tokens
    <3> QED BY <1>0, <3>1, <3>2, <3>3 DEF Row
  <2>4. CASE Expire(t)
    <3>1. token' = [token EXCEPT ![t] = [token[t] EXCEPT !.expired = TRUE]]
      BY <2>4 DEF Expire
    <3>2. token' \in [1 .. Len(token) -> Row]
      BY <2>1, <2>2, <3>1
    <3>3. \A u \in Tokens : token'[u] = IF u = t THEN [token[t] EXCEPT !.expired = TRUE] ELSE token[u]
      BY <2>1, <3>1 DEF Tokens
    <3> QED BY <1>0, <3>1, <3>2, <3>3 DEF Row
  <2> QED BY <2>3, <2>4
<1>2. token' \in Seq(Row) /\ Len(token') = Len(token)
  BY <1>0, <1>1, InPlace
<1>3. Tokens' = Tokens
  BY <1>2 DEF Tokens
<1>4. UNCHANGED <<users, disabled, held, ended, req, replayed>>
  BY DEF Logout, Expire
<1>5. TypeOK'
  <2>1. req' \in [Requests -> [pc : {"idle", "login", "family", "row", "commit"},
                               token : Tokens' \cup {NoToken}, user : Accounts \cup {NoToken}]]
    BY <1>3, <1>4 DEF IInv, TypeOK
  <2> QED BY <1>0, <1>2, <1>4, <2>1, TableType DEF IInv, TypeOK
<1>6. Families' /\ OneLive' /\ ReplayedDead'
  BY <1>1, <1>2, <1>3, <1>4 DEF IInv, SessionInv, Families, OneLive, ReplayedDead
<1>7. Presented' /\ FamilyLocks'
  BY <1>1, <1>3, <1>4 DEF IInv, SessionInv, Presented, FamilyLocks, FamilyOf
<1>8. RowHeld'
  BY <1>1, <1>3, <1>4 DEF IInv, SessionInv, Presented, RowHeld, RowLocked
<1> QED BY <1>4, <1>5, <1>6, <1>7, <1>8, RegistrationsKept DEF SessionInv

-----------------------------------------------------------------------------
(* Registration *)

\* The identifiers of an account are numbers, and there is a next one to lock.
LEMMA NextIsLeast ==
  ASSUME ConstantsOK, NEW a \in Accounts, LoginsOf(a) \ held[a] # {}
  PROVE  /\ NextIdentifier(a) \in LoginsOf(a) \ held[a]
         /\ \A j \in LoginsOf(a) \ held[a] : NextIdentifier(a) <= j
<1>1. Name[a] \in Nat /\ Email[a] \in Nat
  BY DEF ConstantsOK
<1>2. \E i \in LoginsOf(a) \ held[a] : \A j \in LoginsOf(a) \ held[a] : i <= j
  BY <1>1 DEF LoginsOf
<1> QED BY <1>2 DEF NextIdentifier

\* Sessions are as they were when table, requests and replays are.
LEMMA SessionsKept ==
  ASSUME SessionInv, UNCHANGED <<token, req, replayed>>
  PROVE  SessionInv'
BY DEF SessionInv, Families, OneLive, ReplayedDead, Presented, FamilyLocks, RowHeld, FamilyOf, Tokens

LEMMA RegisterLockInv ==
  ASSUME ConstantsOK, IInv, NEW a \in Accounts, RegisterLock(a)
  PROVE  IInv'
<1>0. held[a] \subseteq LoginsOf(a) /\ LoginsOf(a) \ held[a] # {} /\ LoginsOf(a) \subseteq Nat
  BY DEF RegisterLock, Registering, IInv, TypeOK, LoginsOf, ConstantsOK
<1>1. /\ NextIdentifier(a) \in LoginsOf(a) \ held[a]
      /\ \A j \in LoginsOf(a) \ held[a] : NextIdentifier(a) <= j
  BY <1>0, NextIsLeast
<1>2. held' = [held EXCEPT ![a] = @ \cup {NextIdentifier(a)}]
      /\ UNCHANGED <<users, disabled, ended, token, req, replayed>>
  BY DEF RegisterLock
<1>3. TypeOK'
  BY <1>0, <1>1, <1>2 DEF IInv, TypeOK, Tokens
<1>4. SortedLocks'
  BY <1>0, <1>1, <1>2 DEF IInv, TypeOK, SortedLocks
<1> QED BY <1>2, <1>3, <1>4, SessionsKept DEF IInv, UniqueLogins

LEMMA RegisterCommitInv ==
  ASSUME ConstantsOK, IInv, NEW a \in Accounts, RegisterCommit(a)
  PROVE  IInv'
<1>0. /\ ended' = ended \cup {a} /\ held' = [held EXCEPT ![a] = {}] /\ UNCHANGED <<disabled, req, replayed>>
  BY DEF RegisterCommit
<1>1. SortedLocks'
  BY <1>0 DEF IInv, TypeOK, SortedLocks
<1>2. CASE UNCHANGED <<users, token>>
  <2>1. TypeOK'
    BY <1>0, <1>2 DEF IInv, TypeOK, Tokens
  <2> QED BY <1>0, <1>1, <1>2, <2>1, SessionsKept DEF IInv, UniqueLogins
<1>3. CASE ~Taken(a) /\ MayIssue /\ users' = users \cup {a} /\ token' = IssueSession(token, a, 0)
  <2>1. /\ token' \in Seq(Row) /\ Len(token') = Len(token) + 1 /\ Len(token') <= MaxTokens
        /\ \A t \in Tokens : t \in Tokens' /\ token'[t] = token[t]
        /\ Families' /\ OneLive' /\ ReplayedDead'
    BY <1>0, <1>3, NewFamily
  <2>2. TypeOK'
    BY <1>0, <1>3, <2>1 DEF IInv, TypeOK
  <2>3. Presented' /\ FamilyLocks' /\ RowHeld'
    BY <1>0, <2>1 DEF IInv, SessionInv, Presented, FamilyLocks, RowHeld, FamilyOf
  <2>4. UniqueLogins'
    BY <1>3 DEF IInv, UniqueLogins, Taken
  <2> QED BY <1>1, <2>1, <2>2, <2>3, <2>4 DEF IInv, SessionInv
<1> QED BY <1>2, <1>3 DEF RegisterCommit

LEMMA DisableInv ==
  ASSUME IInv, NEW u \in Accounts, Disable(u)
  PROVE  IInv'
<1>1. TypeOK'
  BY DEF Disable, IInv, TypeOK, Tokens
<1> QED BY <1>1, SessionsKept DEF Disable, IInv, SortedLocks, UniqueLogins

-----------------------------------------------------------------------------

LEMMA NextInv == ConstantsOK /\ IInv /\ [Next]_vars => IInv'
<1> SUFFICES ASSUME ConstantsOK, IInv, [Next]_vars PROVE IInv'
  OBVIOUS
<1>1. CASE UNCHANGED vars
  <2>1. TypeOK'
    BY <1>1 DEF vars, IInv, TypeOK, Tokens
  <2> QED BY <1>1, <2>1, SessionsKept DEF vars, IInv, SortedLocks, UniqueLogins
<1>2. CASE Next
  BY <1>2, ReadInv, LoginIssueInv, LockFamilyInv, LockRowInv, ReplayInv, CommitInv, RowUpdateInv,
     RegisterLockInv, RegisterCommitInv, DisableInv DEF Next
<1> QED BY <1>1, <1>2

LEMMA Invariant == Spec => []IInv
<1>1. Init => IInv
  BY InitInv, SessionConstants
<1>2. IInv /\ [Next]_vars => IInv'
  BY NextInv, SessionConstants
<1> QED BY <1>1, <1>2, PTL DEF Spec

\* The accounts, the locks, the table of tokens and the requests keep their types.
THEOREM TypeCorrect == Spec => []TypeOK
<1>1. IInv => TypeOK
  BY DEF IInv
<1> QED BY <1>1, Invariant, PTL

\* A set whose elements are all the same has one at most.
LEMMA OneElement ==
  ASSUME NEW S, \A x, y \in S : x = y
  PROVE  Cardinality(S) <= 1
<1>1. CASE S = {}
  BY <1>1, FS_EmptySet
<1>2. CASE S # {}
  <2>1. PICK x \in S : TRUE
    BY <1>2
  <2>2. S = {x}
    BY <2>1
  <2> QED BY <2>2, FS_Singleton
<1> QED BY <1>1, <1>2

LEMMA FencedInv == IInv => FamilyFenced
<1> SUFFICES ASSUME IInv, NEW family \in 1 .. MaxTokens
             PROVE  /\ Cardinality(LiveOf(family)) <= 1
                    /\ family \in replayed => LiveOf(family) = {}
  BY DEF FamilyFenced
<1>1. \A x, y \in LiveOf(family) : x = y
  BY DEF IInv, SessionInv, OneLive, LiveOf
<1>2. family \in replayed => LiveOf(family) = {}
  BY DEF IInv, SessionInv, ReplayedDead, LiveOf
<1> QED BY <1>1, <1>2, OneElement

LEMMA UniqueInv == ConstantsOK /\ IInv => LoginsUnique
<1> SUFFICES ASSUME ConstantsOK, IInv PROVE LoginsUnique
  OBVIOUS
<1>1. ASSUME NEW a \in Accounts, NEW b \in Accounts, WaitsFor(a, b), WaitsFor(b, a)
      PROVE  FALSE
  <2>1. LoginsOf(a) \ held[a] # {} /\ LoginsOf(b) \ held[b] # {}
    BY <1>1 DEF WaitsFor, Registering, IInv, TypeOK
  <2>2. NextIdentifier(a) \in LoginsOf(a) \ held[a] /\ NextIdentifier(b) \in LoginsOf(b) \ held[b]
    BY <2>1, NextIsLeast
  <2>3. NextIdentifier(b) < NextIdentifier(a) /\ NextIdentifier(a) < NextIdentifier(b)
    BY <1>1, <2>2 DEF WaitsFor, IInv, SortedLocks
  <2>4. NextIdentifier(a) \in Nat /\ NextIdentifier(b) \in Nat
    BY <2>2 DEF LoginsOf, ConstantsOK
  <2> QED BY <2>3, <2>4
<1> QED BY <1>1 DEF LoginsUnique, IInv, UniqueLogins

\* However logins, rotations, replays, logouts and registrations interleave
\* (identity/service.go): one usable token per family, none after a replay, one
\* account per login, and no two registrations lock each other out.
THEOREM SessionsTheorem == Spec => []SessionsSound
<1>1. IInv => SessionsSound
  BY FencedInv, UniqueInv, SessionConstants DEF SessionsSound
<1> QED BY <1>1, Invariant, PTL

-----------------------------------------------------------------------------
(* Sharing.  The visitor's requests read the share and then the file; the   *)
(* file never comes back, so one that is still there was there before.      *)

ShareEvents == [type : {"created", "updated", "revoked", "imported"}, ver : Nat]
VisitRow == [pc : {"idle", "file", "granted"}, goal : Sh!Goals \cup {None}, ver : Nat,
             expires : Expiries \cup {0, Sh!Never}, entitled : BOOLEAN]

ShareTypeOK ==
  /\ share \in [ver : Nat, revoked : BOOLEAN, expires : Expiries \cup {Sh!Never}]
  /\ live \in BOOLEAN /\ acl \in Nat
  /\ IsFiniteSet(imports) /\ events \in Seq(ShareEvents)
  /\ visit \in [VisitorRequests -> VisitRow]

\* Who has read a valid share is entitled if the file is there now.
Entitled ==
  \A v \in VisitorRequests : /\ visit[v].pc = "file" /\ live => visit[v].entitled
                             /\ visit[v].pc = "granted" => visit[v].entitled

\* A revocation is the last event, and the row remembers it.
RevokedLast == \A i \in 1 .. Len(events) : events[i].type = "revoked" => i = Len(events) /\ share.revoked

\* The events count the changes and the imports.
ChangesIn(log, i) == {j \in 1 .. i : log[j].type # "imported"}
CountedIn(log, n) ==
  /\ \A i \in ChangesIn(log, Len(log)) : log[i].ver = Cardinality(ChangesIn(log, i))
  /\ Cardinality(ChangesIn(log, Len(log))) = n
Counted ==
  /\ CountedIn(events, share.ver) /\ acl = share.ver + 1
  /\ Len(events) = share.ver + Cardinality(imports)

\* A share that does not exist yet is not revoked.
Unrevoked == share.ver = 0 => ~share.revoked

ShareInv == ShareTypeOK /\ Entitled /\ RevokedLast /\ Unrevoked /\ Counted

LEMMA ShareInit ==
  ASSUME Sh!Init
  PROVE  ShareInv
<1>1. /\ share = [ver |-> 0, revoked |-> FALSE, expires |-> Sh!Never] /\ live = TRUE /\ acl = 1
      /\ imports = {} /\ events = <<>> /\ visit = [v \in VisitorRequests |-> Sh!IdleRequest]
  BY DEF Sh!Init
<1>2. ShareTypeOK
  <2>1. IsFiniteSet(imports) /\ events \in Seq(ShareEvents)
    BY <1>1, FS_EmptySet
  <2>2. Sh!IdleRequest \in VisitRow
    BY DEF Sh!IdleRequest, VisitRow
  <2> QED BY <1>1, <2>1, <2>2 DEF ShareTypeOK
<1>3. Entitled /\ RevokedLast /\ Unrevoked
  BY <1>1 DEF Entitled, RevokedLast, Unrevoked, Sh!IdleRequest
<1>4. Len(events) = 0 /\ ChangesIn(events, Len(events)) = {}
  BY <1>1 DEF ChangesIn
<1>5. Cardinality({}) = 0
  BY FS_EmptySet
<1>6. Counted
  <2>1. CountedIn(events, 0)
    BY <1>4, <1>5 DEF CountedIn
  <2> QED BY <1>1, <1>4, <1>5, <2>1 DEF Counted
<1> QED BY <1>2, <1>3, <1>6 DEF ShareInv

\* What an event adds to the changes.
LEMMA ChangesAppended ==
  ASSUME NEW log \in Seq(ShareEvents), NEW e \in ShareEvents, NEW n \in Nat, CountedIn(log, n),
         e.type # "imported" => e.ver = n + 1
  PROVE  /\ Append(log, e) \in Seq(ShareEvents) /\ Len(Append(log, e)) = Len(log) + 1 /\ Len(log) \in Nat
         /\ \A i \in 1 .. Len(log) : Append(log, e)[i] = log[i]
         /\ Append(log, e)[Len(log) + 1] = e
         /\ CountedIn(Append(log, e), IF e.type = "imported" THEN n ELSE n + 1)
<1> DEFINE new == Append(log, e)
<1> DEFINE k == Len(log)
<1> DEFINE C == ChangesIn(log, k)
<1>1. /\ k \in Nat /\ new \in Seq(ShareEvents) /\ Len(new) = k + 1
      /\ \A i \in 1 .. k : new[i] = log[i]
      /\ new[k + 1] = e
  BY AppendProperties, LenProperties
<1>2. Cardinality(C) = n /\ \A i \in C : log[i].ver = Cardinality(ChangesIn(log, i))
  BY DEF CountedIn
<1> HIDE DEF new, k
<1>3. ASSUME NEW i \in 1 .. k PROVE ChangesIn(new, i) = ChangesIn(log, i)
  BY <1>1 DEF ChangesIn
<1>4. C \subseteq 1 .. k /\ \A i \in C : i \in 1 .. k
  BY DEF ChangesIn
<1>5. IsFiniteSet(C) /\ k + 1 \notin C
  <2>1. IsFiniteSet(1 .. k)
    BY <1>1, FS_Interval
  <2>2. k + 1 \notin C
    BY <1>1, <1>4
  <2> QED BY <1>4, <2>1, <2>2, FS_Subset
<1>6. ChangesIn(new, k + 1) = IF e.type = "imported" THEN C ELSE C \cup {k + 1}
  BY <1>1 DEF ChangesIn
<1> HIDE DEF C
<1>7. Cardinality(C \cup {k + 1}) = n + 1
  BY <1>2, <1>5, FS_AddElement
<1>8. Cardinality(ChangesIn(new, k + 1)) = IF e.type = "imported" THEN n ELSE n + 1
  BY <1>2, <1>6, <1>7
<1>9. ASSUME NEW i \in ChangesIn(new, k + 1) PROVE new[i].ver = Cardinality(ChangesIn(new, i))
  <2>1. CASE i \in C
    BY <1>1, <1>2, <1>3, <1>4, <2>1
  <2>2. CASE i \notin C
    <3>1. i = k + 1 /\ e.type # "imported"
      BY <1>6, <1>9, <2>2
    <3> QED BY <1>1, <1>8, <3>1
  <2> QED BY <2>1, <2>2
<1>10. CountedIn(new, IF e.type = "imported" THEN n ELSE n + 1)
  BY <1>1, <1>8, <1>9 DEF CountedIn
<1> QED BY <1>1, <1>10 DEF new, k

\* The owner's changes of the share: the next version, with its event.
LEMMA ShareChanged ==
  ASSUME ShareInv, NEW e \in ShareEvents, events' = Append(events, e), e.type # "imported",
         ~share.revoked,
         share' \in [ver : Nat, revoked : BOOLEAN, expires : Expiries \cup {Sh!Never}],
         share'.ver = share.ver + 1, e.ver = share.ver + 1, e.type = "revoked" => share'.revoked,
         acl' = acl + 1, UNCHANGED <<live, imports, visit>>
  PROVE  ShareInv'
<1> USE DEF ShareInv
<1>0. share.ver \in Nat /\ events \in Seq(ShareEvents) /\ CountedIn(events, share.ver)
  BY DEF ShareTypeOK, Counted
<1>1. /\ events' \in Seq(ShareEvents) /\ Len(events') = Len(events) + 1 /\ Len(events) \in Nat
      /\ \A i \in 1 .. Len(events) : events'[i] = events[i]
      /\ events'[Len(events) + 1] = e
      /\ CountedIn(events', share.ver + 1)
  BY <1>0, ChangesAppended
<1>2. ShareTypeOK'
  BY <1>1 DEF ShareTypeOK
<1>3. Entitled'
  BY DEF Entitled
<1>4. RevokedLast' /\ Unrevoked'
  BY <1>0, <1>1 DEF RevokedLast, Unrevoked
<1>5. acl = share.ver + 1 /\ Len(events) = share.ver + Cardinality(imports) /\ Cardinality(imports) \in Nat
  BY FS_CardinalityType DEF Counted, ShareTypeOK
<1>6. Counted'
  BY <1>0, <1>1, <1>5 DEF Counted
<1> QED BY <1>2, <1>3, <1>4, <1>6

\* Steps that leave the share and its events alone.
LEMMA ShareKept ==
  ASSUME ShareInv, UNCHANGED <<share, acl, imports, events>>, live' \in BOOLEAN, live' => live,
         visit' \in [VisitorRequests -> VisitRow], Entitled'
  PROVE  ShareInv'
BY DEF ShareInv, ShareTypeOK, RevokedLast, Unrevoked, Counted

\* A visitor's request comes to its next place.
LEMMA VisitMoves ==
  ASSUME ShareInv, UNCHANGED <<share, live, acl, imports, events>>, NEW v \in VisitorRequests,
         NEW r \in VisitRow, visit' = [visit EXCEPT ![v] = r],
         r.pc = "file" /\ live => r.entitled, r.pc = "granted" => r.entitled
  PROVE  ShareInv'
<1>1. visit \in [VisitorRequests -> VisitRow] /\ live \in BOOLEAN
  BY DEF ShareInv, ShareTypeOK
<1>2. visit' \in [VisitorRequests -> VisitRow] /\ visit'[v] = r
      /\ \A u \in VisitorRequests : u # v => visit'[u] = visit[u]
  BY <1>1
<1>3. Entitled'
  BY <1>2 DEF ShareInv, Entitled
<1> QED BY <1>1, <1>2, <1>3, ShareKept

LEMMA OwnerStep ==
  ASSUME ShareInv, NEW e \in Expiries, Sh!Create(e) \/ Sh!UpdateExpiry(e)
  PROVE  ShareInv'
<1>0. /\ share \in [ver : Nat, revoked : BOOLEAN, expires : Expiries \cup {Sh!Never}]
      /\ share.ver \in Nat
  BY DEF ShareInv, ShareTypeOK
<1>1. CASE Sh!Create(e)
  <2> DEFINE r == [type |-> "created", ver |-> 1]
  <2>1. r \in ShareEvents /\ r.type = "created" /\ r.ver = 1
    BY DEF ShareEvents
  <2>2. /\ events' = Append(events, r) /\ share.ver = 0 /\ acl' = acl + 1 /\ UNCHANGED <<live, imports, visit>>
        /\ share' = [ver |-> 1, revoked |-> FALSE, expires |-> e]
    BY <1>1 DEF Sh!Create, Sh!AddTyped
  <2> HIDE DEF r
  <2>3. share' \in [ver : Nat, revoked : BOOLEAN, expires : Expiries \cup {Sh!Never}] /\ share'.ver = 1
    BY <2>2
  <2>4. ~share.revoked
    <3>1. ASSUME share.revoked PROVE FALSE
      BY <1>0, <2>2, <3>1 DEF ShareInv, Unrevoked
    <3> QED BY <3>1
  <2> QED BY <2>1, <2>2, <2>3, <2>4, ShareChanged
<1>2. CASE Sh!UpdateExpiry(e)
  <2> DEFINE r == [type |-> "updated", ver |-> share.ver + 1]
  <2> DEFINE q == [share EXCEPT !.ver = share.ver + 1, !.expires = e]
  <2>1. r \in ShareEvents /\ r.type = "updated" /\ r.ver = share.ver + 1
    BY <1>0 DEF ShareEvents
  <2>2. /\ events' = Append(events, r) /\ ~share.revoked /\ acl' = acl + 1 /\ UNCHANGED <<live, imports, visit>>
        /\ share' = q
    BY <1>0, <1>2 DEF Sh!UpdateExpiry, Sh!AddTyped
  <2>3. q \in [ver : Nat, revoked : BOOLEAN, expires : Expiries \cup {Sh!Never}] /\ q.ver = share.ver + 1
    <3>1. share.ver + 1 \in Nat /\ e \in Expiries \cup {Sh!Never}
      BY <1>0
    <3>2. q.ver = share.ver + 1
      BY <1>0
    <3> HIDE DEF Sh!Never
    <3> QED BY <1>0, <3>1, <3>2
  <2> HIDE DEF r, q
  <2> QED BY <2>1, <2>2, <2>3, ShareChanged
<1> QED BY <1>1, <1>2

LEMMA RevokeStep ==
  ASSUME ShareInv, Sh!Revoke
  PROVE  ShareInv'
<1>0. /\ share \in [ver : Nat, revoked : BOOLEAN, expires : Expiries \cup {Sh!Never}]
      /\ share.ver \in Nat
  BY DEF ShareInv, ShareTypeOK
<1> DEFINE r == [type |-> "revoked", ver |-> share.ver + 1]
<1> DEFINE q == [share EXCEPT !.ver = share.ver + 1, !.revoked = TRUE]
<1>1. r \in ShareEvents /\ r.type = "revoked" /\ r.ver = share.ver + 1
  BY <1>0 DEF ShareEvents
<1>2. /\ events' = Append(events, r) /\ ~share.revoked /\ acl' = acl + 1 /\ UNCHANGED <<live, imports, visit>>
      /\ share' = q
  BY <1>0 DEF Sh!Revoke, Sh!AddTyped
<1>3. q \in [ver : Nat, revoked : BOOLEAN, expires : Expiries \cup {Sh!Never}] /\ q.ver = share.ver + 1 /\ q.revoked
  <2>1. share.ver + 1 \in Nat /\ TRUE \in BOOLEAN
    BY <1>0
  <2>2. q.ver = share.ver + 1 /\ q.revoked = TRUE
    BY <1>0
  <2>3. q \in [ver : Nat, revoked : BOOLEAN, expires : Expiries \cup {Sh!Never}]
    BY <1>0, <2>1
  <2> QED BY <2>2, <2>3
<1> HIDE DEF r, q
<1> QED BY <1>1, <1>2, <1>3, ShareChanged

LEMMA VisitStep ==
  ASSUME ShareInv, NEW v \in VisitorRequests,
         \/ Sh!Resolve(v) \/ Sh!ReadFile(v) \/ Sh!Answered(v)
         \/ \E grant \in tokens, goal \in {"access", "import"} : Sh!Access(v, grant, goal)
         \/ \E k \in Keys : Sh!ImportReplay(v, k) \/ Sh!ImportRefused(v, k)
  PROVE  ShareInv'
<1>0. /\ visit \in [VisitorRequests -> VisitRow] /\ visit[v] \in VisitRow /\ live \in BOOLEAN
      /\ share.ver \in Nat /\ share.expires \in Expiries \cup {Sh!Never} /\ share.revoked \in BOOLEAN
  BY DEF ShareInv, ShareTypeOK
<1>1. Sh!IdleRequest \in VisitRow /\ Sh!IdleRequest.pc = "idle"
  BY DEF Sh!IdleRequest, VisitRow
<1>2. CASE UNCHANGED <<share, live, acl, imports, events>> /\ visit' = [visit EXCEPT ![v] = Sh!IdleRequest]
  BY <1>1, <1>2, VisitMoves
<1>3. ASSUME NEW goal \in Sh!Goals, Sh!Begin(v, goal), Sh!ValidateShare, UNCHANGED <<share, live, acl, imports, events>>
      PROVE  ShareInv'
  <2> DEFINE r == [pc |-> "file", goal |-> goal, ver |-> share.ver,
                   expires |-> IF goal = "resolve" THEN share.expires ELSE 0,
                   entitled |-> Sh!ValidateShare /\ live]
  <2>1. (Sh!ValidateShare /\ live) = live
    BY <1>0, <1>3
  <2>2. r \in VisitRow /\ r.pc = "file" /\ r.entitled = live
    BY <1>0, <2>1 DEF VisitRow
  <2>3. visit' = [visit EXCEPT ![v] = r]
    BY <1>3 DEF Sh!Begin
  <2> HIDE DEF r
  <2> QED BY <1>3, <2>2, <2>3, VisitMoves
<1>4. CASE Sh!Resolve(v)
  BY <1>3, <1>4 DEF Sh!Resolve, Sh!Goals
<1>5. CASE \E grant \in tokens, goal \in {"access", "import"} : Sh!Access(v, grant, goal)
  BY <1>3, <1>5 DEF Sh!Access, Sh!Goals
<1>6. CASE Sh!ReadFile(v)
  <2>1. UNCHANGED <<share, live, acl, imports, events>> /\ visit[v].pc = "file"
    BY <1>6 DEF Sh!ReadFile
  <2>2. CASE ~live
    BY <1>2, <1>6, <2>1, <2>2 DEF Sh!ReadFile, Sh!FileVisible
  <2>3. CASE live
    <3> DEFINE r == [visit[v] EXCEPT !.pc = "granted"]
    <3>1. r \in VisitRow /\ r.pc = "granted" /\ r.entitled = visit[v].entitled
      BY <1>0 DEF VisitRow
    <3>2. visit' = [visit EXCEPT ![v] = r]
      BY <1>0, <1>6, <2>3 DEF Sh!ReadFile, Sh!FileVisible
    <3>3. visit[v].entitled
      BY <2>1, <2>3 DEF ShareInv, Entitled
    <3> HIDE DEF r
    <3> QED BY <2>1, <3>1, <3>2, <3>3, VisitMoves
  <2> QED BY <2>2, <2>3
<1>7. CASE Sh!Answered(v) \/ \E k \in Keys : Sh!ImportReplay(v, k) \/ Sh!ImportRefused(v, k)
  BY <1>2, <1>7 DEF Sh!Answered, Sh!ImportReplay, Sh!ImportRefused
<1> QED BY <1>4, <1>5, <1>6, <1>7

\* An import is charged once: its key was not there, and its share not revoked.
LEMMA ImportStep ==
  ASSUME ShareInv, NEW v \in VisitorRequests, NEW k \in Keys, Sh!ImportCommit(v, k)
  PROVE  ShareInv'
<1>0. /\ visit \in [VisitorRequests -> VisitRow] /\ visit[v].ver \in Nat /\ events \in Seq(ShareEvents)
      /\ share.ver \in Nat /\ IsFiniteSet(imports)
  BY DEF ShareInv, ShareTypeOK, VisitRow
<1> DEFINE r == [type |-> "imported", ver |-> visit[v].ver]
<1>1. r \in ShareEvents /\ r.type = "imported"
  BY <1>0 DEF ShareEvents
<1>2. /\ events' = Append(events, r) /\ UNCHANGED <<share, live, acl>>
      /\ visit' = [visit EXCEPT ![v] = Sh!IdleRequest]
      /\ imports' = imports \cup {k} /\ k \notin imports /\ ~share.revoked
  BY DEF Sh!ImportCommit, Sh!AddTyped, Sh!ValidateShare
<1> HIDE DEF r
<1>3. /\ events' \in Seq(ShareEvents) /\ Len(events') = Len(events) + 1 /\ Len(events) \in Nat
      /\ \A i \in 1 .. Len(events) : events'[i] = events[i]
      /\ events'[Len(events) + 1] = r /\ CountedIn(events', share.ver)
  BY <1>0, <1>1, <1>2, ChangesAppended DEF ShareInv, Counted
<1>4. /\ IsFiniteSet(imports') /\ Cardinality(imports') = Cardinality(imports) + 1 /\ Cardinality(imports) \in Nat
  BY <1>0, <1>2, FS_AddElement, FS_CardinalityType
<1>5. Sh!IdleRequest \in VisitRow /\ Sh!IdleRequest.pc = "idle"
  BY DEF Sh!IdleRequest, VisitRow
<1>6. /\ visit' \in [VisitorRequests -> VisitRow] /\ visit'[v].pc = "idle"
      /\ \A u \in VisitorRequests : u # v => visit'[u] = visit[u]
  BY <1>0, <1>2, <1>5
<1>7. ShareTypeOK'
  BY <1>2, <1>3, <1>4, <1>6 DEF ShareInv, ShareTypeOK
<1>8. Entitled'
  BY <1>2, <1>6 DEF ShareInv, Entitled
<1>9. RevokedLast' /\ Unrevoked'
  BY <1>1, <1>2, <1>3 DEF ShareInv, RevokedLast, Unrevoked
<1>10. Counted'
  BY <1>0, <1>2, <1>3, <1>4 DEF ShareInv, Counted
<1> QED BY <1>7, <1>8, <1>9, <1>10 DEF ShareInv

LEMMA ShareNext ==
  ASSUME ShareInv, Sh!Next \/ UNCHANGED shareVars
  PROVE  ShareInv'
<1>0. visit \in [VisitorRequests -> VisitRow] /\ live \in BOOLEAN
  BY DEF ShareInv, ShareTypeOK
<1>1. CASE UNCHANGED shareVars \/ Sh!LoadView \/ Sh!DeleteCopy \/ Sh!Tick
  <2>1. UNCHANGED <<share, live, acl, imports, events, visit>>
    BY <1>1 DEF shareVars, Sh!LoadView, Sh!DeleteCopy, Sh!Tick
  <2> QED BY <1>0, <2>1, ShareKept DEF ShareInv, Entitled
<1>2. CASE Sh!DeleteSource
  <2>1. UNCHANGED <<share, acl, imports, events, visit>> /\ live' = FALSE
    BY <1>2 DEF Sh!DeleteSource
  <2> QED BY <1>0, <2>1, ShareKept DEF ShareInv, Entitled
<1>3. CASE Sh!Revoke
  BY <1>3, RevokeStep
<1>4. CASE \E e \in Expiries : Sh!Create(e) \/ Sh!UpdateExpiry(e)
  BY <1>4, OwnerStep
<1>5. ASSUME NEW v \in VisitorRequests,
             \/ Sh!Resolve(v) \/ Sh!ReadFile(v) \/ Sh!Answered(v)
             \/ \E grant \in tokens, goal \in {"access", "import"} : Sh!Access(v, grant, goal)
             \/ \E k \in Keys : Sh!ImportReplay(v, k) \/ Sh!ImportRefused(v, k) \/ Sh!ImportCommit(v, k)
      PROVE  ShareInv'
  BY <1>5, VisitStep, ImportStep
<1> QED BY <1>1, <1>2, <1>3, <1>4, <1>5 DEF Sh!Next

\* What a share grants ends with it (sharing/service.go): the file is handed out
\* only if share and file were valid at some moment of the request, nothing is
\* imported or changed after the revocation, every change has its own version
\* and a repeated import is charged once.
THEOREM SharesTheorem == SuiteSpec => []SharesHonoured
<1>1. SuiteInit => ShareInv
  BY ShareInit DEF SuiteInit
<1>2. ShareInv /\ [SuiteNext]_suiteVars => ShareInv'
  BY ShareNext DEF SuiteNext, suiteVars
<1>3. ShareInv => SharesHonoured
  <2> SUFFICES ASSUME ShareInv PROVE Sh!SharesHonoured
    BY DEF SharesHonoured
  <2>1. ASSUME NEW i PROVE Sh!Changes(i) = ChangesIn(events, i)
    BY DEF Sh!Changes, ChangesIn
  <2>2. CountedIn(events, share.ver) /\ acl = share.ver + 1
    BY DEF ShareInv, Counted
  <2>3. Len(events) - share.ver = Cardinality(imports)
    BY FS_CardinalityType DEF ShareInv, ShareTypeOK, Counted
  <2>4. /\ \A v \in VisitorRequests : visit[v].pc = "granted" => visit[v].entitled
        /\ \A i \in 1 .. Len(events) : events[i].type = "revoked" => i = Len(events)
    BY DEF ShareInv, Entitled, RevokedLast
  <2>5. /\ \A i \in Sh!Changes(Len(events)) : events[i].ver = Cardinality(Sh!Changes(i))
        /\ Cardinality(Sh!Changes(Len(events))) = share.ver /\ acl = share.ver + 1
    <3>1. Sh!Changes(Len(events)) = ChangesIn(events, Len(events))
      BY <2>1
    <3>2. Cardinality(Sh!Changes(Len(events))) = share.ver
      BY <2>2, <3>1 DEF CountedIn
    <3>3. ASSUME NEW i \in Sh!Changes(Len(events)) PROVE events[i].ver = Cardinality(Sh!Changes(i))
      <4>1. Sh!Changes(i) = ChangesIn(events, i) /\ i \in ChangesIn(events, Len(events))
        BY <2>1, <3>1
      <4> QED BY <2>2, <4>1 DEF CountedIn
    <3> QED BY <2>2, <3>2, <3>3
  <2>6. ASSUME NEW S PROVE Sh!Cardinality(S) = Cardinality(S)
    BY DEF Sh!Cardinality, Cardinality
  <2> QED BY <2>3, <2>4, <2>5, <2>6 DEF Sh!SharesHonoured
<1> QED BY <1>1, <1>2, <1>3, PTL DEF SuiteSpec

-----------------------------------------------------------------------------
(* The order of row locks. *)

Modes == {"key", "share", "write", "update"}
Tables == {"share", "entry", "session", "content", "operation", "epoch", "object", "folder", "user"}
Names == {t.user : t \in Transactions} \cup {t.file : t \in Transactions} \cup {t.object : t \in Transactions}
Locks == [mode : Modes, row : Tables \X Names]

\* A transaction holds the first locks of its plan and wants the others.
Split(t, k) ==
  /\ wanted[t] \in Seq(Locks) /\ Len(wanted[t]) = Len(Rl!Plan(t)) - k
  /\ \A i \in 1 .. Len(wanted[t]) : wanted[t][i] = Rl!Plan(t)[k + i]
  /\ taken[t] = {Rl!Plan(t)[i] : i \in 1 .. k}
Planned(t) == wanted[t] # <<>> => \E k \in 0 .. Len(Rl!Plan(t)) - 1 : Split(t, k)

LockInv == /\ DOMAIN wanted \subseteq Transactions /\ DOMAIN taken = DOMAIN wanted
           /\ wanted \in [DOMAIN wanted -> Seq(Locks)]
           /\ taken \in [DOMAIN wanted -> SUBSET Locks]
           /\ \A t \in DOMAIN wanted : Planned(t)

LEMMA LockFields ==
  ASSUME NEW m \in Modes, NEW table \in Tables, NEW x \in Names
  PROVE  /\ Rl!Lock(m, table, x) \in Locks
         /\ Rl!Lock(m, table, x).mode = m /\ Rl!Lock(m, table, x).row = <<table, x>>
         /\ Rl!Lock(m, table, x).row[1] = table
BY DEF Rl!Lock, Locks

LEMMA NamesOf ==
  ASSUME NEW t \in Transactions
  PROVE  t.user \in Names /\ t.file \in Names /\ t.object \in Names
BY DEF Names

\* The plans, lock by lock.
LEMMA DeletePlan ==
  ASSUME NEW t \in Transactions, t.kind = "delete"
  PROVE  /\ Rl!Plan(t) \in Seq(Locks) /\ Len(Rl!Plan(t)) = 4
         /\ Rl!Plan(t)[1] = Rl!Lock("update", "entry", t.file)
         /\ Rl!Plan(t)[2] = Rl!Lock("write", "epoch", t.user)
         /\ Rl!Plan(t)[3] = Rl!Lock("write", "object", t.object)
         /\ Rl!Plan(t)[4] = Rl!Lock("write", "user", t.user)
<1>1. /\ Rl!Lock("update", "entry", t.file) \in Locks /\ Rl!Lock("write", "epoch", t.user) \in Locks
      /\ Rl!Lock("write", "object", t.object) \in Locks /\ Rl!Lock("write", "user", t.user) \in Locks
  BY LockFields, NamesOf DEF Modes, Tables
<1>2. Rl!Plan(t) = <<Rl!Lock("update", "entry", t.file), Rl!Lock("write", "epoch", t.user),
                     Rl!Lock("write", "object", t.object), Rl!Lock("write", "user", t.user)>>
  BY DEF Rl!Plan, Rl!DeleteFile, Rl!BumpEpoch
<1> HIDE DEF Rl!Plan
<1> QED BY <1>1, <1>2

\* Concatenation, place by place.
LEMMA Joined ==
  ASSUME NEW a \in Seq(Locks), NEW b \in Seq(Locks), NEW m \in Nat, NEW n \in Nat, Len(a) = m, Len(b) = n
  PROVE  /\ a \o b \in Seq(Locks) /\ Len(a \o b) = m + n
         /\ \A j \in 1 .. m : (a \o b)[j] = a[j]
         /\ \A j \in 1 .. n : (a \o b)[m + j] = b[j]
<1>1. /\ a \o b \in Seq(Locks) /\ Len(a \o b) = Len(a) + Len(b)
      /\ \A j \in 1 .. Len(a) + Len(b) : (a \o b)[j] = IF j <= Len(a) THEN a[j] ELSE b[j - Len(a)]
  BY ConcatProperties
<1> DEFINE ab == a \o b
<1>2. /\ ab \in Seq(Locks) /\ Len(ab) = m + n
      /\ \A j \in 1 .. m + n : ab[j] = IF j <= m THEN a[j] ELSE b[j - m]
  BY <1>1
<1> HIDE DEF ab
<1>3. \A j \in 1 .. m : ab[j] = a[j]
  BY <1>2
<1>4. ASSUME NEW j \in 1 .. n PROVE ab[m + j] = b[j]
  <2>1. m + j \in 1 .. m + n /\ ~(m + j <= m) /\ (m + j) - m = j
    OBVIOUS
  <2> QED BY <2>1, <1>2
<1> QED BY <1>2, <1>3, <1>4 DEF ab

LEMMA VerifyPlan ==
  ASSUME NEW t \in Transactions, t.kind = "verify"
  PROVE  /\ Rl!Plan(t) \in Seq(Locks) /\ Len(Rl!Plan(t)) = 9
         /\ Rl!Plan(t)[1] = Rl!Lock("update", "session", t.file)
         /\ Rl!Plan(t)[2] = Rl!Lock("update", "content", t.object)
         /\ Rl!Plan(t)[3] = Rl!Lock("update", "object", t.object)
         /\ Rl!Plan(t)[4] = Rl!Lock("share", "folder", t.user)
         /\ Rl!Plan(t)[5] = Rl!Lock("key", "user", t.user)
         /\ Rl!Plan(t)[6] = Rl!Lock("key", "object", t.object)
         /\ Rl!Plan(t)[7] = Rl!Lock("write", "epoch", t.user)
         /\ Rl!Plan(t)[8] = Rl!Lock("write", "object", t.object)
         /\ Rl!Plan(t)[9] = Rl!Lock("write", "user", t.user)
<1> DEFINE a == <<Rl!Lock("update", "session", t.file), Rl!Lock("update", "content", t.object),
                  Rl!Lock("update", "object", t.object)>>
<1> DEFINE b == <<Rl!Lock("share", "folder", t.user), Rl!Lock("key", "user", t.user),
                  Rl!Lock("key", "object", t.object), Rl!Lock("write", "epoch", t.user)>>
<1> DEFINE c == <<Rl!Lock("write", "object", t.object), Rl!Lock("write", "user", t.user)>>
<1>1. /\ Rl!Lock("update", "session", t.file) \in Locks /\ Rl!Lock("update", "content", t.object) \in Locks
      /\ Rl!Lock("update", "object", t.object) \in Locks
  BY LockFields, NamesOf DEF Modes, Tables
<1>2. /\ Rl!Lock("share", "folder", t.user) \in Locks /\ Rl!Lock("key", "user", t.user) \in Locks
      /\ Rl!Lock("key", "object", t.object) \in Locks /\ Rl!Lock("write", "epoch", t.user) \in Locks
  BY LockFields, NamesOf DEF Modes, Tables
<1>3. Rl!Lock("write", "object", t.object) \in Locks /\ Rl!Lock("write", "user", t.user) \in Locks
  BY LockFields, NamesOf DEF Modes, Tables
<1>4. Rl!Plan(t) = a \o b \o c
  BY DEF Rl!Plan, Rl!UploadVerify, Rl!CreateFile, Rl!BumpEpoch
<1>5. a \in Seq(Locks) /\ Len(a) = 3 /\ a[1] = Rl!Lock("update", "session", t.file)
      /\ a[2] = Rl!Lock("update", "content", t.object) /\ a[3] = Rl!Lock("update", "object", t.object)
  BY <1>1
<1>6. b \in Seq(Locks) /\ Len(b) = 4 /\ b[1] = Rl!Lock("share", "folder", t.user)
      /\ b[2] = Rl!Lock("key", "user", t.user)
      /\ b[3] = Rl!Lock("key", "object", t.object) /\ b[4] = Rl!Lock("write", "epoch", t.user)
  BY <1>2
<1>7. c \in Seq(Locks) /\ Len(c) = 2 /\ c[1] = Rl!Lock("write", "object", t.object)
      /\ c[2] = Rl!Lock("write", "user", t.user)
  BY <1>3
<1> HIDE DEF a, b, c, Rl!Plan
<1> DEFINE d == a \o b
<1>8. /\ d \in Seq(Locks) /\ Len(d) = 7 /\ d[1] = a[1] /\ d[2] = a[2] /\ d[3] = a[3]
      /\ d[4] = b[1] /\ d[5] = b[2] /\ d[6] = b[3] /\ d[7] = b[4]
  <2>1. d \in Seq(Locks) /\ Len(d) = 3 + 4 /\ (\A j \in 1 .. 3 : d[j] = a[j]) /\ (\A j \in 1 .. 4 : d[3 + j] = b[j])
    <3>1. a \in Seq(Locks) /\ Len(a) = 3 /\ 3 \in Nat
      BY <1>5
    <3>2. b \in Seq(Locks) /\ Len(b) = 4 /\ 4 \in Nat
      BY <1>6
    <3> QED BY ONLY <3>1, <3>2, Joined, Zenon
  <2> HIDE DEF d
  <2>2. d[3 + 1] = b[1] /\ d[3 + 2] = b[2] /\ d[3 + 3] = b[3] /\ d[3 + 4] = b[4]
    BY <2>1
  <2> QED BY <2>1, <2>2
<1>9. Rl!Plan(t) = d \o c
  BY <1>4
<1> HIDE DEF d
<1>10. /\ d \o c \in Seq(Locks) /\ Len(d \o c) = 7 + 2
       /\ (\A j \in 1 .. 7 : (d \o c)[j] = d[j]) /\ (\A j \in 1 .. 2 : (d \o c)[7 + j] = c[j])
  <2>1. d \in Seq(Locks) /\ Len(d) = 7 /\ 7 \in Nat
    BY <1>8
  <2>2. c \in Seq(Locks) /\ Len(c) = 2 /\ 2 \in Nat
    BY <1>7
  <2> QED BY ONLY <2>1, <2>2, Joined, Zenon
<1> DEFINE p == d \o c
<1>11. /\ p[1] = d[1] /\ p[2] = d[2] /\ p[3] = d[3] /\ p[4] = d[4] /\ p[5] = d[5]
       /\ p[6] = d[6] /\ p[7] = d[7] /\ p[8] = c[1] /\ p[9] = c[2]
       /\ p \in Seq(Locks) /\ Len(p) = 9
  <2>1. /\ \A j \in 1 .. 7 : p[j] = d[j]
        /\ \A j \in 1 .. 2 : p[7 + j] = c[j]
        /\ p \in Seq(Locks) /\ Len(p) = 7 + 2
    BY <1>10
  <2> HIDE DEF p
  <2>2. p[7 + 1] = c[1] /\ p[7 + 2] = c[2]
    BY <2>1
  <2> QED BY <2>1, <2>2
<1>12. Rl!Plan(t) = p
  BY <1>9
<1> HIDE DEF p
<1>13. /\ p[1] = a[1] /\ p[2] = a[2] /\ p[3] = a[3] /\ p[4] = b[1] /\ p[5] = b[2]
       /\ p[6] = b[3] /\ p[7] = b[4] /\ p[8] = c[1] /\ p[9] = c[2]
  BY <1>8, <1>11
<1> QED BY <1>5, <1>6, <1>7, <1>11, <1>12, <1>13

LEMMA SharePlan ==
  ASSUME NEW t \in Transactions, t.kind = "share"
  PROVE  /\ Rl!Plan(t) \in Seq(Locks) /\ Len(Rl!Plan(t)) = 3
         /\ Rl!Plan(t)[1] = Rl!Lock("share", "entry", t.file)
         /\ Rl!Plan(t)[2] = Rl!Lock("key", "user", t.user)
         /\ Rl!Plan(t)[3] = Rl!Lock("write", "epoch", t.user)
<1>1. /\ Rl!Lock("share", "entry", t.file) \in Locks
      /\ Rl!Lock("key", "user", t.user) \in Locks
      /\ Rl!Lock("write", "epoch", t.user) \in Locks
  BY LockFields, NamesOf DEF Modes, Tables
<1>2. Rl!Plan(t) = <<Rl!Lock("share", "entry", t.file),
                     Rl!Lock("key", "user", t.user),
                     Rl!Lock("write", "epoch", t.user)>>
  BY DEF Rl!Plan, Rl!ShareCreate, Rl!BumpEpoch
<1> HIDE DEF Rl!Plan
<1> QED BY <1>1, <1>2

LEMMA ExpiryPlan ==
  ASSUME NEW t \in Transactions, t.kind = "expiry"
  PROVE  /\ Rl!Plan(t) \in Seq(Locks) /\ Len(Rl!Plan(t)) = 3
         /\ Rl!Plan(t)[1] = Rl!Lock("update", "share", t.file)
         /\ Rl!Plan(t)[2] = Rl!Lock("share", "entry", t.file)
         /\ Rl!Plan(t)[3] = Rl!Lock("write", "epoch", t.user)
<1>1. /\ Rl!Lock("update", "share", t.file) \in Locks
      /\ Rl!Lock("share", "entry", t.file) \in Locks
      /\ Rl!Lock("write", "epoch", t.user) \in Locks
  BY LockFields, NamesOf DEF Modes, Tables
<1>2. Rl!Plan(t) = <<Rl!Lock("update", "share", t.file),
                     Rl!Lock("share", "entry", t.file),
                     Rl!Lock("write", "epoch", t.user)>>
  BY DEF Rl!Plan, Rl!ShareUpdateExpiry, Rl!BumpEpoch
<1> HIDE DEF Rl!Plan
<1> QED BY <1>1, <1>2

LEMMA RevokePlan ==
  ASSUME NEW t \in Transactions, t.kind = "revoke"
  PROVE  /\ Rl!Plan(t) \in Seq(Locks) /\ Len(Rl!Plan(t)) = 2
         /\ Rl!Plan(t)[1] = Rl!Lock("update", "share", t.file)
         /\ Rl!Plan(t)[2] = Rl!Lock("write", "epoch", t.user)
<1>1. /\ Rl!Lock("update", "share", t.file) \in Locks
      /\ Rl!Lock("write", "epoch", t.user) \in Locks
  BY LockFields, NamesOf DEF Modes, Tables
<1>2. Rl!Plan(t) = <<Rl!Lock("update", "share", t.file),
                     Rl!Lock("write", "epoch", t.user)>>
  BY DEF Rl!Plan, Rl!ShareRevoke, Rl!BumpEpoch
<1> HIDE DEF Rl!Plan
<1> QED BY <1>1, <1>2

LEMMA FailPlan ==
  ASSUME NEW t \in Transactions, t.kind = "fail"
  PROVE  /\ Rl!Plan(t) \in Seq(Locks) /\ Len(Rl!Plan(t)) = 4
         /\ Rl!Plan(t)[1] = Rl!Lock("update", "session", t.file)
         /\ Rl!Plan(t)[2] = Rl!Lock("update", "content", t.object)
         /\ Rl!Plan(t)[3] = Rl!Lock("update", "object", t.object)
         /\ Rl!Plan(t)[4] = Rl!Lock("write", "user", t.user)
<1>1. /\ Rl!Lock("update", "session", t.file) \in Locks
      /\ Rl!Lock("update", "content", t.object) \in Locks
      /\ Rl!Lock("update", "object", t.object) \in Locks
      /\ Rl!Lock("write", "user", t.user) \in Locks
  BY LockFields, NamesOf DEF Modes, Tables
<1>2. Rl!Plan(t) = <<Rl!Lock("update", "session", t.file),
                     Rl!Lock("update", "content", t.object),
                     Rl!Lock("update", "object", t.object),
                     Rl!Lock("write", "user", t.user)>>
  BY DEF Rl!Plan, Rl!UploadFail
<1> HIDE DEF Rl!Plan
<1> QED BY <1>1, <1>2

LEMMA EndPlan ==
  ASSUME NEW t \in Transactions, t.kind = "end"
  PROVE  /\ Rl!Plan(t) \in Seq(Locks) /\ Len(Rl!Plan(t)) = 3
         /\ Rl!Plan(t)[1] = Rl!Lock("update", "session", t.file)
         /\ Rl!Plan(t)[2] = Rl!Lock("update", "operation", t.file)
         /\ Rl!Plan(t)[3] = Rl!Lock("write", "user", t.user)
<1>1. /\ Rl!Lock("update", "session", t.file) \in Locks
      /\ Rl!Lock("update", "operation", t.file) \in Locks
      /\ Rl!Lock("write", "user", t.user) \in Locks
  BY LockFields, NamesOf DEF Modes, Tables
<1>2. Rl!Plan(t) = <<Rl!Lock("update", "session", t.file),
                     Rl!Lock("update", "operation", t.file),
                     Rl!Lock("write", "user", t.user)>>
  BY DEF Rl!Plan, Rl!UploadEnd
<1> HIDE DEF Rl!Plan
<1> QED BY <1>1, <1>2

LEMMA DeletedPlan ==
  ASSUME NEW t \in Transactions, t.kind = "deleted"
  PROVE  /\ Rl!Plan(t) \in Seq(Locks) /\ Len(Rl!Plan(t)) = 2
         /\ Rl!Plan(t)[1] = Rl!Lock("update", "operation", t.object)
         /\ Rl!Plan(t)[2] = Rl!Lock("update", "object", t.object)
<1>1. /\ Rl!Lock("update", "operation", t.object) \in Locks
      /\ Rl!Lock("update", "object", t.object) \in Locks
  BY LockFields, NamesOf DEF Modes, Tables
<1>2. Rl!Plan(t) = <<Rl!Lock("update", "operation", t.object),
                     Rl!Lock("update", "object", t.object)>>
  BY DEF Rl!Plan, Rl!DeleteCommit
<1> HIDE DEF Rl!Plan
<1> QED BY <1>1, <1>2

LEMMA ImportPlan ==
  ASSUME NEW t \in Transactions, t.kind = "import"
  PROVE  Rl!Plan(t) \in Seq(Locks)
<1> DEFINE a == <<Rl!Lock("share", "share", t.file), Rl!Lock("share", "entry", t.file),
                  Rl!Lock("write", "user", t.user)>>
<1> DEFINE b == <<Rl!Lock("share", "folder", t.user), Rl!Lock("key", "user", t.user),
                  Rl!Lock("key", "object", t.object), Rl!Lock("write", "epoch", t.user)>>
<1> DEFINE c == <<Rl!Lock("write", "object", t.object)>>
<1>1. /\ Rl!Lock("share", "share", t.file) \in Locks /\ Rl!Lock("share", "entry", t.file) \in Locks
      /\ Rl!Lock("write", "user", t.user) \in Locks
  BY LockFields, NamesOf DEF Modes, Tables
<1>2. /\ Rl!Lock("share", "folder", t.user) \in Locks /\ Rl!Lock("key", "user", t.user) \in Locks
      /\ Rl!Lock("key", "object", t.object) \in Locks /\ Rl!Lock("write", "epoch", t.user) \in Locks
  BY LockFields, NamesOf DEF Modes, Tables
<1>3. Rl!Lock("write", "object", t.object) \in Locks
  BY LockFields, NamesOf DEF Modes, Tables
<1>4. Rl!Plan(t) = a \o b \o c
  BY DEF Rl!Plan, Rl!ShareImport, Rl!CreateFile, Rl!BumpEpoch
<1>5. a \in Seq(Locks) /\ b \in Seq(Locks) /\ c \in Seq(Locks)
  BY <1>1, <1>2, <1>3
<1> HIDE DEF a, b, c, Rl!Plan
<1> QED BY <1>4, <1>5, ConcatProperties

LEMMA PlanType ==
  ASSUME NEW t \in Transactions
  PROVE  Rl!Plan(t) \in Seq(Locks)
BY TransactionsAssumption, DeletePlan, VerifyPlan, SharePlan, ExpiryPlan, RevokePlan, FailPlan, EndPlan,
   DeletedPlan, ImportPlan

-----------------------------------------------------------------------------
\* Every transaction stays within its plan.
LEMMA LockInit ==
  ASSUME Rl!Init
  PROVE  LockInv
<1>1. PICK S \in Rl!kSubset(MaxConcurrent, Transactions) :
        wanted = [t \in S |-> Rl!Plan(t)] /\ taken = [t \in S |-> {}]
  BY DEF Rl!Init
<1>2. S \subseteq Transactions
  BY DEF Rl!kSubset
<1>3. DOMAIN wanted = S /\ DOMAIN taken = S
  BY <1>1
<1>4. \A t \in S : wanted[t] = Rl!Plan(t) /\ wanted[t] \in Seq(Locks) /\ taken[t] = {}
  BY <1>1, <1>2, PlanType
<1>5. ASSUME NEW t \in S, wanted[t] # <<>> PROVE 0 \in 0 .. Len(Rl!Plan(t)) - 1 /\ Split(t, 0)
  <2>1. wanted[t] = Rl!Plan(t) /\ wanted[t] \in Seq(Locks) /\ taken[t] = {}
    BY <1>4
  <2> HIDE DEF Rl!Plan
  <2>2. Len(Rl!Plan(t)) \in Nat /\ Len(Rl!Plan(t)) # 0
    BY <2>1, <1>5
  <2>3. {Rl!Plan(t)[i] : i \in 1 .. 0} = {}
    OBVIOUS
  <2> QED BY <2>1, <2>2, <2>3 DEF Split
<1>6. \A t \in S : Planned(t)
  BY <1>5 DEF Planned
<1> QED BY <1>1, <1>2, <1>3, <1>4, <1>6 DEF LockInv

LEMMA PlannedKept ==
  ASSUME NEW t, Planned(t), wanted'[t] = wanted[t], wanted[t] # <<>> => taken'[t] = taken[t]
  PROVE  Planned(t)'
BY DEF Planned, Split

LEMMA AcquireStep ==
  ASSUME LockInv, NEW t \in DOMAIN wanted, Rl!Acquire(t)
  PROVE  LockInv'
<1> HIDE DEF Rl!Plan
<1> DEFINE h == Head(wanted[t])
<1>1. /\ wanted[t] # <<>> /\ wanted[t] \in Seq(Locks)
      /\ taken' = [taken EXCEPT ![t] = @ \cup {h}] /\ wanted' = [wanted EXCEPT ![t] = Tail(@)]
  BY DEF LockInv, Rl!Acquire
<1>2. /\ h \in Locks /\ Tail(wanted[t]) \in Seq(Locks) /\ Len(Tail(wanted[t])) = Len(wanted[t]) - 1
      /\ h = wanted[t][1] /\ \A i \in 1 .. Len(Tail(wanted[t])) : Tail(wanted[t])[i] = wanted[t][i + 1]
      /\ Len(wanted[t]) \in Nat \ {0}
  BY <1>1, HeadTailProperties
<1> HIDE DEF h
<1>3. /\ DOMAIN wanted' = DOMAIN wanted /\ DOMAIN taken' = DOMAIN wanted
      /\ wanted'[t] = Tail(wanted[t]) /\ taken'[t] = taken[t] \cup {h}
      /\ \A u \in DOMAIN wanted : u # t => wanted'[u] = wanted[u] /\ taken'[u] = taken[u]
  BY <1>1 DEF LockInv
<1>4. /\ wanted' \in [DOMAIN wanted -> Seq(Locks)]
      /\ taken' \in [DOMAIN wanted -> SUBSET Locks]
  BY <1>1, <1>2 DEF LockInv
<1>5. PICK k \in 0 .. Len(Rl!Plan(t)) - 1 : Split(t, k)
  BY <1>1 DEF LockInv, Planned
<1>6. Len(Rl!Plan(t)) \in Nat
  BY PlanType DEF LockInv
<1>7. Planned(t)'
  <2> SUFFICES ASSUME wanted'[t] # <<>> PROVE \E j \in 0 .. Len(Rl!Plan(t)) - 1 : Split(t, j)'
    BY DEF Planned
  <2>1. Len(wanted'[t]) \in Nat \ {0} /\ Len(wanted'[t]) = Len(wanted[t]) - 1
    BY <1>2, <1>3
  <2>2. Len(wanted[t]) = Len(Rl!Plan(t)) - k
    BY <1>5 DEF Split
  <2>3. k + 1 \in 0 .. Len(Rl!Plan(t)) - 1 /\ Len(wanted'[t]) = Len(Rl!Plan(t)) - (k + 1)
    BY <2>1, <2>2, <1>6
  <2>4. ASSUME NEW i \in 1 .. Len(wanted'[t]) PROVE wanted'[t][i] = Rl!Plan(t)[(k + 1) + i]
    <3>1. i + 1 \in 1 .. Len(wanted[t]) /\ k + (i + 1) = (k + 1) + i
      BY <2>1
    <3>2. wanted'[t][i] = wanted[t][i + 1]
      BY <1>2, <1>3, <2>4
    <3>3. wanted[t][i + 1] = Rl!Plan(t)[k + (i + 1)]
      BY <1>5, <3>1 DEF Split
    <3> QED BY <3>1, <3>2, <3>3
  <2>5. h = Rl!Plan(t)[k + 1]
    BY <1>2, <1>5 DEF Split
  <2>6. taken'[t] = {Rl!Plan(t)[i] : i \in 1 .. k + 1}
    <3>1. taken[t] = {Rl!Plan(t)[i] : i \in 1 .. k}
      BY <1>5 DEF Split
    <3>2. 1 .. k + 1 = (1 .. k) \cup {k + 1}
      OBVIOUS
    <3> QED BY <3>1, <3>2, <2>5, <1>3
  <2>7. wanted'[t] \in Seq(Locks)
    BY <1>2, <1>3
  <2> QED BY <2>3, <2>4, <2>6, <2>7 DEF Split
<1>8. ASSUME NEW u \in DOMAIN wanted, u # t PROVE Planned(u)'
  BY <1>3, <1>8, PlannedKept DEF LockInv
<1>9. \A u \in DOMAIN wanted : Planned(u)'
  BY <1>7, <1>8
<1> QED BY <1>3, <1>4, <1>9 DEF LockInv

LEMMA ReleaseStep ==
  ASSUME LockInv, NEW t \in DOMAIN wanted, Rl!Commit(t) \/ Rl!CancelVictim(t)
  PROVE  LockInv'
<1>1. /\ taken' = [taken EXCEPT ![t] = {}]
      /\ (wanted' = wanted /\ wanted[t] = <<>>) \/ wanted' = [wanted EXCEPT ![t] = <<>>]
  BY DEF Rl!Commit, Rl!CancelVictim
<1>2. /\ DOMAIN wanted' = DOMAIN wanted /\ DOMAIN taken' = DOMAIN wanted
      /\ wanted'[t] = <<>>
      /\ \A u \in DOMAIN wanted : u # t => wanted'[u] = wanted[u] /\ taken'[u] = taken[u]
  BY <1>1 DEF LockInv
<1>3. <<>> \in Seq(Locks)
  OBVIOUS
<1>4. /\ wanted' \in [DOMAIN wanted -> Seq(Locks)]
      /\ taken' \in [DOMAIN wanted -> SUBSET Locks]
  BY <1>1, <1>3 DEF LockInv
<1>5. ASSUME NEW u \in DOMAIN wanted PROVE Planned(u)'
  <2>1. CASE u = t
    BY <2>1, <1>2 DEF Planned
  <2>2. CASE u # t
    BY <2>2, <1>2, PlannedKept DEF LockInv
  <2> QED BY <2>1, <2>2
<1> QED BY <1>2, <1>4, <1>5 DEF LockInv

-----------------------------------------------------------------------------
\* What a lock is, and what can be said of a lock l that precedes a lock h, and of
\* h itself, in the plan of a transaction other than an import.
Is(l, m, table, x) == l.mode = m /\ l.row = <<table, x>> /\ l.row[1] = table

Before(t, l, h) ==
  /\ l.row[1] \in Tables
  /\ l.row[1] = "user" => l.mode = "key"
  /\ l.row[1] = "object" => h.row[1] = "user" \/ t.kind = "verify"
  /\ l.row[1] = "object" /\ t.kind = "verify" =>
       l.row = <<"object", t.object>> /\ h.row[1] \in {"folder", "user", "object", "epoch"}
  /\ l.row[1] = "epoch" =>
       l.row = <<"epoch", t.user>> /\ t.kind \in {"delete", "verify"} /\ h.row[1] \in {"object", "user"}
  /\ l.row[1] = "folder" => l.mode = "share"
  /\ l.row[1] \in {"content", "operation"} => h.row[1] \in {"object", "user", "folder", "epoch"}
  /\ l.row[1] = "session" => h.row[1] \in {"content", "operation", "object", "user", "folder", "epoch"}
  /\ l.row[1] = "entry" => h.row[1] \in {"epoch", "object", "user"}
  /\ l.row[1] = "share" => h.row[1] \in {"entry", "epoch"}

Wanted(t, h) ==
  /\ h.row[1] \in Tables
  /\ h.row[1] = "user" => h.mode \in {"key", "write"}
  /\ h.row[1] = "folder" => h.mode = "share"
  /\ h.row[1] = "epoch" => h.row = <<"epoch", t.user>>
  /\ h.row[1] = "object" => h.row = <<"object", t.object>>

InOrder(t) ==
  /\ \A j \in 1 .. Len(Rl!Plan(t)) : Wanted(t, Rl!Plan(t)[j])
  /\ \A i, j \in 1 .. Len(Rl!Plan(t)) : i < j => Before(t, Rl!Plan(t)[i], Rl!Plan(t)[j])

LEMMA LockIs ==
  ASSUME NEW m \in Modes, NEW table \in Tables, NEW x \in Names
  PROVE  Is(Rl!Lock(m, table, x), m, table, x)
BY LockFields DEF Is

LEMMA DeleteInOrder ==
  ASSUME NEW t \in Transactions, t.kind = "delete"
  PROVE  InOrder(t)
<1> DEFINE P == Rl!Plan(t)
<1>1. Len(P) = 4
  BY DeletePlan
<1>2. Is(P[1], "update", "entry", t.file)
  BY DeletePlan, LockIs, NamesOf DEF Modes, Tables
<1>3. Is(P[2], "write", "epoch", t.user)
  BY DeletePlan, LockIs, NamesOf DEF Modes, Tables
<1>4. Is(P[3], "write", "object", t.object)
  BY DeletePlan, LockIs, NamesOf DEF Modes, Tables
<1>5. Is(P[4], "write", "user", t.user)
  BY DeletePlan, LockIs, NamesOf DEF Modes, Tables
<1> HIDE DEF P
<1>6. ASSUME NEW j \in 1 .. 4 PROVE Wanted(t, P[j])
  <2>1. j = 1 \/ j = 2 \/ j = 3 \/ j = 4
    OBVIOUS
  <2> QED BY <2>1, <1>1, <1>2, <1>3, <1>4, <1>5 DEF Is, Wanted, Tables
<1>7. ASSUME NEW i \in 1 .. 4, NEW j \in 1 .. 4, i < j PROVE Before(t, P[i], P[j])
  <2>1. (i = 1 /\ j = 2) \/ (i = 1 /\ j = 3) \/ (i = 1 /\ j = 4) \/ (i = 2 /\ j = 3) \/ (i = 2 /\ j = 4) \/ (i = 3 /\ j = 4)
    BY <1>7
  <2> QED BY <2>1, <1>1, <1>2, <1>3, <1>4, <1>5 DEF Is, Before, Tables
<1> QED BY <1>1, <1>6, <1>7 DEF InOrder, P

LEMMA VerifyInOrder ==
  ASSUME NEW t \in Transactions, t.kind = "verify"
  PROVE  InOrder(t)
<1> DEFINE P == Rl!Plan(t)
<1>1. Len(P) = 9
  BY VerifyPlan
<1>2. Is(P[1], "update", "session", t.file)
  BY VerifyPlan, LockIs, NamesOf DEF Modes, Tables
<1>3. Is(P[2], "update", "content", t.object)
  BY VerifyPlan, LockIs, NamesOf DEF Modes, Tables
<1>4. Is(P[3], "update", "object", t.object)
  BY VerifyPlan, LockIs, NamesOf DEF Modes, Tables
<1>5. Is(P[4], "share", "folder", t.user)
  BY VerifyPlan, LockIs, NamesOf DEF Modes, Tables
<1>6. Is(P[5], "key", "user", t.user)
  BY VerifyPlan, LockIs, NamesOf DEF Modes, Tables
<1>7. Is(P[6], "key", "object", t.object)
  BY VerifyPlan, LockIs, NamesOf DEF Modes, Tables
<1>8. Is(P[7], "write", "epoch", t.user)
  BY VerifyPlan, LockIs, NamesOf DEF Modes, Tables
<1>9. Is(P[8], "write", "object", t.object)
  BY VerifyPlan, LockIs, NamesOf DEF Modes, Tables
<1>10. Is(P[9], "write", "user", t.user)
  BY VerifyPlan, LockIs, NamesOf DEF Modes, Tables
<1> HIDE DEF P
<1>11. ASSUME NEW j \in 1 .. 9 PROVE Wanted(t, P[j])
  <2>1. j = 1 \/ j = 2 \/ j = 3 \/ j = 4 \/ j = 5 \/ j = 6 \/ j = 7 \/ j = 8 \/ j = 9
    OBVIOUS
  <2> QED BY <2>1, <1>1, <1>2, <1>3, <1>4, <1>5, <1>6, <1>7, <1>8, <1>9, <1>10 DEF Is, Wanted, Tables
<1>12. ASSUME NEW i \in 1 .. 9, NEW j \in 1 .. 9, i < j PROVE Before(t, P[i], P[j])
  <2>1. CASE i = 1
    <3>1. j = 2 \/ j = 3 \/ j = 4 \/ j = 5 \/ j = 6 \/ j = 7 \/ j = 8 \/ j = 9
      BY <2>1, <1>12
    <3> QED BY <3>1, <2>1, <1>1, <1>2, <1>3, <1>4, <1>5, <1>6, <1>7, <1>8, <1>9, <1>10 DEF Is, Before, Tables
  <2>2. CASE i = 2
    <3>1. j = 3 \/ j = 4 \/ j = 5 \/ j = 6 \/ j = 7 \/ j = 8 \/ j = 9
      BY <2>2, <1>12
    <3> QED BY <3>1, <2>2, <1>1, <1>2, <1>3, <1>4, <1>5, <1>6, <1>7, <1>8, <1>9, <1>10 DEF Is, Before, Tables
  <2>3. CASE i = 3
    <3>1. j = 4 \/ j = 5 \/ j = 6 \/ j = 7 \/ j = 8 \/ j = 9
      BY <2>3, <1>12
    <3> QED BY <3>1, <2>3, <1>1, <1>2, <1>3, <1>4, <1>5, <1>6, <1>7, <1>8, <1>9, <1>10 DEF Is, Before, Tables
  <2>4. CASE i = 4
    <3>1. j = 5 \/ j = 6 \/ j = 7 \/ j = 8 \/ j = 9
      BY <2>4, <1>12
    <3> QED BY <3>1, <2>4, <1>1, <1>2, <1>3, <1>4, <1>5, <1>6, <1>7, <1>8, <1>9, <1>10 DEF Is, Before, Tables
  <2>5. CASE i = 5
    <3>1. j = 6 \/ j = 7 \/ j = 8 \/ j = 9
      BY <2>5, <1>12
    <3> QED BY <3>1, <2>5, <1>1, <1>2, <1>3, <1>4, <1>5, <1>6, <1>7, <1>8, <1>9, <1>10 DEF Is, Before, Tables
  <2>6. CASE i = 6
    <3>1. j = 7 \/ j = 8 \/ j = 9
      BY <2>6, <1>12
    <3> QED BY <3>1, <2>6, <1>1, <1>2, <1>3, <1>4, <1>5, <1>6, <1>7, <1>8, <1>9, <1>10 DEF Is, Before, Tables
  <2>7. CASE i = 7
    <3>1. j = 8 \/ j = 9
      BY <2>7, <1>12
    <3> QED BY <3>1, <2>7, <1>1, <1>2, <1>3, <1>4, <1>5, <1>6, <1>7, <1>8, <1>9, <1>10 DEF Is, Before, Tables
  <2>8. CASE i = 8
    <3>1. j = 9
      BY <2>8, <1>12
    <3> QED BY <3>1, <2>8, <1>1, <1>2, <1>3, <1>4, <1>5, <1>6, <1>7, <1>8, <1>9, <1>10 DEF Is, Before, Tables
  <2>9. i = 1 \/ i = 2 \/ i = 3 \/ i = 4 \/ i = 5 \/ i = 6 \/ i = 7 \/ i = 8
    BY <1>12
  <2> QED BY <2>1, <2>2, <2>3, <2>4, <2>5, <2>6, <2>7, <2>8, <2>9
<1> QED BY <1>1, <1>11, <1>12 DEF InOrder, P

LEMMA ShareInOrder ==
  ASSUME NEW t \in Transactions, t.kind = "share"
  PROVE  InOrder(t)
<1> DEFINE P == Rl!Plan(t)
<1>1. Len(P) = 3
  BY SharePlan
<1>2. Is(P[1], "share", "entry", t.file)
  BY SharePlan, LockIs, NamesOf DEF Modes, Tables
<1>3. Is(P[2], "key", "user", t.user)
  BY SharePlan, LockIs, NamesOf DEF Modes, Tables
<1>4. Is(P[3], "write", "epoch", t.user)
  BY SharePlan, LockIs, NamesOf DEF Modes, Tables
<1> HIDE DEF P
<1>5. ASSUME NEW j \in 1 .. 3 PROVE Wanted(t, P[j])
  <2>1. j = 1 \/ j = 2 \/ j = 3
    OBVIOUS
  <2> QED BY <2>1, <1>1, <1>2, <1>3, <1>4 DEF Is, Wanted, Tables
<1>6. ASSUME NEW i \in 1 .. 3, NEW j \in 1 .. 3, i < j PROVE Before(t, P[i], P[j])
  <2>1. (i = 1 /\ j = 2) \/ (i = 1 /\ j = 3) \/ (i = 2 /\ j = 3)
    BY <1>6
  <2> QED BY <2>1, <1>1, <1>2, <1>3, <1>4 DEF Is, Before, Tables
<1> QED BY <1>1, <1>5, <1>6 DEF InOrder, P

LEMMA ExpiryInOrder ==
  ASSUME NEW t \in Transactions, t.kind = "expiry"
  PROVE  InOrder(t)
<1> DEFINE P == Rl!Plan(t)
<1>1. Len(P) = 3
  BY ExpiryPlan
<1>2. Is(P[1], "update", "share", t.file)
  BY ExpiryPlan, LockIs, NamesOf DEF Modes, Tables
<1>3. Is(P[2], "share", "entry", t.file)
  BY ExpiryPlan, LockIs, NamesOf DEF Modes, Tables
<1>4. Is(P[3], "write", "epoch", t.user)
  BY ExpiryPlan, LockIs, NamesOf DEF Modes, Tables
<1> HIDE DEF P
<1>5. ASSUME NEW j \in 1 .. 3 PROVE Wanted(t, P[j])
  <2>1. j = 1 \/ j = 2 \/ j = 3
    OBVIOUS
  <2> QED BY <2>1, <1>1, <1>2, <1>3, <1>4 DEF Is, Wanted, Tables
<1>6. ASSUME NEW i \in 1 .. 3, NEW j \in 1 .. 3, i < j PROVE Before(t, P[i], P[j])
  <2>1. (i = 1 /\ j = 2) \/ (i = 1 /\ j = 3) \/ (i = 2 /\ j = 3)
    BY <1>6
  <2> QED BY <2>1, <1>1, <1>2, <1>3, <1>4 DEF Is, Before, Tables
<1> QED BY <1>1, <1>5, <1>6 DEF InOrder, P

LEMMA RevokeInOrder ==
  ASSUME NEW t \in Transactions, t.kind = "revoke"
  PROVE  InOrder(t)
<1> DEFINE P == Rl!Plan(t)
<1>1. Len(P) = 2
  BY RevokePlan
<1>2. Is(P[1], "update", "share", t.file)
  BY RevokePlan, LockIs, NamesOf DEF Modes, Tables
<1>3. Is(P[2], "write", "epoch", t.user)
  BY RevokePlan, LockIs, NamesOf DEF Modes, Tables
<1> HIDE DEF P
<1>4. ASSUME NEW j \in 1 .. 2 PROVE Wanted(t, P[j])
  <2>1. j = 1 \/ j = 2
    OBVIOUS
  <2> QED BY <2>1, <1>1, <1>2, <1>3 DEF Is, Wanted, Tables
<1>5. ASSUME NEW i \in 1 .. 2, NEW j \in 1 .. 2, i < j PROVE Before(t, P[i], P[j])
  <2>1. (i = 1 /\ j = 2)
    BY <1>5
  <2> QED BY <2>1, <1>1, <1>2, <1>3 DEF Is, Before, Tables
<1> QED BY <1>1, <1>4, <1>5 DEF InOrder, P

LEMMA FailInOrder ==
  ASSUME NEW t \in Transactions, t.kind = "fail"
  PROVE  InOrder(t)
<1> DEFINE P == Rl!Plan(t)
<1>1. Len(P) = 4
  BY FailPlan
<1>2. Is(P[1], "update", "session", t.file)
  BY FailPlan, LockIs, NamesOf DEF Modes, Tables
<1>3. Is(P[2], "update", "content", t.object)
  BY FailPlan, LockIs, NamesOf DEF Modes, Tables
<1>4. Is(P[3], "update", "object", t.object)
  BY FailPlan, LockIs, NamesOf DEF Modes, Tables
<1>5. Is(P[4], "write", "user", t.user)
  BY FailPlan, LockIs, NamesOf DEF Modes, Tables
<1> HIDE DEF P
<1>6. ASSUME NEW j \in 1 .. 4 PROVE Wanted(t, P[j])
  <2>1. j = 1 \/ j = 2 \/ j = 3 \/ j = 4
    OBVIOUS
  <2> QED BY <2>1, <1>1, <1>2, <1>3, <1>4, <1>5 DEF Is, Wanted, Tables
<1>7. ASSUME NEW i \in 1 .. 4, NEW j \in 1 .. 4, i < j PROVE Before(t, P[i], P[j])
  <2>1. (i = 1 /\ j = 2) \/ (i = 1 /\ j = 3) \/ (i = 1 /\ j = 4) \/ (i = 2 /\ j = 3) \/ (i = 2 /\ j = 4) \/ (i = 3 /\ j = 4)
    BY <1>7
  <2> QED BY <2>1, <1>1, <1>2, <1>3, <1>4, <1>5 DEF Is, Before, Tables
<1> QED BY <1>1, <1>6, <1>7 DEF InOrder, P

LEMMA EndInOrder ==
  ASSUME NEW t \in Transactions, t.kind = "end"
  PROVE  InOrder(t)
<1> DEFINE P == Rl!Plan(t)
<1>1. Len(P) = 3
  BY EndPlan
<1>2. Is(P[1], "update", "session", t.file)
  BY EndPlan, LockIs, NamesOf DEF Modes, Tables
<1>3. Is(P[2], "update", "operation", t.file)
  BY EndPlan, LockIs, NamesOf DEF Modes, Tables
<1>4. Is(P[3], "write", "user", t.user)
  BY EndPlan, LockIs, NamesOf DEF Modes, Tables
<1> HIDE DEF P
<1>5. ASSUME NEW j \in 1 .. 3 PROVE Wanted(t, P[j])
  <2>1. j = 1 \/ j = 2 \/ j = 3
    OBVIOUS
  <2> QED BY <2>1, <1>1, <1>2, <1>3, <1>4 DEF Is, Wanted, Tables
<1>6. ASSUME NEW i \in 1 .. 3, NEW j \in 1 .. 3, i < j PROVE Before(t, P[i], P[j])
  <2>1. (i = 1 /\ j = 2) \/ (i = 1 /\ j = 3) \/ (i = 2 /\ j = 3)
    BY <1>6
  <2> QED BY <2>1, <1>1, <1>2, <1>3, <1>4 DEF Is, Before, Tables
<1> QED BY <1>1, <1>5, <1>6 DEF InOrder, P

LEMMA DeletedInOrder ==
  ASSUME NEW t \in Transactions, t.kind = "deleted"
  PROVE  InOrder(t)
<1> DEFINE P == Rl!Plan(t)
<1>1. Len(P) = 2
  BY DeletedPlan
<1>2. Is(P[1], "update", "operation", t.object)
  BY DeletedPlan, LockIs, NamesOf DEF Modes, Tables
<1>3. Is(P[2], "update", "object", t.object)
  BY DeletedPlan, LockIs, NamesOf DEF Modes, Tables
<1> HIDE DEF P
<1>4. ASSUME NEW j \in 1 .. 2 PROVE Wanted(t, P[j])
  <2>1. j = 1 \/ j = 2
    OBVIOUS
  <2> QED BY <2>1, <1>1, <1>2, <1>3 DEF Is, Wanted, Tables
<1>5. ASSUME NEW i \in 1 .. 2, NEW j \in 1 .. 2, i < j PROVE Before(t, P[i], P[j])
  <2>1. (i = 1 /\ j = 2)
    BY <1>5
  <2> QED BY <2>1, <1>1, <1>2, <1>3 DEF Is, Before, Tables
<1> QED BY <1>1, <1>4, <1>5 DEF InOrder, P

LEMMA AllInOrder ==
  ASSUME NEW t \in Transactions, t.kind # "import"
  PROVE  InOrder(t)
BY TransactionsAssumption, DeleteInOrder, VerifyInOrder, ShareInOrder, ExpiryInOrder, RevokeInOrder,
   FailInOrder, EndInOrder, DeletedInOrder

\* Where a running transaction is in its plan.
LEMMA Place ==
  ASSUME LockInv, NEW t \in DOMAIN wanted, t.kind # "import", wanted[t] # <<>>
  PROVE  /\ Wanted(t, Head(wanted[t]))
         /\ \A l \in taken[t] : Before(t, l, Head(wanted[t]))
<1> HIDE DEF Rl!Plan
<1>1. PICK k \in 0 .. Len(Rl!Plan(t)) - 1 : Split(t, k)
  BY DEF LockInv, Planned
<1>2. t \in Transactions /\ wanted[t] \in Seq(Locks)
  BY DEF LockInv
<1>3. InOrder(t) /\ Len(Rl!Plan(t)) \in Nat
  BY <1>2, AllInOrder, PlanType
<1>4. Head(wanted[t]) = wanted[t][1] /\ Len(wanted[t]) \in Nat \ {0}
  BY <1>2
<1>5. Head(wanted[t]) = Rl!Plan(t)[k + 1]
  BY <1>1, <1>4 DEF Split
<1>6. k + 1 \in 1 .. Len(Rl!Plan(t))
  BY <1>3
<1>7. ASSUME NEW l \in taken[t] PROVE Before(t, l, Head(wanted[t]))
  <2>1. PICK i \in 1 .. k : l = Rl!Plan(t)[i]
    BY <1>1, <1>7 DEF Split
  <2>2. i \in 1 .. Len(Rl!Plan(t)) /\ i < k + 1
    BY <1>3
  <2> QED BY <2>1, <2>2, <1>3, <1>5, <1>6 DEF InOrder
<1>8. Wanted(t, Head(wanted[t]))
  BY <1>3, <1>5, <1>6 DEF InOrder
<1> QED BY <1>7, <1>8

\* No circle without an import and with one verification at most.  Nobody waits
\* for a quota row or a folder.  Who waits for an object waits for the
\* verification, which then waits for its user's epoch, held by a deletion of
\* the same user that waits for the same object: there is no such pair.  What
\* is left is ordered.
LEMMA NoCircle ==
  ASSUME LockInv, NEW S, S \subseteq DOMAIN wanted, Rl!Deadlocked(S),
         \A t \in S : t.kind # "import",
         \A u, v \in S : u.kind = "verify" /\ v.kind = "verify" => u = v
  PROVE  FALSE
<1> DEFINE H(t) == Head(wanted[t])
<1> DEFINE On(t) == H(t).row[1]
<1> DEFINE Blocks(u, l, t) == /\ l \in taken[u] /\ t # u /\ l.row = H(t).row /\ l.row[1] = On(t)
                              /\ Rl!Conflicts(l.mode, H(t).mode)
<1>1. \A t \in S : wanted[t] # <<>> /\ \E u \in S : \E l \in taken[u] : Blocks(u, l, t)
  BY DEF Rl!Deadlocked, Rl!WaitsFor
<1>2. \A t \in S : Wanted(t, H(t)) /\ \A l \in taken[t] : Before(t, l, H(t))
  BY <1>1, Place
<1>3. \A t \in S : \E u \in S, l \in Locks : Blocks(u, l, t) /\ Before(u, l, H(u)) /\ Wanted(u, H(u))
  BY <1>1, <1>2 DEF LockInv
<1>4. S # {} /\ S \subseteq Transactions
  BY DEF Rl!Deadlocked, LockInv
<1> HIDE DEF H
<1>5. ASSUME NEW t \in S PROVE On(t) # "user"
  <2> SUFFICES ASSUME On(t) = "user" PROVE FALSE
    OBVIOUS
  <2>1. PICK u \in S, l \in Locks : Blocks(u, l, t) /\ Before(u, l, H(u))
    BY <1>3
  <2>2. l.mode = "key"
    BY <2>1 DEF Before
  <2>3. H(t).mode \in {"key", "write"}
    BY <1>2 DEF Wanted
  <2>4. Rl!Conflicts(l.mode, H(t).mode)
    BY <2>1
  <2> QED BY <2>2, <2>3, <2>4 DEF Rl!Conflicts
<1>6. ASSUME NEW t \in S PROVE On(t) # "folder"
  <2> SUFFICES ASSUME On(t) = "folder" PROVE FALSE
    OBVIOUS
  <2>1. PICK u \in S, l \in Locks : Blocks(u, l, t) /\ Before(u, l, H(u))
    BY <1>3
  <2>2. l.mode = "share"
    BY <2>1 DEF Before
  <2>3. H(t).mode = "share"
    BY <1>2 DEF Wanted
  <2>4. Rl!Conflicts(l.mode, H(t).mode)
    BY <2>1
  <2> QED BY <2>2, <2>3, <2>4 DEF Rl!Conflicts
<1>7. ASSUME NEW t \in S, On(t) = "object"
      PROVE  \E v \in S : /\ v # t /\ v.kind = "verify"
                          /\ H(t).row = <<"object", v.object>> /\ On(v) \in {"object", "epoch"}
  <2>1. PICK u \in S, l \in Locks : Blocks(u, l, t) /\ Before(u, l, H(u))
    BY <1>3
  <2>2. l.row[1] = "object" /\ l.row = H(t).row /\ u # t
    BY <2>1, <1>7
  <2>3. u.kind = "verify"
    BY <2>1, <2>2, <1>5 DEF Before
  <2>4. l.row = <<"object", u.object>> /\ On(u) \in {"folder", "user", "object", "epoch"}
    BY <2>1, <2>2, <2>3 DEF Before
  <2>5. On(u) \in {"object", "epoch"}
    BY <2>4, <1>5, <1>6
  <2> QED BY <2>2, <2>3, <2>4, <2>5
<1>8. ASSUME NEW v \in S, v.kind = "verify" PROVE On(v) # "object"
  BY <1>7, <1>8
<1>9. ASSUME NEW u \in S, NEW l \in Locks, Before(u, l, H(u)), l.row[1] = "epoch"
      PROVE  /\ l.row = <<"epoch", u.user>> /\ u.kind = "delete" /\ On(u) = "object"
             /\ H(u).row = <<"object", u.object>>
  <2>1. l.row = <<"epoch", u.user>> /\ u.kind \in {"delete", "verify"} /\ On(u) \in {"object", "user"}
    BY <1>9 DEF Before
  <2>2. On(u) = "object"
    BY <2>1, <1>5
  <2>3. u.kind = "delete"
    BY <2>1, <2>2, <1>8
  <2>4. H(u).row = <<"object", u.object>>
    BY <2>2, <1>2 DEF Wanted
  <2> QED BY <2>1, <2>2, <2>3, <2>4
<1>10. ASSUME NEW v \in S, v.kind = "verify" PROVE On(v) # "epoch"
  <2> SUFFICES ASSUME On(v) = "epoch" PROVE FALSE
    OBVIOUS
  <2>1. PICK d \in S, l \in Locks : Blocks(d, l, v) /\ Before(d, l, H(d))
    BY <1>3
  <2>2. l.row[1] = "epoch" /\ l.row = H(v).row
    BY <2>1
  <2>3. /\ l.row = <<"epoch", d.user>> /\ d.kind = "delete" /\ On(d) = "object"
        /\ H(d).row = <<"object", d.object>>
    BY <2>1, <2>2, <1>9
  <2>4. H(v).row = <<"epoch", v.user>>
    BY <1>2 DEF Wanted
  <2>5. d.user = v.user
    <3>1. <<"epoch", d.user>> = <<"epoch", v.user>>
      BY <2>2, <2>3, <2>4
    <3> QED BY ONLY <3>1
  <2>6. H(d).row = <<"object", v.object>>
    BY <2>3, <1>7, <1>10
  <2>7. d.object = v.object
    BY <2>3, <2>6
  <2> QED BY <2>3, <2>5, <2>7, <1>4, <1>10, TransactionsAssumption
<1>11. ASSUME NEW t \in S PROVE On(t) # "object"
  BY <1>7, <1>8, <1>10
<1>12. ASSUME NEW t \in S PROVE On(t) # "epoch"
  <2> SUFFICES ASSUME On(t) = "epoch" PROVE FALSE
    OBVIOUS
  <2>1. PICK u \in S, l \in Locks : Blocks(u, l, t) /\ Before(u, l, H(u))
    BY <1>3
  <2>2. On(u) = "object"
    BY <2>1, <1>9
  <2> QED BY <2>2, <1>11
<1>13. ASSUME NEW t \in S PROVE On(t) \notin {"content", "operation"}
  <2> SUFFICES ASSUME On(t) \in {"content", "operation"} PROVE FALSE
    OBVIOUS
  <2>1. PICK u \in S, l \in Locks : Blocks(u, l, t) /\ Before(u, l, H(u))
    BY <1>3
  <2>2. On(u) \in {"object", "user", "folder", "epoch"}
    BY <2>1 DEF Before
  <2> QED BY <2>2, <1>5, <1>6, <1>11, <1>12
<1>14. ASSUME NEW t \in S PROVE On(t) # "session"
  <2> SUFFICES ASSUME On(t) = "session" PROVE FALSE
    OBVIOUS
  <2>1. PICK u \in S, l \in Locks : Blocks(u, l, t) /\ Before(u, l, H(u))
    BY <1>3
  <2>2. On(u) \in {"content", "operation", "object", "user", "folder", "epoch"}
    BY <2>1 DEF Before
  <2> QED BY <2>2, <1>5, <1>6, <1>11, <1>12, <1>13
<1>15. ASSUME NEW t \in S PROVE On(t) # "entry"
  <2> SUFFICES ASSUME On(t) = "entry" PROVE FALSE
    OBVIOUS
  <2>1. PICK u \in S, l \in Locks : Blocks(u, l, t) /\ Before(u, l, H(u))
    BY <1>3
  <2>2. On(u) \in {"epoch", "object", "user"}
    BY <2>1 DEF Before
  <2> QED BY <2>2, <1>5, <1>11, <1>12
<1>16. ASSUME NEW t \in S PROVE On(t) # "share"
  <2> SUFFICES ASSUME On(t) = "share" PROVE FALSE
    OBVIOUS
  <2>1. PICK u \in S, l \in Locks : Blocks(u, l, t) /\ Before(u, l, H(u))
    BY <1>3
  <2>2. On(u) \in {"entry", "epoch"}
    BY <2>1 DEF Before
  <2> QED BY <2>2, <1>12, <1>15
<1>17. PICK t \in S : TRUE
  BY <1>4
<1>18. On(t) \in Tables
  BY <1>2 DEF Wanted
<1> QED BY <1>5, <1>6, <1>11, <1>12, <1>13, <1>14, <1>15, <1>16, <1>18 DEF Tables

LEMMA TwoOrMore ==
  ASSUME NEW A, IsFiniteSet(A), NEW u \in A, NEW v \in A, u # v
  PROVE  Cardinality(A) >= 2
<1>1. {u, v} \subseteq A
  OBVIOUS
<1>2. IsFiniteSet({u, v}) /\ Cardinality({u, v}) = 2
  <2>1. IsFiniteSet({u}) /\ Cardinality({u}) = 1
    BY FS_Singleton
  <2>2. {u, v} = {u} \cup {v} /\ v \notin {u}
    OBVIOUS
  <2> QED BY <2>1, <2>2, FS_AddElement
<1>3. Cardinality({u, v}) <= Cardinality(A) /\ Cardinality(A) \in Nat
  BY <1>1, FS_Subset, FS_CardinalityType
<1> QED BY <1>2, <1>3

LEMMA NeedsVerifications ==
  ASSUME LockInv
  PROVE  OrderedLocks
<1> SUFFICES ASSUME NEW S \in SUBSET Rl!Waiting, Rl!Deadlocked(S), \A t \in S : t.kind # "import"
             PROVE  Rl!Cardinality({t \in S : t.kind = "verify"}) >= 2
  BY DEF OrderedLocks, Rl!OrderedLocks
<1> DEFINE V == {t \in S : t.kind = "verify"}
<1>1. S \subseteq DOMAIN wanted
  BY DEF Rl!Waiting, Rl!running
<1>2. IsFiniteSet(V)
  <2>1. V \subseteq Transactions
    BY <1>1 DEF LockInv
  <2> QED BY <2>1, FS_Subset, TransactionsAssumption
<1>3. PICK u \in S, v \in S : u.kind = "verify" /\ v.kind = "verify" /\ u # v
  BY <1>1, NoCircle
<1>4. u \in V /\ v \in V
  BY <1>3
<1>5. Rl!Cardinality(V) = Cardinality(V)
  BY DEF Rl!Cardinality, Cardinality
<1> HIDE DEF V
<1>6. Cardinality(V) >= 2
  BY <1>2, <1>3, <1>4, TwoOrMore
<1> QED BY <1>5, <1>6 DEF V

\* Transactions that delete, share, fail, end and collect never wait for each other
\* in a circle: that takes an import, or two verifications of known content.
THEOREM LocksTheorem == SuiteSpec => []OrderedLocks
<1>1. SuiteInit => LockInv
  <2> SUFFICES ASSUME SuiteInit PROVE LockInv
    OBVIOUS
  <2>1. CASE part = "locks"
    BY <2>1, LockInit DEF SuiteInit
  <2>2. CASE part # "locks"
    <3>1. wanted = <<>> /\ taken = <<>>
      BY <2>2 DEF SuiteInit, NoLocks
    <3>2. DOMAIN wanted = {} /\ DOMAIN taken = {}
      BY <3>1
    <3> QED BY <3>1, <3>2 DEF LockInv
  <2> QED BY <2>1, <2>2
<1>2. LockInv /\ [SuiteNext]_suiteVars => LockInv'
  <2> SUFFICES ASSUME LockInv, [SuiteNext]_suiteVars PROVE LockInv'
    OBVIOUS
  <2>1. CASE Rl!Next
    <3>1. PICK t \in DOMAIN wanted : Rl!Acquire(t) \/ Rl!Commit(t) \/ Rl!CancelVictim(t)
      BY <2>1 DEF Rl!Next, Rl!running
    <3> QED BY <3>1, AcquireStep, ReleaseStep
  <2>2. CASE UNCHANGED lockVars
    BY <2>2 DEF LockInv, lockVars, Planned, Split
  <2>3. Rl!Next \/ UNCHANGED lockVars
    BY DEF SuiteNext, suiteVars
  <2> QED BY <2>1, <2>2, <2>3
<1>3. LockInv => OrderedLocks
  BY NeedsVerifications
<1> QED BY <1>1, <1>2, <1>3, PTL DEF SuiteSpec

=============================================================================
