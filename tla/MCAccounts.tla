----------------------------- MODULE MCAccounts -----------------------------
(***************************************************************************)
(* Accounts and sharing for TLC: Sessions, Sharing and RowLocks.  They do  *)
(* not share state, so a behaviour is one of the component that `part`     *)
(* names, with the others at rest.                                         *)
(***************************************************************************)
EXTENDS Sessions

CONSTANTS VisitorRequests, Keys, Expiries, TTL, Second, MaxTime, MaxEdits, None,
          Transactions, MaxConcurrent

VARIABLES part,
          now, share, live, edit, acl, tokens, imports, copy, full, visit, events,
          wanted, taken, victims

\* Two people whose name is the other's e-mail.
SwappedName == [a \in Accounts |-> IF a = "ann" THEN 1 ELSE 2]
SwappedEmail == [a \in Accounts |-> 3 - SwappedName[a]]

\* A's file x with content o is shared, B's file y has content p, and each of
\* them uploads the other's content.
Tx(kind, user, file, object) == [kind |-> kind, user |-> user, file |-> file, object |-> object]
AllTransactions ==
  {Tx("delete", "A", "x", "o"), Tx("delete", "B", "y", "p"), Tx("share", "A", "x", "o"),
   Tx("expiry", "A", "x", "o"), Tx("revoke", "A", "x", "o"), Tx("import", "B", "x", "o"),
   Tx("verify", "B", "s", "o"), Tx("verify", "A", "r", "p"), Tx("fail", "A", "t", "o"),
   Tx("end", "A", "u", "o"), Tx("deleted", "A", "x", "o")}

\* A user verifies no content of which he is deleting a file: drive.CreateFile
\* refuses it while the file's row is live, and nobody makes a new one while
\* the verification holds the object.
ASSUME TransactionsAssumption ==
  /\ IsFiniteSet(Transactions)
  /\ \A t \in Transactions : t.kind \in {"delete", "share", "expiry", "revoke", "import", "verify",
                                         "fail", "end", "deleted"}
  /\ \A v, d \in Transactions :
       v.kind = "verify" /\ d.kind = "delete" => v.user # d.user \/ v.object # d.object

Sh == INSTANCE Sharing WITH Requests <- VisitorRequests, req <- visit
Rl == INSTANCE RowLocks

shareVars == <<now, share, live, edit, acl, tokens, imports, copy, full, visit, events>>
lockVars == <<wanted, taken, victims>>
suiteVars == <<part, vars, shareVars, lockVars>>

NoLocks == wanted = <<>> /\ taken = <<>> /\ victims = {}

SuiteInit ==
  /\ part \in {"sessions", "sharing", "locks"}
  /\ Init /\ Sh!Init
  /\ part # "sharing" => ~full
  /\ IF part = "locks" THEN Rl!Init ELSE NoLocks

SuiteNext ==
  \/ part = "sessions" /\ Next /\ UNCHANGED <<part, shareVars, lockVars>>
  \/ part = "sharing" /\ Sh!Next /\ UNCHANGED <<part, vars, lockVars>>
  \/ part = "locks" /\ Rl!Next /\ UNCHANGED <<part, vars, shareVars>>

SuiteSpec == SuiteInit /\ [][SuiteNext]_suiteVars

\* Deadlocks of row locks need an import or two verifications (RowLocks).
OrderedLocks == Rl!OrderedLocks

\* Nothing is granted, imported or changed that the share does not allow any more.
SharesHonoured == Sh!SharesHonoured
=============================================================================
