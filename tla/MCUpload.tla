------------------------------ MODULE MCUpload ------------------------------
(* Instances of Upload for TLC: sessions are 1, 2, 3. *)
EXTENDS Upload, FiniteSetsExt, TLC

UnitSize == [s \in Sessions |-> 1]
OneName == [s \in Sessions |-> "n"]
OneContent == [s \in Sessions |-> "c"]

\* Sessions 1 and 2 want the same name, 2 and 3 have the same content, and the
\* third does not fit the quota beside both of them.
TrioSize == [s \in Sessions |-> IF s = 3 THEN 2 ELSE 1]
TrioName == [s \in Sessions |-> IF s = 3 THEN "m" ELSE "n"]
TrioContent == [s \in Sessions |-> IF s = 1 THEN "c" ELSE "d"]

\* The two counters of the user's row are exactly what the live reservations and
\* the live files add up to, whatever order sessions are committed, aborted,
\* expired (and then aborted), retired and files deleted in; GREATEST never has
\* to hide a double release.
QuotaExact ==
  /\ user.reserved = MapThenSumSet(LAMBDA s : sess[s].reserved, Sessions)
  /\ user.used = MapThenSumSet(LAMBDA s : Size[s], entry)
=============================================================================
