---------------------------- MODULE GrantIssuer ----------------------------
(***************************************************************************)
(* One-time capability grants (grant_issuer.py, grant_repo.py): a row per  *)
(* grant, and holders of its handle who verify and consume it, each in a   *)
(* database transaction of its own that may also roll back, while others   *)
(* revoke grants and sweep the lapsed ones.                                *)
(*                                                                         *)
(* SQLite lets one transaction write at a time: the first write takes the  *)
(* lock, and reads of others see the last committed rows.                  *)
(***************************************************************************)
EXTENDS Integers

CONSTANTS Grant, Holder, Nobody

ASSUME NobodyAssumption == Nobody \notin Holder

VARIABLES
  row,     \* the committed status of each grant
  lapsed,  \* the grants whose expires_at has passed
  writer,  \* the holder whose transaction holds the write lock
  draft,   \* the rows as the writer's transaction has left them
  holder,  \* what each holder is doing, and with which grant
  used     \* how often a consumption of each grant was committed

vars == <<row, lapsed, writer, draft, holder, used>>

Status == {"none", "issued", "consumed", "revoked", "expired"}

HolderState ==
  [pc: {"idle", "verified", "won"}, grant: Grant]

TypeOK ==
  /\ row \in [Grant -> Status]
  /\ lapsed \subseteq Grant
  /\ writer \in Holder \cup {Nobody}
  /\ draft \in [Grant -> Status]
  /\ holder \in [Holder -> HolderState]
  /\ used \in [Grant -> Nat]

Init ==
  /\ row = [g \in Grant |-> "none"]
  /\ lapsed = {}
  /\ writer = Nobody
  /\ draft = row
  /\ holder \in [Holder -> {[pc |-> "idle", grant |-> g] : g \in Grant}]
  /\ used = [g \in Grant |-> 0]

-----------------------------------------------------------------------------
\* A transaction of its own that changes the rows it may change, and commits.
Commit(update) ==
  /\ writer = Nobody
  /\ row' = update /\ draft' = update
  /\ UNCHANGED <<lapsed, writer, holder, used>>

\* issue; for a high risk without an approval it raises and leaves no row.
Issue(g) ==
  /\ row[g] = "none"
  /\ Commit([row EXCEPT ![g] = "issued"])

Lapse(g) ==
  /\ row[g] # "none" /\ g \notin lapsed
  /\ lapsed' = lapsed \cup {g}
  /\ UNCHANGED <<row, writer, draft, holder, used>>

\* verify reads the row; it writes nothing and promises nothing.
Verify(h, g) ==
  /\ holder[h].pc = "idle" /\ writer # h
  /\ row[g] = "issued" /\ g \notin lapsed
  /\ holder' = [holder EXCEPT ![h] = [pc |-> "verified", grant |-> g]]
  /\ UNCHANGED <<row, lapsed, writer, draft, used>>

(* Faulty variant: consume trusts what verify has seen.                    *)
ConsumeBlind(h) ==
  LET g == holder[h].grant
  IN  /\ holder[h].pc = "verified" /\ writer = Nobody
      /\ writer' = h
      /\ draft' = [row EXCEPT ![g] = "consumed"]
      /\ holder' = [holder EXCEPT ![h].pc = "won"]
      /\ UNCHANGED <<row, lapsed, used>>

\* consume: UPDATE ... WHERE status = 'issued', and look at the row count.
Consume(h) ==
  LET g == holder[h].grant
  IN  /\ holder[h].pc = "verified" /\ writer = Nobody
      /\ \/ /\ row[g] = "issued"
            /\ writer' = h
            /\ draft' = [row EXCEPT ![g] = "consumed"]
            /\ holder' = [holder EXCEPT ![h].pc = "won"]
         \/ /\ row[g] # "issued"
            /\ holder' = [holder EXCEPT ![h].pc = "idle"]
            /\ UNCHANGED <<writer, draft>>
      /\ UNCHANGED <<row, lapsed, used>>

\* The holder's transaction ends: with a commit, or rolled back.
End(h) ==
  /\ writer = h
  /\ writer' = Nobody
  /\ holder' = [holder EXCEPT ![h].pc = "idle"]
  /\ \/ /\ row' = draft
        /\ used' = [used EXCEPT ![holder[h].grant] = @ + 1]
        /\ UNCHANGED draft
     \/ /\ draft' = row
        /\ UNCHANGED <<row, used>>
  /\ UNCHANGED lapsed

Revoke(g) ==
  /\ row[g] = "issued"
  /\ Commit([row EXCEPT ![g] = "revoked"])

ExpireStale ==
  Commit([g \in Grant |-> IF row[g] = "issued" /\ g \in lapsed
                          THEN "expired" ELSE row[g]])

Next ==
  \/ \E g \in Grant : Issue(g) \/ Lapse(g) \/ Revoke(g)
  \/ \E h \in Holder : (\E g \in Grant : Verify(h, g)) \/ Consume(h) \/ End(h)
  \/ ExpireStale

Spec == Init /\ [][Next]_vars

-----------------------------------------------------------------------------
(* Properties                                                              *)

(* "exactly one concurrent caller wins" (grant_issuer.py:69): a grant is   *)
(* consumed at most once, and only one that is neither revoked nor swept   *)
(* as expired, however the holders' transactions interleave.               *)
UsedOnce ==
  \A g \in Grant :
    /\ used[g] <= 1
    /\ used[g] = 1 => row[g] = "consumed"
    /\ row[g] = "consumed" => used[g] = 1
=============================================================================
