---------------------------- MODULE SkillCatalog ----------------------------
(* The skills of one name, from a candidate to a published skill and its    *)
(* copies in other editions: SkillRegistryService, SkillEvaluator and the   *)
(* promotions of SkillMarketplace.  Calls are threads with a transaction    *)
(* each: what they read holds no lock, and from their first write to their  *)
(* commit nobody else writes.  So a call is its reads and then its writes,  *)
(* with the commits of others in between.                                   *)
EXTENDS Integers, Sequences, FiniteSets

CONSTANTS
  Call,
  Definition,      \* definitions of a skill, by their hash
  NoDefinition,
  Edition,
  MaxVersions,     \* max_versions
  MaxFailures,     \* consecutive_failures
  MinRate,         \* min_success_rate, in percent
  MaxSkills, MaxRuns, MaxPromotions   \* bounds on the rows

VARIABLES
  skills,      \* rows of skills, in the order of their insertion
  promotions,  \* rows of skill_promotions
  call,        \* what each call has read and is about to write
  history      \* skills created or promoted, and promotions reviewed, across
               \* a commit of another call; skills that were approved or rolled
               \* back (earned), and those not run since (fresh)

vars == <<skills, promotions, call, history>>

\* What rows hold.
SkillStatus == {"CANDIDATE", "STABLE", "DISABLED", "DEPRECATED"}
PromotionStatus == {"PENDING", "APPROVED", "REJECTED"}
IsSkill(row) ==
  /\ row.edition \in Edition /\ row.version \in 1..MaxSkills
  /\ row.status \in SkillStatus /\ row.definition \in Definition
IsPromotion(row) ==
  /\ row.skill \in DOMAIN skills /\ row.target \in Edition
  /\ row.status \in PromotionStatus

Idle == [op |-> "none", row |-> 0, definition |-> NoDefinition,
         edition |-> CHOOSE e \in Edition : TRUE, version |-> 0, alone |-> TRUE]

Init ==
  /\ skills = <<>> /\ promotions = <<>>
  /\ call = [c \in Call |-> Idle]
  /\ history = [created |-> {}, promoted |-> {}, reviewed |-> {}, earned |-> {},
                fresh |-> {}]

Of(e) == {i \in DOMAIN skills : skills[i].edition = e}
IsLatest(i, e) == i \in Of(e) /\ \A j \in Of(e) : skills[j].version <= skills[i].version
IsOldest(i, e) == i \in Of(e) /\ \A j \in Of(e) : skills[i].version <= skills[j].version

Candidate(e, v, d, from) ==
  [edition |-> e, version |-> v, status |-> "CANDIDATE", definition |-> d,
   runs |-> <<>>, from |-> from]

\* A call begins; or ends, after a commit that the others under way have met.
Begin(c, request) == call[c] = Idle /\ call' = [call EXCEPT ![c] = request]
Committed(c) ==
  call' = [d \in Call |-> IF d = c \/ call[d] = Idle THEN Idle
                                                     ELSE [call[d] EXCEPT !.alone = FALSE]]
Crossed(c, i) == IF call[c].alone THEN {} ELSE {i}

-----------------------------------------------------------------------------
(* create, which a completed task calls.                                    *)

\* The same definition once more changes nothing.
BeginCreate(c, e, d) ==
  /\ Len(skills) < MaxSkills
  /\ \/ Of(e) = {} /\ Begin(c, [Idle EXCEPT !.op = "insert", !.definition = d,
                                            !.edition = e, !.version = 1])
     \/ \E i \in DOMAIN skills :
          /\ IsLatest(i, e) /\ skills[i].definition # d
          /\ Begin(c, [Idle EXCEPT
                         !.op = IF skills[i].version + 1 > MaxVersions
                                THEN "oldest" ELSE "insert",
                         !.definition = d, !.edition = e,
                         !.version = skills[i].version + 1])
  /\ UNCHANGED <<skills, promotions, history>>

\* _deprecate_oldest: the one with the lowest version, whatever has become of
\* it.
ReadOldest(c) ==
  /\ call[c].op = "oldest"
  /\ \E i \in DOMAIN skills :
       /\ IsOldest(i, call[c].edition)
       /\ call' = [call EXCEPT ![c].op = "insert",
                     ![c].row = IF skills[i].status = "STABLE" THEN i ELSE 0]
  /\ UNCHANGED <<skills, promotions, history>>

\* Faulty variant: versions are not counted.
InsertFirst(c) ==
  /\ call[c].op = "insert" /\ Len(skills) < MaxSkills
  /\ skills' = Append(skills, Candidate(call[c].edition, 1, call[c].definition, 0))
  /\ history' = [history EXCEPT !.created = @ \cup Crossed(c, Len(skills) + 1)]
  /\ Committed(c) /\ UNCHANGED promotions

Insert(c) ==
  /\ call[c].op = "insert" /\ Len(skills) < MaxSkills
  /\ LET row == Candidate(call[c].edition, call[c].version, call[c].definition, 0)
         old == call[c].row
     IN  skills' = Append(IF old = 0 THEN skills
                          ELSE [skills EXCEPT ![old].status = "DEPRECATED"], row)
  /\ history' = [history EXCEPT !.created = @ \cup Crossed(c, Len(skills) + 1)]
  /\ Committed(c) /\ UNCHANGED promotions

-----------------------------------------------------------------------------
(* approve, disable, rollback.                                              *)

May(op, status) ==
  CASE op = "approve" -> status = "CANDIDATE"
    [] op = "disable" -> status # "DISABLED"
    [] op = "rollback" -> status = "DISABLED"

BeginChange(c, i, op) ==
  /\ May(op, skills[i].status)
  /\ Begin(c, [Idle EXCEPT !.op = op, !.row = i])
  /\ UNCHANGED <<skills, promotions, history>>

\* The row is set without another look at its status.
Change(c) ==
  /\ call[c].op \in {"approve", "disable", "rollback"}
  /\ LET i == call[c].row
     IN  /\ skills' = [skills EXCEPT ![i].status =
                         IF call[c].op = "disable" THEN "DISABLED" ELSE "STABLE"]
         /\ history' = IF call[c].op = "disable" THEN history
                       ELSE [history EXCEPT !.earned = @ \cup {i},
                                            !.fresh = @ \cup {i}]
  /\ Committed(c) /\ UNCHANGED promotions

-----------------------------------------------------------------------------
(* record_run: the run is inserted first, so all of it is under the lock.   *)

\* update_success_rate: in percent, rounded.
SuccessRate(runs) ==
  LET good == Cardinality({i \in DOMAIN runs : runs[i]})
  IN  (200 * good + Len(runs)) \div (2 * Len(runs))

Failing(runs) ==
  \/ Len(runs) >= MaxFailures /\ \A i \in 1..MaxFailures : ~runs[i]
  \/ Len(runs) >= 3 /\ SuccessRate(runs) < MinRate

\* Newest first.
AddRun(runs, ok) == <<ok>> \o runs

\* _degrade: the configured action disables or deprecates.
Degraded == {"DISABLED", "DEPRECATED"}

TotalRuns(n) == Cardinality({run \in (DOMAIN skills) \X (1..n) :
                               run[2] <= Len(skills[run[1]].runs)})

\* Faulty variant: the check is made before the run counts.
RecordRunLate(i, ok) ==
  /\ TotalRuns(MaxRuns) < MaxRuns
  /\ LET degraded == skills[i].status = "STABLE" /\ Failing(skills[i].runs)
     IN  skills' = [skills EXCEPT ![i].runs = <<ok>> \o @,
                      ![i].status = IF degraded THEN "DISABLED" ELSE @]
  /\ history' = [history EXCEPT !.fresh = @ \ {i}]
  /\ call' = [c \in Call |-> IF call[c] = Idle THEN Idle
                             ELSE [call[c] EXCEPT !.alone = FALSE]]
  /\ UNCHANGED promotions

RecordRun(i, ok) ==
  /\ TotalRuns(MaxRuns) < MaxRuns
  /\ LET runs == AddRun(skills[i].runs, ok)
         degraded == skills[i].status = "STABLE" /\ Failing(runs)
     IN  \E status \in IF degraded THEN Degraded ELSE {skills[i].status} :
           skills' = [skills EXCEPT ![i].runs = runs, ![i].status = status]
  /\ history' = [history EXCEPT !.fresh = @ \ {i}]
  /\ call' = [c \in Call |-> IF call[c] = Idle THEN Idle
                             ELSE [call[c] EXCEPT !.alone = FALSE]]
  /\ UNCHANGED promotions

-----------------------------------------------------------------------------
(* promote and review_promotion.                                            *)

Pending(i, e) ==
  {p \in DOMAIN promotions : /\ promotions[p].skill = i
                             /\ promotions[p].target = e
                             /\ promotions[p].status = "PENDING"}

\* The edition it is promoted from is the caller's word; a request that is
\* pending is returned.
BeginPromote(c, i, e) ==
  /\ skills[i].status = "STABLE" /\ Pending(i, e) = {}
  /\ Len(promotions) < MaxPromotions
  /\ Begin(c, [Idle EXCEPT !.op = "promote", !.row = i, !.edition = e])
  /\ UNCHANGED <<skills, promotions, history>>

Promote(c) ==
  /\ call[c].op = "promote" /\ Len(promotions) < MaxPromotions
  /\ promotions' = Append(promotions, [skill |-> call[c].row,
                             target |-> call[c].edition, status |-> "PENDING"])
  /\ history' = [history EXCEPT !.promoted = @ \cup Crossed(c, call[c].row)]
  /\ Committed(c) /\ UNCHANGED skills

\* Faulty variant: a promotion is reviewed whatever has become of it.
BeginAnyReview(c, p) ==
  /\ Begin(c, [Idle EXCEPT !.op = "review", !.row = p])
  /\ UNCHANGED <<skills, promotions, history>>

BeginReview(c, p) ==
  /\ promotions[p].status = "PENDING"
  /\ Begin(c, [Idle EXCEPT !.op = "review", !.row = p])
  /\ UNCHANGED <<skills, promotions, history>>

\* Faulty variant: the copy is as stable as the skill it is made of.
CopyPublished(p) ==
  [skills[promotions[p].skill] EXCEPT !.edition = promotions[p].target,
     !.version = 1, !.runs = <<>>, !.from = p]

\* The copy is a candidate of the other edition, with the version 1.
Copy(p) ==
  Candidate(promotions[p].target, 1,
            skills[promotions[p].skill].definition, p)

Review(c, approved) ==
  LET p == call[c].row
  IN  /\ call[c].op = "review"
      /\ promotions' = [promotions EXCEPT ![p].status =
                          IF approved THEN "APPROVED" ELSE "REJECTED"]
      /\ IF approved
         THEN Len(skills) < MaxSkills /\ skills' = Append(skills, Copy(p))
         ELSE UNCHANGED skills
      /\ history' = [history EXCEPT !.reviewed = @ \cup Crossed(c, p)]
      /\ Committed(c)

\* The audit row or the commit fails, or the request goes away.
RollBack(c) ==
  /\ call[c] # Idle
  /\ call' = [call EXCEPT ![c] = Idle]
  /\ UNCHANGED <<skills, promotions, history>>

Next ==
  \/ \E c \in Call :
       \/ \E e \in Edition, d \in Definition : BeginCreate(c, e, d)
       \/ ReadOldest(c) \/ Insert(c) \/ Change(c) \/ Promote(c) \/ RollBack(c)
       \/ \E i \in DOMAIN skills :
            \/ \E op \in {"approve", "disable", "rollback"} : BeginChange(c, i, op)
            \/ \E e \in Edition : BeginPromote(c, i, e)
       \/ \E p \in DOMAIN promotions : BeginReview(c, p)
       \/ \E approved \in BOOLEAN : Review(c, approved)
  \/ \E i \in DOMAIN skills, ok \in BOOLEAN : RecordRun(i, ok)

Spec == Init /\ [][Next]_vars

-----------------------------------------------------------------------------
(* Properties.                                                              *)

(* The rows are in their ranges and within the bounds.                      *)
TypeOK ==
  /\ \A i \in DOMAIN skills : IsSkill(skills[i])
  /\ \A p \in DOMAIN promotions : IsPromotion(promotions[p])
  /\ TotalRuns(MaxRuns + 1) <= MaxRuns

(* A skill is published by an approval or a rollback of its own, not by a   *)
(* promotion; and one that has been run since is not failing (approve,      *)
(* rollback, review_promotion, check_degradation).                          *)
StableIsEarned ==
  \A i \in DOMAIN skills :
    skills[i].status = "STABLE" =>
      /\ i \in history.earned
      /\ i \in history.fresh \/ ~Failing(skills[i].runs)

(* Created versions of one edition differ, unless a commit came between the *)
(* reads and the writes of a creation, or a copy was the latest (create,    *)
(* _create_version).                                                        *)
VersionsDiffer ==
  \A i, j \in DOMAIN skills :
    /\ i < j /\ skills[i].edition = skills[j].edition
    /\ skills[j].from = 0 /\ j \notin history.created
    => skills[i].version # skills[j].version

(* A promotion has its one copy when it is APPROVED and none before or      *)
(* otherwise, and a skill one pending promotion per edition, unless a       *)
(* commit came between the reads and the writes of its call (promote,       *)
(* review_promotion).                                                       *)
PromotedOnce ==
  /\ \A p \in DOMAIN promotions \ history.reviewed :
       Cardinality({i \in DOMAIN skills : skills[i].from = p})
         = (IF promotions[p].status = "APPROVED" THEN 1 ELSE 0)
  /\ \A i \in DOMAIN skills \ history.promoted, e \in Edition :
       Cardinality(Pending(i, e)) <= 1
=============================================================================
