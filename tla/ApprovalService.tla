--------------------------- MODULE ApprovalService ---------------------------
(***************************************************************************)
(* Approval requests and votes: packages/approval/approval_service with    *)
(* the vote and resolve routes of gateway_approvals.                       *)
(*                                                                         *)
(* The vote route is a plain function, so FastAPI runs each call in a      *)
(* thread of its own: a call reads and checks the request first and        *)
(* inserts its vote later, and anything may commit in between.  The        *)
(* resolve route is a coroutine without an await before its commit: calls  *)
(* of it never overlap, but votes of the threads commit between its three  *)
(* statements (count approvals, count rejections, update).                 *)
(***************************************************************************)
EXTENDS Integers, FiniteSets
LOCAL INSTANCE TLC

CONSTANTS
  Request,    \* ids of the approval requests
  Principal,  \* who may request and vote
  Quorums,    \* values of required_quorum
  RequestTtl, \* _DEFAULT_REQUEST_TTL, in ticks
  MaxTime,    \* bound on the clock
  MaxCasting, \* bound on the vote calls between their check and their insert
  NoRequest   \* resolving.request when no resolve call is under way

ASSUME ApprovalAssumption ==
  /\ Quorums \subseteq Nat \ {0}
  /\ RequestTtl \in Nat \ {0}
  /\ MaxTime \in Nat
  /\ MaxCasting \in Nat
  /\ NoRequest \notin Request
  /\ IsFiniteSet(Principal)

VARIABLES
  requests,  \* the rows of approval_requests that exist, by id
  votes,     \* the committed rows of approval_votes
  casting,   \* votes whose call has passed its checks and not yet inserted
  resolving, \* the resolve call under way and the voters it has counted;
             \* vetoed is history: a quorum had rejected when it began
  now        \* datetime.now(UTC)

vars == <<requests, votes, casting, resolving, now>>

Decision == {"APPROVE", "REJECT"}
Status == {"PENDING", "APPROVED", "REJECTED", "INVALIDATED"}
RequestRow == [requester: Principal, status: Status, quorum: Quorums, expires: Nat]
Vote == [request: Request, voter: Principal, decision: Decision]
Phase == {"none", "approvals", "rejections"}

TypeOK ==
  /\ \E R \in SUBSET Request : requests \in [R -> RequestRow]
  /\ votes \subseteq Vote
  /\ casting \subseteq Vote
  /\ resolving \in [request: Request \cup {NoRequest}, phase: Phase,
                    approvers: SUBSET Principal, rejecters: SUBSET Principal,
                    vetoed: BOOLEAN]
  /\ resolving.phase = "none" <=> resolving.request = NoRequest
  /\ resolving.phase # "none" => resolving.request \in DOMAIN requests
  /\ now \in Nat

-----------------------------------------------------------------------------
IsPending(r) == r \in DOMAIN requests /\ requests[r].status = "PENDING"

\* count_votes counts these rows; the unique constraint on request and voter
\* makes the number of rows the number of voters.
Voters(r, d) == {p \in Principal : [request |-> r, voter |-> p, decision |-> d] \in votes}

HasVoted(r, p) == \E v \in votes : v.request = r /\ v.voter = p

SetStatus(r, status) == requests' = [requests EXCEPT ![r].status = status]

Rejected(r) == Cardinality(Voters(r, "REJECT")) >= requests[r].quorum

Idle == [request |-> NoRequest, phase |-> "none", approvers |-> {},
         rejecters |-> {}, vetoed |-> FALSE]

Counting(r) == [request |-> r, phase |-> "approvals",
                approvers |-> Voters(r, "APPROVE"), rejecters |-> {},
                vetoed |-> Rejected(r)]

\* create_request.
CreateRequest(r, p, quorum) ==
  /\ r \notin DOMAIN requests
  /\ requests' = [q \in DOMAIN requests \cup {r} |->
                    IF q = r THEN [requester |-> p, status |-> "PENDING",
                                   quorum |-> quorum, expires |-> now + RequestTtl]
                    ELSE requests[q]]
  /\ UNCHANGED <<votes, casting, resolving, now>>

-----------------------------------------------------------------------------
\* Faulty variants, one per property below, that no run of this module uses.

\* The self-approval check is missing.
CheckVoteOfAnyone(r, p, d) ==
  /\ IsPending(r)
  /\ requests[r].expires > now
  /\ ~HasVoted(r, p)
  /\ Cardinality(casting) < MaxCasting
  /\ casting' = casting \cup {[request |-> r, voter |-> p, decision |-> d]}
  /\ UNCHANGED <<requests, votes, resolving, now>>

\* The table has no unique constraint and the check is trusted.
InsertUnconstrained(v) ==
  /\ v \in casting
  /\ votes' = votes \cup {v}
  /\ casting' = casting \ {v}
  /\ UNCHANGED <<requests, resolving, now>>

\* An already decided request is counted again.
BeginResolveDecided(r) ==
  /\ resolving = Idle
  /\ r \in DOMAIN requests
  /\ resolving' = Counting(r)
  /\ UNCHANGED <<requests, votes, casting, now>>

\* Approvals are weighed before rejections.
DecideApprovalFirst(r) ==
  /\ resolving.request = r
  /\ resolving.phase = "rejections"
  /\ IF Cardinality(resolving.approvers) >= requests[r].quorum THEN SetStatus(r, "APPROVED")
     ELSE IF Cardinality(resolving.rejecters) >= requests[r].quorum THEN SetStatus(r, "REJECTED")
     ELSE UNCHANGED requests
  /\ resolving' = Idle
  /\ UNCHANGED <<votes, casting, now>>

\* A call that failed is not cleaned up after.
FailResolveHalfway ==
  /\ resolving # Idle
  /\ resolving' = [resolving EXCEPT !.phase = "none"]
  /\ UNCHANGED <<requests, votes, casting, now>>

-----------------------------------------------------------------------------
\* cast_vote up to the insert: the request is pending and not expired, the
\* voter is not the requester and has no vote yet.  Every other case raises or
\* is answered 409, and the rollback of the route undoes the EXPIRED mark.
CheckVote(r, p, d) ==
  /\ IsPending(r)
  /\ requests[r].expires > now
  /\ requests[r].requester # p
  /\ ~HasVoted(r, p)
  /\ Cardinality(casting) < MaxCasting
  /\ casting' = casting \cup {[request |-> r, voter |-> p, decision |-> d]}
  /\ UNCHANGED <<requests, votes, resolving, now>>

\* The INSERT and the commit of the route; uq_one_vote_per_voter holds.
InsertVote(v) ==
  /\ v \in casting
  /\ ~HasVoted(v.request, v.voter)
  /\ votes' = votes \cup {v}
  /\ casting' = casting \ {v}
  /\ UNCHANGED <<requests, resolving, now>>

\* The INSERT fails: a second vote of this voter, or "database is locked".
LoseVote(v) ==
  /\ v \in casting
  /\ casting' = casting \ {v}
  /\ UNCHANGED <<requests, votes, resolving, now>>

\* resolve, first statements: only a pending request is counted; its expiry is
\* not looked at.
BeginResolve(r) ==
  /\ resolving = Idle
  /\ IsPending(r)
  /\ resolving' = Counting(r)
  /\ UNCHANGED <<requests, votes, casting, now>>

CountRejections(r) ==
  /\ resolving.request = r
  /\ resolving.phase = "approvals"
  /\ resolving' = [resolving EXCEPT !.phase = "rejections",
                                    !.rejecters = Voters(r, "REJECT")]
  /\ UNCHANGED <<requests, votes, casting, now>>

\* resolve, the decision: rejections are weighed first.
Decide(r) ==
  /\ resolving.request = r
  /\ resolving.phase = "rejections"
  /\ IF Cardinality(resolving.rejecters) >= requests[r].quorum THEN SetStatus(r, "REJECTED")
     ELSE IF Cardinality(resolving.approvers) >= requests[r].quorum THEN SetStatus(r, "APPROVED")
     ELSE UNCHANGED requests
  /\ resolving' = Idle
  /\ UNCHANGED <<votes, casting, now>>

\* The UPDATE or the commit fails: the route answers 500 and rolls back.
FailResolve ==
  /\ resolving # Idle
  /\ resolving' = Idle
  /\ UNCHANGED <<requests, votes, casting, now>>

\* invalidate_if_stale, when the digests or the arguments have changed.
InvalidateIfStale(r) ==
  /\ resolving = Idle
  /\ IsPending(r)
  /\ SetStatus(r, "INVALIDATED")
  /\ UNCHANGED <<votes, casting, resolving, now>>

Tick ==
  /\ now < MaxTime
  /\ now' = now + 1
  /\ UNCHANGED <<requests, votes, casting, resolving>>

Init ==
  /\ requests = [r \in {} |-> Idle]
  /\ votes = {}
  /\ casting = {}
  /\ resolving = Idle
  /\ now = 0

Next ==
  \/ \E r \in Request, p \in Principal, q \in Quorums : CreateRequest(r, p, q)
  \/ \E r \in Request, p \in Principal, d \in Decision : CheckVote(r, p, d)
  \/ \E v \in casting : InsertVote(v) \/ LoseVote(v)
  \/ \E r \in Request : BeginResolve(r) \/ CountRejections(r) \/ Decide(r)
  \/ FailResolve
  \/ \E r \in Request : InvalidateIfStale(r)
  \/ Tick

Spec == Init /\ [][Next]_vars

\* For TLC: no definition tells two principals or two requests apart.
Symmetry == Permutations(Principal) \cup Permutations(Request)

-----------------------------------------------------------------------------
(* Properties *)

\* A request is approved only on the votes of a quorum of distinct principals
\* none of whom is the requester, whatever votes raced with the resolution
\* ("requester == voter is forbidden, even with quorum=1").
ApprovedByOthers ==
  \A r \in DOMAIN requests :
    requests[r].status = "APPROVED" =>
      Cardinality(Voters(r, "APPROVE") \ {requests[r].requester}) >= requests[r].quorum

\* Nobody is counted on both sides or twice, although the check and the insert
\* of a vote are two steps ("Each voter can only vote once").
OneVotePerVoter ==
  \A v, w \in votes :
    v.request = w.request /\ v.voter = w.voter => v = w

\* A decision is never taken back, by a late vote or by a second resolve
\* ("calling it multiple times is safe").
DecisionIsFinal ==
  [][\A r \in DOMAIN requests :
       /\ r \in DOMAIN requests'
       /\ requests'[r].requester = requests[r].requester
       /\ requests[r].status # "PENDING" => requests'[r] = requests[r]]_vars

\* Once a quorum has rejected, no resolve call that begins later approves the
\* request, however many approvals arrive while it counts.
RejectionPrevails ==
  [][\A r \in DOMAIN requests :
       /\ requests[r].status = "PENDING"
       /\ resolving.request = r
       /\ resolving.vetoed
       => requests'[r].status # "APPROVED"]_vars
=============================================================================
