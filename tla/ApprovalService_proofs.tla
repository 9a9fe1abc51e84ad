----------------------- MODULE ApprovalService_proofs -----------------------
(***************************************************************************)
(* The safety properties of ApprovalService hold for any requests,         *)
(* principals, quorums and bounds, with any number of votes in flight.     *)
(*                                                                         *)
(* The inductive invariant adds to them that no vote, cast or in flight,   *)
(* is the requester's own (VotesAreOfOthers), that the request being       *)
(* resolved is still pending (ResolvesPending), that what the resolve call *)
(* has counted is in the table (CountIsCommitted), and that a rejection    *)
(* that was there when it began is among what it counts (VetoIsCounted).   *)
(***************************************************************************)
EXTENDS ApprovalService, FiniteSetTheorems, TLAPS

VotesAreOfOthers ==
  \A v \in votes \cup casting :
    v.request \in DOMAIN requests /\ v.voter # requests[v.request].requester

ResolvesPending == resolving.phase # "none" => IsPending(resolving.request)

CountIsCommitted ==
  /\ resolving.approvers \subseteq Voters(resolving.request, "APPROVE")
  /\ resolving.rejecters \subseteq Voters(resolving.request, "REJECT")

VetoIsCounted ==
  resolving.phase # "none" /\ resolving.vetoed =>
    /\ Rejected(resolving.request)
    /\ resolving.phase = "rejections" =>
         Cardinality(resolving.rejecters) >= requests[resolving.request].quorum

IInv ==
  /\ TypeOK
  /\ OneVotePerVoter
  /\ VotesAreOfOthers
  /\ ResolvesPending
  /\ CountIsCommitted
  /\ VetoIsCounted
  /\ ApprovedByOthers

-----------------------------------------------------------------------------
(* Lemmas *)

\* The table of requests as a function, and what its rows are.
LEMMA RequestTable ==
  ASSUME TypeOK
  PROVE  /\ requests \in [DOMAIN requests -> RequestRow]
         /\ DOMAIN requests \subseteq Request
         /\ \A r \in DOMAIN requests :
              requests[r] \in RequestRow /\ requests[r].quorum \in Nat
<1>1. PICK R \in SUBSET Request : requests \in [R -> RequestRow]
  BY DEF TypeOK
<1>2. requests \in [DOMAIN requests -> RequestRow] /\ DOMAIN requests \subseteq Request
  BY <1>1
<1> QED
  BY <1>2, ApprovalAssumption DEF RequestRow

\* A rewritten row of the same type leaves a table of requests.
LEMMA SetStatusLemma ==
  ASSUME TypeOK, NEW r \in DOMAIN requests, NEW st \in Status, SetStatus(r, st)
  PROVE  /\ \E R \in SUBSET Request : requests' \in [R -> RequestRow]
         /\ DOMAIN requests' = DOMAIN requests
         /\ requests'[r].status = st
         /\ \A q \in DOMAIN requests :
              /\ requests'[q].requester = requests[q].requester
              /\ requests'[q].quorum = requests[q].quorum
              /\ q # r => requests'[q] = requests[q]
<1> DEFINE row == [requests[r] EXCEPT !.status = st]
<1>1. requests[r] \in RequestRow
  BY RequestTable
<1>2. /\ row \in RequestRow
      /\ row.status = st
      /\ row.requester = requests[r].requester
      /\ row.quorum = requests[r].quorum
  BY <1>1 DEF RequestRow
<1>3. requests' = [requests EXCEPT ![r] = row]
  BY DEF SetStatus
<1> HIDE DEF row
<1>4. requests' \in [DOMAIN requests -> RequestRow] /\ DOMAIN requests \subseteq Request
  BY <1>2, <1>3, RequestTable
<1> QED
  BY <1>2, <1>3, <1>4, RequestTable

\* Whoever is counted is a principal, so every count is of a finite set.
LEMMA CountLemma ==
  ASSUME NEW r, NEW d, NEW S \in SUBSET Voters(r, d)
  PROVE  /\ IsFiniteSet(Voters(r, d)) /\ Cardinality(Voters(r, d)) \in Nat
         /\ IsFiniteSet(S) /\ Cardinality(S) \in Nat
         /\ Cardinality(S) <= Cardinality(Voters(r, d))
<1>1. Voters(r, d) \subseteq Principal
  BY DEF Voters
<1>2. IsFiniteSet(Voters(r, d))
  BY <1>1, ApprovalAssumption, FS_Subset
<1> QED
  BY <1>2, FS_Subset, FS_CardinalityType

-----------------------------------------------------------------------------
(* Steps that decide nothing *)

\* Votes are only added, in flight or in the table, by others than the
\* requester; the rows that exist and the call of resolve are left alone.
Undecided ==
  /\ UNCHANGED resolving
  /\ votes \subseteq votes'
  /\ votes' \subseteq votes \cup casting
  /\ DOMAIN requests \subseteq DOMAIN requests'
  /\ \A r \in DOMAIN requests : requests'[r] = requests[r]
  /\ \A r \in DOMAIN requests' \ DOMAIN requests : requests'[r].status = "PENDING"

\* Such a step can disturb only the types, the votes in flight and the one vote
\* of each voter.
LEMMA UndecidedLemma ==
  ASSUME IInv, Undecided
  PROVE  /\ ResolvesPending' /\ CountIsCommitted' /\ VetoIsCounted' /\ ApprovedByOthers'
         /\ \A v \in votes' :
              v.request \in DOMAIN requests' /\ v.voter # requests'[v.request].requester
<1> USE DEF Undecided
<1>1. \A r, d : Voters(r, d) \subseteq Voters(r, d)'
  BY DEF Voters
<1>2. \A r, d : /\ IsFiniteSet(Voters(r, d)')
                /\ Cardinality(Voters(r, d)) <= Cardinality(Voters(r, d)')
                /\ Cardinality(Voters(r, d)) \in Nat
                /\ Cardinality(Voters(r, d)') \in Nat
  <2> SUFFICES ASSUME NEW r, NEW d
               PROVE  /\ IsFiniteSet(Voters(r, d)')
                      /\ Cardinality(Voters(r, d)) <= Cardinality(Voters(r, d)')
                      /\ Cardinality(Voters(r, d)) \in Nat
                      /\ Cardinality(Voters(r, d)') \in Nat
    OBVIOUS
  <2>1. Voters(r, d)' \subseteq Principal
    BY DEF Voters
  <2>2. IsFiniteSet(Voters(r, d)')
    BY <2>1, ApprovalAssumption, FS_Subset
  <2> QED
    BY <1>1, <2>2, FS_Subset, FS_CardinalityType
<1>3. ResolvesPending'
  BY DEF IInv, ResolvesPending, IsPending
<1>4. CountIsCommitted'
  BY <1>1 DEF IInv, CountIsCommitted
<1>5. VetoIsCounted'
  <2> SUFFICES ASSUME resolving.phase # "none", resolving.vetoed
               PROVE  /\ Rejected(resolving.request)'
                      /\ resolving.phase = "rejections" =>
                           Cardinality(resolving.rejecters)
                             >= requests'[resolving.request].quorum
    BY DEF VetoIsCounted
  <2>1. /\ resolving.request \in DOMAIN requests
        /\ requests[resolving.request].quorum \in Nat
        /\ requests'[resolving.request] = requests[resolving.request]
    BY RequestTable DEF IInv, TypeOK
  <2>2. Cardinality(Voters(resolving.request, "REJECT"))
          >= requests[resolving.request].quorum
    BY DEF IInv, VetoIsCounted, Rejected
  <2>3. Rejected(resolving.request)'
    BY <1>2, <2>1, <2>2 DEF Rejected
  <2> QED
    BY <2>1, <2>3 DEF IInv, VetoIsCounted
<1>6. ApprovedByOthers'
  <2> SUFFICES ASSUME NEW r \in DOMAIN requests', requests'[r].status = "APPROVED"
               PROVE  Cardinality(Voters(r, "APPROVE")' \ {requests'[r].requester})
                        >= requests'[r].quorum
    BY DEF ApprovedByOthers
  <2> DEFINE old == Voters(r, "APPROVE") \ {requests[r].requester}
             new == Voters(r, "APPROVE")' \ {requests[r].requester}
  <2>1. r \in DOMAIN requests /\ requests'[r] = requests[r] /\ requests[r].quorum \in Nat
    BY RequestTable DEF IInv
  <2>2. Cardinality(old) >= requests[r].quorum
    BY <2>1 DEF IInv, ApprovedByOthers
  <2>3. IsFiniteSet(new) /\ old \subseteq new
    BY <1>1, <1>2, FS_Subset
  <2>4. Cardinality(old) <= Cardinality(new) /\ Cardinality(old) \in Nat
        /\ Cardinality(new) \in Nat
    BY <2>3, FS_Subset, FS_CardinalityType
  <2> QED
    BY <2>1, <2>2, <2>4
<1>7. ASSUME NEW v \in votes'
      PROVE  v.request \in DOMAIN requests' /\ v.voter # requests'[v.request].requester
  BY <1>7 DEF IInv, VotesAreOfOthers
<1> QED
  BY <1>3, <1>4, <1>5, <1>6, <1>7

\* create_request.
LEMMA CreateStep ==
  ASSUME IInv, NEW r \in Request, NEW p \in Principal, NEW q \in Quorums,
         CreateRequest(r, p, q)
  PROVE  IInv'
<1> DEFINE row == [requester |-> p, status |-> "PENDING", quorum |-> q,
                   expires |-> now + RequestTtl]
<1>1. row \in RequestRow
  BY ApprovalAssumption DEF IInv, TypeOK, RequestRow, Status
<1>2. /\ DOMAIN requests' = DOMAIN requests \cup {r}
      /\ requests'[r] = row
      /\ \A s \in DOMAIN requests : s # r /\ requests'[s] = requests[s]
  BY DEF CreateRequest
<1>3. row.status = "PENDING"
  OBVIOUS
<1> HIDE DEF row
<1>4. requests' \in [DOMAIN requests \cup {r} -> RequestRow]
      /\ DOMAIN requests \cup {r} \subseteq Request
  BY <1>1, <1>2, RequestTable DEF IInv, CreateRequest
<1>5. TypeOK'
  BY <1>4 DEF IInv, TypeOK, CreateRequest
<1>6. Undecided
  BY <1>2, <1>3 DEF Undecided, CreateRequest
<1>7. OneVotePerVoter'
  BY DEF IInv, OneVotePerVoter, CreateRequest
<1>8. VotesAreOfOthers'
  BY <1>2 DEF IInv, VotesAreOfOthers, CreateRequest
<1> QED
  BY <1>5, <1>6, <1>7, <1>8, UndecidedLemma DEF IInv

\* cast_vote up to its insert.
LEMMA CheckVoteStep ==
  ASSUME IInv, NEW r \in Request, NEW p \in Principal, NEW d \in Decision,
         CheckVote(r, p, d)
  PROVE  IInv'
<1> DEFINE v == [request |-> r, voter |-> p, decision |-> d]
<1>1. v \in Vote /\ v.request = r /\ v.voter = p
  BY DEF Vote
<1>2. casting' = casting \cup {v} /\ UNCHANGED <<requests, votes, resolving, now>>
  BY DEF CheckVote
<1>3. r \in DOMAIN requests /\ p # requests[r].requester
  BY DEF CheckVote, IsPending
<1> HIDE DEF v
<1>4. TypeOK'
  BY <1>1, <1>2 DEF IInv, TypeOK
<1>5. Undecided
  BY <1>2 DEF Undecided
<1>6. OneVotePerVoter'
  BY <1>2 DEF IInv, OneVotePerVoter
<1>7. VotesAreOfOthers'
  BY <1>1, <1>2, <1>3 DEF IInv, VotesAreOfOthers
<1> QED
  BY <1>4, <1>5, <1>6, <1>7, UndecidedLemma DEF IInv

\* The INSERT of a vote, which the unique constraint guards.
LEMMA InsertVoteStep ==
  ASSUME IInv, NEW v \in casting, InsertVote(v)
  PROVE  IInv'
<1> USE DEF InsertVote
<1>1. TypeOK'
  BY DEF IInv, TypeOK
<1>2. Undecided
  BY DEF Undecided
<1>3. OneVotePerVoter'
  BY DEF IInv, OneVotePerVoter, HasVoted
<1>4. VotesAreOfOthers'
  BY DEF IInv, VotesAreOfOthers
<1> QED
  BY <1>1, <1>2, <1>3, <1>4, UndecidedLemma DEF IInv

\* The INSERT that fails, and the clock.
LEMMA LoseVoteStep ==
  ASSUME IInv, (\E v \in casting : LoseVote(v)) \/ Tick
  PROVE  IInv'
<1> USE DEF LoseVote, Tick
<1>1. TypeOK'
  BY DEF IInv, TypeOK
<1>2. Undecided
  BY DEF Undecided
<1>3. OneVotePerVoter' /\ VotesAreOfOthers'
  BY DEF IInv, OneVotePerVoter, VotesAreOfOthers
<1> QED
  BY <1>1, <1>2, <1>3, UndecidedLemma DEF IInv

-----------------------------------------------------------------------------
(* Steps of the resolve call *)

\* What a step that leaves the votes alone keeps of the votes, as long as the
\* requests keep their requesters.
LEMMA SameVotesLemma ==
  ASSUME IInv, UNCHANGED <<votes, casting>>, DOMAIN requests' = DOMAIN requests,
         \A r \in DOMAIN requests : requests'[r].requester = requests[r].requester
  PROVE  OneVotePerVoter' /\ VotesAreOfOthers' /\ \A r, d : Voters(r, d)' = Voters(r, d)
BY DEF IInv, OneVotePerVoter, VotesAreOfOthers, Voters

\* resolve counts the approvals of a pending request.
LEMMA BeginResolveStep ==
  ASSUME IInv, NEW r \in Request, BeginResolve(r)
  PROVE  IInv'
<1> USE DEF BeginResolve
<1>1. /\ r \in DOMAIN requests /\ requests[r].status = "PENDING"
      /\ UNCHANGED <<requests, votes, casting, now>>
  BY DEF IsPending
<1>2. /\ resolving'.request = r /\ resolving'.phase = "approvals"
      /\ resolving'.approvers = Voters(r, "APPROVE") /\ resolving'.rejecters = {}
      /\ resolving'.vetoed = Rejected(r)
  BY DEF Counting
<1>3. TypeOK'
  <2>1. resolving' \in [request: Request \cup {NoRequest}, phase: Phase,
                        approvers: SUBSET Principal, rejecters: SUBSET Principal,
                        vetoed: BOOLEAN]
    BY DEF Counting, Phase, Voters, Rejected
  <2> QED
    BY <1>1, <1>2, <2>1, ApprovalAssumption DEF IInv, TypeOK
<1>4. OneVotePerVoter' /\ VotesAreOfOthers' /\ \A s, d : Voters(s, d)' = Voters(s, d)
  BY <1>1, SameVotesLemma
<1>5. ResolvesPending'
  BY <1>1, <1>2 DEF ResolvesPending, IsPending
<1>6. CountIsCommitted'
  BY <1>2, <1>4 DEF CountIsCommitted
<1>7. VetoIsCounted'
  BY <1>1, <1>2, <1>4 DEF VetoIsCounted, Rejected
<1>8. ApprovedByOthers'
  BY <1>1, <1>4 DEF IInv, ApprovedByOthers
<1> QED
  BY <1>3, <1>4, <1>5, <1>6, <1>7, <1>8 DEF IInv

\* The second count sees every rejection there was when the call began.
LEMMA CountRejectionsStep ==
  ASSUME IInv, NEW r \in Request, CountRejections(r)
  PROVE  IInv'
<1> USE DEF CountRejections
<1>1. /\ UNCHANGED <<requests, votes, casting, now>>
      /\ resolving.request = r /\ resolving.phase = "approvals"
  OBVIOUS
<1>2. /\ resolving'.request = r /\ resolving'.phase = "rejections"
      /\ resolving'.approvers = resolving.approvers
      /\ resolving'.rejecters = Voters(r, "REJECT")
      /\ resolving'.vetoed = resolving.vetoed
  BY DEF IInv, TypeOK
<1>3. TypeOK'
  <2>1. resolving' \in [request: Request \cup {NoRequest}, phase: Phase,
                        approvers: SUBSET Principal, rejecters: SUBSET Principal,
                        vetoed: BOOLEAN]
    BY DEF IInv, TypeOK, Phase, Voters
  <2> QED
    BY <1>1, <1>2, <2>1 DEF IInv, TypeOK
<1>4. OneVotePerVoter' /\ VotesAreOfOthers' /\ \A s, d : Voters(s, d)' = Voters(s, d)
  BY <1>1, SameVotesLemma
<1>5. ResolvesPending'
  BY <1>1, <1>2 DEF IInv, ResolvesPending, IsPending
<1>6. CountIsCommitted'
  BY <1>1, <1>2, <1>4 DEF IInv, CountIsCommitted
<1>7. VetoIsCounted'
  BY <1>1, <1>2, <1>4 DEF IInv, VetoIsCounted, Rejected
<1>8. ApprovedByOthers'
  BY <1>1, <1>4 DEF IInv, ApprovedByOthers
<1> QED
  BY <1>3, <1>4, <1>5, <1>6, <1>7, <1>8 DEF IInv

\* No call of resolve is under way.
LEMMA IdleLemma ==
  ASSUME TypeOK
  PROVE  /\ Idle.phase = "none" /\ Idle.approvers = {} /\ Idle.rejecters = {}
         /\ Idle.request = NoRequest
         /\ Idle \in [request: Request \cup {NoRequest}, phase: Phase,
                      approvers: SUBSET Principal, rejecters: SUBSET Principal,
                      vetoed: BOOLEAN]
BY DEF Idle, Phase

\* What is left to show of a step after which no call of resolve is under way.
LEMMA BecomesIdle ==
  ASSUME IInv, resolving' = Idle, UNCHANGED <<votes, casting, now>>,
         \E R \in SUBSET Request : requests' \in [R -> RequestRow],
         DOMAIN requests' = DOMAIN requests,
         \A r \in DOMAIN requests : requests'[r].requester = requests[r].requester,
         ApprovedByOthers'
  PROVE  IInv'
<1>1. TypeOK'
  BY IdleLemma DEF IInv, TypeOK
<1>2. ResolvesPending' /\ CountIsCommitted' /\ VetoIsCounted'
  BY IdleLemma DEF IInv, ResolvesPending, CountIsCommitted, VetoIsCounted
<1> QED
  BY <1>1, <1>2, SameVotesLemma DEF IInv

\* The decision: APPROVED only on a quorum of approvals of others.
LEMMA DecideStep ==
  ASSUME IInv, NEW r \in Request, Decide(r)
  PROVE  IInv'
<1>1. /\ resolving.request = r /\ resolving.phase = "rejections"
      /\ resolving' = Idle /\ UNCHANGED <<votes, casting, now>>
      /\ r \in DOMAIN requests
      /\ TypeOK
  BY DEF Decide, IInv, TypeOK
<1>2. CASE SetStatus(r, "REJECTED")
  <2>1. ApprovedByOthers'
    BY <1>1, <1>2, SetStatusLemma, SameVotesLemma DEF IInv, ApprovedByOthers, Status
  <2> QED
    BY <1>1, <1>2, <2>1, SetStatusLemma, BecomesIdle DEF Status
<1>3. CASE /\ SetStatus(r, "APPROVED")
           /\ Cardinality(resolving.approvers) >= requests[r].quorum
  <2> DEFINE others == Voters(r, "APPROVE") \ {requests[r].requester}
  <2>1. resolving.approvers \subseteq Voters(r, "APPROVE")
    BY <1>1 DEF IInv, CountIsCommitted
  <2>2. requests[r].requester \notin Voters(r, "APPROVE")
    BY DEF Voters, IInv, VotesAreOfOthers
  <2>3. others = Voters(r, "APPROVE")
    BY <2>2
  <2>4. /\ requests[r].quorum \in Nat
        /\ Cardinality(resolving.approvers) \in Nat
        /\ Cardinality(Voters(r, "APPROVE")) \in Nat
        /\ Cardinality(resolving.approvers) <= Cardinality(Voters(r, "APPROVE"))
    BY <1>1, <2>1, CountLemma, RequestTable
  <2>5. Cardinality(others) >= requests[r].quorum
    BY <1>3, <2>3, <2>4
  <2>6. \A s, d : Voters(s, d)' = Voters(s, d)
    BY <1>1 DEF Voters
  <2> HIDE DEF others
  <2>7. ApprovedByOthers'
    BY <1>1, <1>3, <2>5, <2>6, SetStatusLemma DEF IInv, ApprovedByOthers, Status, others
  <2> QED
    BY <1>1, <1>3, <2>7, SetStatusLemma, BecomesIdle DEF Status
<1>4. CASE UNCHANGED requests
  <2>1. ApprovedByOthers'
    BY <1>1, <1>4, SameVotesLemma DEF IInv, ApprovedByOthers
  <2> QED
    BY <1>1, <1>4, <2>1, BecomesIdle DEF TypeOK
<1> QED
  BY <1>2, <1>3, <1>4 DEF Decide

\* A call of resolve that fails, and invalidate_if_stale.
LEMMA FailResolveStep ==
  ASSUME IInv, FailResolve
  PROVE  IInv'
<1>1. ApprovedByOthers'
  BY SameVotesLemma DEF FailResolve, IInv, ApprovedByOthers
<1> QED
  BY <1>1, BecomesIdle DEF FailResolve, IInv, TypeOK

LEMMA InvalidateStep ==
  ASSUME IInv, NEW r \in Request, InvalidateIfStale(r)
  PROVE  IInv'
<1>1. /\ r \in DOMAIN requests /\ SetStatus(r, "INVALIDATED")
      /\ resolving' = Idle /\ UNCHANGED <<votes, casting, now>> /\ TypeOK
  BY DEF InvalidateIfStale, IsPending, IInv
<1>2. ApprovedByOthers'
  BY <1>1, SetStatusLemma, SameVotesLemma DEF IInv, ApprovedByOthers, Status
<1> QED
  BY <1>1, <1>2, SetStatusLemma, BecomesIdle DEF Status

LEMMA StutterStep ==
  ASSUME IInv, UNCHANGED vars
  PROVE  IInv'
<1>1. TypeOK'
  BY DEF IInv, TypeOK, vars
<1>2. Undecided
  BY DEF Undecided, vars
<1>3. OneVotePerVoter' /\ VotesAreOfOthers'
  BY DEF IInv, OneVotePerVoter, VotesAreOfOthers, vars
<1> QED
  BY <1>1, <1>2, <1>3, UndecidedLemma DEF IInv

-----------------------------------------------------------------------------
(* The invariant *)

LEMMA InitIInv == Init => IInv
<1> SUFFICES ASSUME Init PROVE IInv
  OBVIOUS
<1> USE DEF Init
<1>1. DOMAIN requests = {} /\ resolving = Idle
  OBVIOUS
<1>2. requests \in [{} -> RequestRow]
  OBVIOUS
<1>3. TypeOK
  BY <1>2 DEF TypeOK, Idle, Phase
<1>4. CountIsCommitted /\ VetoIsCounted /\ ResolvesPending
  BY DEF CountIsCommitted, VetoIsCounted, ResolvesPending, Idle
<1> QED
  BY <1>1, <1>3, <1>4 DEF IInv, OneVotePerVoter, VotesAreOfOthers, ApprovedByOthers

LEMMA NextIInv == IInv /\ [Next]_vars => IInv'
BY CreateStep, CheckVoteStep, InsertVoteStep, LoseVoteStep, BeginResolveStep,
   CountRejectionsStep, DecideStep, FailResolveStep, InvalidateStep, StutterStep
   DEF Next

LEMMA IInvAlways == Spec => []IInv
BY InitIInv, NextIInv, PTL DEF Spec

-----------------------------------------------------------------------------
(* Theorems *)

\* The tables, the votes in flight and the resolve call keep their types.
THEOREM TypeCorrect == Spec => []TypeOK
<1>1. IInv => TypeOK
  BY DEF IInv
<1> QED
  BY <1>1, IInvAlways, PTL

\* resolve approves a request only on the votes of a quorum of principals other
\* than the requester, for any number of racing votes.
THEOREM ApprovalsAreOfOthers == Spec => []ApprovedByOthers
<1>1. IInv => ApprovedByOthers
  BY DEF IInv
<1> QED
  BY <1>1, IInvAlways, PTL

\* cast_vote's check and insert are two steps, and still nobody votes twice.
THEOREM VotersVoteOnce == Spec => []OneVotePerVoter
<1>1. IInv => OneVotePerVoter
  BY DEF IInv
<1> QED
  BY <1>1, IInvAlways, PTL

\* What a step may do to the row of a request: it stays with its requester, and
\* only a pending one changes; the row being resolved is decided by Decide only.
LEMMA RowsLemma ==
  ASSUME IInv, Next, NEW r \in DOMAIN requests
  PROVE  /\ r \in DOMAIN requests'
         /\ requests'[r].requester = requests[r].requester
         /\ requests[r].status # "PENDING" => requests'[r] = requests[r]
         /\ requests'[r].status = "APPROVED" /\ requests[r].status # "APPROVED" =>
              /\ Cardinality(resolving.approvers) >= requests[r].quorum
              /\ ~(Cardinality(resolving.rejecters) >= requests[r].quorum)
              /\ resolving.request = r /\ resolving.phase = "rejections"
<1> DEFINE Goal == /\ r \in DOMAIN requests'
                   /\ requests'[r].requester = requests[r].requester
                   /\ requests[r].status # "PENDING" => requests'[r] = requests[r]
                   /\ requests'[r].status = "APPROVED" /\ requests[r].status # "APPROVED" =>
                        /\ Cardinality(resolving.approvers) >= requests[r].quorum
                        /\ ~(Cardinality(resolving.rejecters) >= requests[r].quorum)
                        /\ resolving.request = r /\ resolving.phase = "rejections"
<1>1. CASE UNCHANGED requests
  BY <1>1
<1>2. ASSUME NEW q \in Request, NEW p \in Principal, NEW n \in Quorums,
             CreateRequest(q, p, n)
      PROVE  Goal
  BY <1>2 DEF CreateRequest
<1>3. ASSUME NEW q \in Request, Decide(q)
      PROVE  Goal
  <2>1. q \in DOMAIN requests /\ requests[q].status = "PENDING" /\ TypeOK
    BY <1>3 DEF Decide, IInv, ResolvesPending, IsPending
  <2>2. CASE SetStatus(q, "REJECTED")
    BY <2>1, <2>2, SetStatusLemma DEF Status
  <2>3. CASE /\ SetStatus(q, "APPROVED")
             /\ Cardinality(resolving.approvers) >= requests[q].quorum
             /\ ~(Cardinality(resolving.rejecters) >= requests[q].quorum)
    BY <1>3, <2>1, <2>3, SetStatusLemma DEF Status, Decide
  <2> QED
    BY <1>1, <1>3, <2>2, <2>3 DEF Decide
<1>4. ASSUME NEW q \in Request, InvalidateIfStale(q)
      PROVE  Goal
  BY <1>4, SetStatusLemma DEF InvalidateIfStale, IsPending, Status, IInv
<1> QED
  BY <1>1, <1>2, <1>3, <1>4
     DEF Next, CheckVote, InsertVote, LoseVote, BeginResolve, CountRejections,
         FailResolve, Tick

\* A decided request keeps its row, whatever votes and resolve calls come later.
THEOREM DecisionsAreFinal == Spec => DecisionIsFinal
<1> DEFINE Final ==
      \A r \in DOMAIN requests :
        /\ r \in DOMAIN requests'
        /\ requests'[r].requester = requests[r].requester
        /\ requests[r].status # "PENDING" => requests'[r] = requests[r]
<1>1. IInv /\ [Next]_vars => [Final]_vars
  BY RowsLemma
<1> QED
  BY <1>1, IInvAlways, PTL DEF Spec, DecisionIsFinal

\* A resolve call that began when a quorum had rejected does not approve.
THEOREM RejectionsPrevail == Spec => RejectionPrevails
<1> DEFINE Prevails ==
      \A r \in DOMAIN requests :
        /\ requests[r].status = "PENDING"
        /\ resolving.request = r
        /\ resolving.vetoed
        => requests'[r].status # "APPROVED"
<1>1. IInv /\ [Next]_vars => [Prevails]_vars
  <2> SUFFICES ASSUME IInv, Next, NEW r \in DOMAIN requests,
                      requests[r].status = "PENDING", resolving.request = r,
                      resolving.vetoed, requests'[r].status = "APPROVED"
               PROVE  FALSE
    OBVIOUS
  <2>1. /\ resolving.phase = "rejections"
        /\ ~(Cardinality(resolving.rejecters) >= requests[r].quorum)
    BY RowsLemma
  <2> QED
    BY <2>1 DEF IInv, VetoIsCounted
<1> QED
  BY <1>1, IInvAlways, PTL DEF Spec, RejectionPrevails
=============================================================================
