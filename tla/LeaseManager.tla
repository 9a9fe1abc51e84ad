---------------------------- MODULE LeaseManager ----------------------------
(***************************************************************************)
(* The leases table and its only writer, packages/execution/lease_manager: *)
(* acquire, heartbeat, release, expire_stale and is_valid, with the        *)
(* repository calls (lease_repo) each of them makes.                       *)
(*                                                                         *)
(* A lease id is the row's position in the table: rows are appended and    *)
(* never deleted.  One transaction is one step.  The orchestrator calls    *)
(* acquire after it has inserted a grant, so the transaction already holds *)
(* SQLite's single write lock and no other acquire can run in between.     *)
(***************************************************************************)
EXTENDS Integers, Sequences

CONSTANTS
  Worker,          \* worker ids ("executor-<task id>" in the orchestrator)
  Step,            \* step-run ids, of one tenant
  LeaseTtl,        \* _DEFAULT_LEASE_TTL, in ticks
  HeartbeatExtend, \* _HEARTBEAT_EXTEND, in ticks
  MaxLeases,       \* bound on the table
  MaxTime          \* bound on the clock

ASSUME TtlAssumption ==
  /\ LeaseTtl \in Nat \ {0}
  /\ HeartbeatExtend \in Nat \ {0}
  /\ MaxLeases \in Nat
  /\ MaxTime \in Nat

VARIABLES
  leases,  \* the rows of the leases table, in creation order
  now      \* datetime.now(UTC)

vars == <<leases, now>>

LeaseStatus == {"active", "inactive", "expired"}
Lease == [worker: Worker, step: Step, token: Nat \ {0},
          status: LeaseStatus, expires: Nat]

TypeOK == leases \in Seq(Lease) /\ now \in Nat

-----------------------------------------------------------------------------
IsActive(i) == leases[i].status = "active"
Owned(i, w, s) == leases[i].worker = w /\ leases[i].step = s

\* is_valid(lease_id, fencing_token): the guard in front of every dispatch.
IsValid(i, t) ==
  /\ i \in DOMAIN leases
  /\ IsActive(i)
  /\ leases[i].expires > now
  /\ leases[i].token = t

\* Faulty variant: the maximum is taken over the active rows only.
IsMaxActiveToken(m, w, s) ==
  /\ m = 0 \/ \E i \in DOMAIN leases :
                 Owned(i, w, s) /\ IsActive(i) /\ leases[i].token = m
  /\ \A i \in DOMAIN leases :
        Owned(i, w, s) /\ IsActive(i) => leases[i].token <= m

\* get_max_fencing_token: over every row of this worker and step, 0 if none.
IsMaxToken(m, w, s) ==
  /\ m = 0 \/ \E i \in DOMAIN leases : Owned(i, w, s) /\ leases[i].token = m
  /\ \A i \in DOMAIN leases : Owned(i, w, s) => leases[i].token <= m

\* update_status: by id alone, whatever the row's present status.
UpdateStatus(i, status) == leases' = [leases EXCEPT ![i].status = status]

\* renew: only a row that is still ACTIVE.
Renew(i, expires) == leases' = [leases EXCEPT ![i].expires = expires]

-----------------------------------------------------------------------------
\* Faulty variants, one per property below, that no run of this module uses.

\* Only a lease that is still running keeps other workers out.
CreateOverLapsed(w, s) ==
  /\ Len(leases) < MaxLeases
  /\ \A i \in DOMAIN leases :
        leases[i].step = s => ~IsActive(i) \/ leases[i].expires <= now
  /\ \E m \in 0..Len(leases) :
       /\ IsMaxToken(m, w, s)
       /\ leases' = Append(leases, [worker |-> w, step |-> s, token |-> m + 1,
                                    status |-> "active",
                                    expires |-> now + LeaseTtl])
  /\ UNCHANGED now

\* The next token is the maximum itself.
CreateSameToken(w, s) ==
  /\ Len(leases) < MaxLeases
  /\ \A i \in DOMAIN leases : leases[i].step = s => ~IsActive(i)
  /\ \E m \in 0..Len(leases) :
       /\ IsMaxToken(m, w, s)
       /\ leases' = Append(leases, [worker |-> w, step |-> s, token |-> m,
                                    status |-> "active",
                                    expires |-> now + LeaseTtl])
  /\ UNCHANGED now

\* Re-acquiring revives the worker's lapsed row.
ExtendAny(w, s) ==
  \E i \in DOMAIN leases :
    /\ Owned(i, w, s)
    /\ leases' = [leases EXCEPT ![i].expires = now + LeaseTtl,
                               ![i].status = "active"]
    /\ UNCHANGED now

-----------------------------------------------------------------------------
\* acquire, first branch: the worker already owns the active lease.  The row
\* keeps its token; its expiry is not looked at.
Extend(w, s) ==
  \E i \in DOMAIN leases :
    /\ IsActive(i)
    /\ Owned(i, w, s)
    /\ Renew(i, now + LeaseTtl)
    /\ UNCHANGED now

\* acquire, last branch: no active lease on the step.  An active lease of
\* another worker raises LeaseConflictError, which changes nothing.
Create(w, s) ==
  /\ Len(leases) < MaxLeases
  /\ \A i \in DOMAIN leases : leases[i].step = s => ~IsActive(i)
  /\ \E m \in 0..Len(leases) :
       /\ IsMaxToken(m, w, s)
       /\ leases' = Append(leases, [worker |-> w, step |-> s, token |-> m + 1,
                                    status |-> "active",
                                    expires |-> now + LeaseTtl])
  /\ UNCHANGED now

Acquire(w, s) == Extend(w, s) \/ Create(w, s)

\* heartbeat: a lapsed lease is marked EXPIRED, a live one gets a new expiry
\* counted from now.
Heartbeat(i) ==
  /\ IsActive(i)
  /\ IF leases[i].expires <= now
       THEN UpdateStatus(i, "expired")
       ELSE Renew(i, now + HeartbeatExtend)
  /\ UNCHANGED now

Release(i) ==
  /\ IsActive(i)
  /\ UpdateStatus(i, "inactive")
  /\ UNCHANGED now

\* expire_stale: one UPDATE over every active row whose expiry has passed.
ExpireStale ==
  /\ leases' = [i \in DOMAIN leases |->
                  IF IsActive(i) /\ leases[i].expires < now
                    THEN [leases[i] EXCEPT !.status = "expired"]
                    ELSE leases[i]]
  /\ leases' # leases
  /\ UNCHANGED now

Tick ==
  /\ now < MaxTime
  /\ now' = now + 1
  /\ UNCHANGED leases

Init == leases = <<>> /\ now = 0

Next ==
  \/ \E w \in Worker, s \in Step : Acquire(w, s)
  \/ \E i \in DOMAIN leases : Heartbeat(i) \/ Release(i)
  \/ ExpireStale
  \/ Tick

Spec == Init /\ [][Next]_vars

-----------------------------------------------------------------------------
(* Properties *)

\* acquire never steals: whoever is granted a step after a lease finds that
\* lease released or expired, so the active lease of a step is the last one
\* ever granted on it, and there is at most one ("we do NOT steal leases").
ActiveIsLatest ==
  \A i, j \in DOMAIN leases :
    i < j /\ leases[i].step = leases[j].step => ~IsActive(i)

\* Fencing tokens are strictly monotonic per worker and step, so the token of
\* an earlier lease never matches a later one of the same pair.
TokensIncrease ==
  \A i, j \in DOMAIN leases :
    i < j /\ Owned(j, leases[i].worker, leases[i].step)
      => leases[i].token < leases[j].token

\* A lease that was released or expired stays so, and no row ever changes its
\* worker, step or token: a stale handle fails is_valid for ever.
HandlesKept ==
  \A i \in DOMAIN leases :
    /\ i \in DOMAIN leases'
    /\ ~IsActive(i) => leases'[i] = leases[i]
    /\ Owned(i, leases'[i].worker, leases'[i].step)
    /\ leases'[i].token = leases[i].token

RetiredForGood == [][HandlesKept]_vars

\* The docstring of LeaseManager: "even if a worker's old lease expires and it
\* re-acquires, the new token is strictly greater than the old one".  A handle
\* whose lease has lapsed is then dead.
LapsedTokenIsDead ==
  [][\A i \in DOMAIN leases :
       leases[i].expires <= now => ~IsValid(i, leases[i].token)']_vars
=============================================================================
