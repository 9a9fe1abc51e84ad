------------------------- MODULE LeaseManager_proofs -------------------------
(***************************************************************************)
(* The safety properties of LeaseManager hold for every set of workers and *)
(* steps, every TTL and every bound.  TypeOK, ActiveIsLatest and           *)
(* TokensIncrease are inductive together; RetiredForGood is a property of  *)
(* each step on its own once TypeOK is known.                              *)
(***************************************************************************)
EXTENDS LeaseManager, SequenceTheorems, TLAPS

\* The row Create appends.
NewLease(w, s, t) == [worker |-> w, step |-> s, token |-> t,
                      status |-> "active", expires |-> now + LeaseTtl]

\* What every action but Create does to the table: it touches active rows only,
\* and no row comes or goes.
SameHandles == DOMAIN leases' = DOMAIN leases /\ HandlesKept

-----------------------------------------------------------------------------
\* The table as a function: how its rows are typed.
LEMMA Table ==
  ASSUME leases \in Seq(Lease)
  PROVE  /\ Len(leases) \in Nat
         /\ DOMAIN leases = 1..Len(leases)
         /\ leases \in [1..Len(leases) -> Lease]
         /\ \A i \in DOMAIN leases : leases[i] \in Lease
BY LenProperties

\* A rewritten row of the same type leaves a table.
LEMMA RewriteRow ==
  ASSUME leases \in Seq(Lease), NEW i \in DOMAIN leases, NEW row \in Lease,
         leases' = [leases EXCEPT ![i] = row]
  PROVE  /\ leases' \in Seq(Lease)
         /\ DOMAIN leases' = DOMAIN leases
         /\ leases'[i] = row
         /\ \A j \in DOMAIN leases : j # i => leases'[j] = leases[j]
<1>1. i \in 1..Len(leases) /\ DOMAIN leases = 1..Len(leases)
  BY Table
<1> QED
  BY <1>1, ExceptSeq

\* update_status to another status than ACTIVE keeps the types and the handles.
LEMMA UpdateStatusLemma ==
  ASSUME leases \in Seq(Lease), NEW i \in DOMAIN leases,
         NEW st \in LeaseStatus \ {"active"}, UpdateStatus(i, st), IsActive(i)
  PROVE  /\ leases' \in Seq(Lease)
         /\ SameHandles
<1> DEFINE row == [leases[i] EXCEPT !.status = st]
<1>1. leases[i] \in Lease
  BY Table
<1>2. /\ row \in Lease
      /\ row.worker = leases[i].worker
      /\ row.step = leases[i].step
      /\ row.token = leases[i].token
      /\ row.status = st
  BY <1>1 DEF Lease
<1>3. leases' = [leases EXCEPT ![i] = row]
  BY DEF UpdateStatus
<1> HIDE DEF row
<1> QED
  BY <1>2, <1>3, RewriteRow DEF SameHandles, HandlesKept, Owned

\* renew keeps them too.
LEMMA RenewLemma ==
  ASSUME leases \in Seq(Lease), NEW i \in DOMAIN leases, NEW e \in Nat,
         Renew(i, e), IsActive(i)
  PROVE  /\ leases' \in Seq(Lease)
         /\ SameHandles
<1> DEFINE row == [leases[i] EXCEPT !.expires = e]
<1>1. leases[i] \in Lease
  BY Table
<1>2. /\ row \in Lease
      /\ row.worker = leases[i].worker
      /\ row.step = leases[i].step
      /\ row.token = leases[i].token
      /\ row.status = leases[i].status
  BY <1>1 DEF Lease
<1>3. leases' = [leases EXCEPT ![i] = row]
  BY DEF Renew
<1> HIDE DEF row
<1> QED
  BY <1>2, <1>3, RewriteRow DEF SameHandles, HandlesKept, Owned

\* expire_stale rewrites every lapsed row at once.
LEMMA ExpireStaleLemma ==
  ASSUME leases \in Seq(Lease), ExpireStale
  PROVE  /\ leases' \in Seq(Lease)
         /\ SameHandles
<1> DEFINE row(i) == IF IsActive(i) /\ leases[i].expires < now
                       THEN [leases[i] EXCEPT !.status = "expired"]
                       ELSE leases[i]
<1>1. ASSUME NEW i \in DOMAIN leases
      PROVE  /\ row(i) \in Lease
             /\ row(i).worker = leases[i].worker
             /\ row(i).step = leases[i].step
             /\ row(i).token = leases[i].token
             /\ ~IsActive(i) => row(i) = leases[i]
  <2>1. leases[i] \in Lease
    BY Table
  <2> QED
    BY <2>1 DEF Lease, LeaseStatus
<1>2. leases' = [i \in DOMAIN leases |-> row(i)]
  BY DEF ExpireStale
<1> HIDE DEF row
<1>3. leases' \in [1..Len(leases) -> Lease] /\ Len(leases) \in Nat
  BY <1>1, <1>2, Table
<1>4. leases' \in Seq(Lease)
  BY <1>3, SeqDef
<1> QED
  BY <1>1, <1>2, <1>4 DEF SameHandles, HandlesKept, Owned

\* Both branches of heartbeat, and release, leave the handles alone.
LEMMA HeartbeatReleaseLemma ==
  ASSUME TypeOK, NEW i \in DOMAIN leases, Heartbeat(i) \/ Release(i)
  PROVE  /\ leases' \in Seq(Lease)
         /\ SameHandles
<1>1. leases \in Seq(Lease) /\ now + HeartbeatExtend \in Nat
  BY TtlAssumption DEF TypeOK
<1>2. CASE Heartbeat(i) /\ leases[i].expires <= now
  BY <1>1, <1>2, UpdateStatusLemma DEF Heartbeat, LeaseStatus
<1>3. CASE Heartbeat(i) /\ ~(leases[i].expires <= now)
  BY <1>1, <1>3, RenewLemma DEF Heartbeat
<1>4. CASE Release(i)
  BY <1>1, <1>4, UpdateStatusLemma DEF Release, LeaseStatus
<1> QED
  BY <1>2, <1>3, <1>4

\* The branch of acquire that finds the worker's own lease.
LEMMA ExtendLemma ==
  ASSUME TypeOK, NEW w \in Worker, NEW s \in Step, Extend(w, s)
  PROVE  /\ leases' \in Seq(Lease)
         /\ SameHandles
<1>1. PICK i \in DOMAIN leases : IsActive(i) /\ Renew(i, now + LeaseTtl)
  BY DEF Extend
<1> QED
  BY <1>1, RenewLemma, TtlAssumption DEF TypeOK

\* The branch that adds a row: it comes last, its token is above every token of
\* its worker and step, and no other lease of its step is active.
LEMMA CreateLemma ==
  ASSUME TypeOK, NEW w \in Worker, NEW s \in Step, Create(w, s)
  PROVE  /\ leases' \in Seq(Lease)
         /\ DOMAIN leases = 1..Len(leases)
         /\ DOMAIN leases' = 1..(Len(leases) + 1)
         /\ \A i \in DOMAIN leases : leases'[i] = leases[i]
         /\ \E t \in Nat : /\ leases'[Len(leases) + 1] = NewLease(w, s, t)
                          /\ \A i \in DOMAIN leases :
                               Owned(i, w, s) => leases[i].token < t
         /\ \A i \in DOMAIN leases : leases[i].step = s => ~IsActive(i)
<1>1. PICK m \in 0..Len(leases) :
        /\ IsMaxToken(m, w, s)
        /\ leases' = Append(leases, NewLease(w, s, m + 1))
  BY DEF Create, NewLease
<1>2. /\ leases \in Seq(Lease)
      /\ Len(leases) \in Nat
      /\ DOMAIN leases = 1..Len(leases)
      /\ \A i \in DOMAIN leases : leases[i].token \in Nat
  BY Table DEF TypeOK, Lease
<1>3. NewLease(w, s, m + 1) \in Lease
  <2>1. now + LeaseTtl \in Nat
    BY TtlAssumption DEF TypeOK
  <2>2. m + 1 \in Nat \ {0}
    BY <1>2
  <2> QED
    BY <2>1, <2>2 DEF NewLease, Lease, LeaseStatus
<1>4. /\ leases' \in Seq(Lease)
      /\ Len(leases') = Len(leases) + 1
      /\ \A i \in 1..Len(leases) : leases'[i] = leases[i]
      /\ leases'[Len(leases) + 1] = NewLease(w, s, m + 1)
  BY <1>1, <1>2, <1>3, AppendProperties
<1>5. DOMAIN leases' = 1..(Len(leases) + 1)
  BY <1>4, LenProperties
<1>6. \A i \in DOMAIN leases : Owned(i, w, s) => leases[i].token < m + 1
  BY <1>1, <1>2 DEF IsMaxToken
<1>7. \A i \in DOMAIN leases : leases[i].step = s => ~IsActive(i)
  BY DEF Create
<1> QED
  BY <1>2, <1>4, <1>5, <1>6, <1>7

\* Every step either keeps the handles or is a Create.
LEMMA StepLemma ==
  ASSUME TypeOK, [Next]_vars
  PROVE  /\ TypeOK'
         /\ SameHandles \/ \E w \in Worker, s \in Step : Create(w, s)
<1> USE DEF TypeOK
<1>1. ASSUME NEW w \in Worker, NEW s \in Step, Extend(w, s)
      PROVE  TypeOK' /\ SameHandles
  BY <1>1, ExtendLemma DEF Extend
<1>2. ASSUME NEW w \in Worker, NEW s \in Step, Create(w, s)
      PROVE  TypeOK'
  BY <1>2, CreateLemma DEF Create
<1>3. ASSUME NEW i \in DOMAIN leases, Heartbeat(i) \/ Release(i)
      PROVE  TypeOK' /\ SameHandles
  BY <1>3, HeartbeatReleaseLemma DEF Heartbeat, Release
<1>4. CASE ExpireStale
  BY <1>4, ExpireStaleLemma DEF ExpireStale
<1>5. CASE Tick
  BY <1>5 DEF Tick, SameHandles, HandlesKept, Owned
<1>6. CASE UNCHANGED vars
  BY <1>6 DEF vars, SameHandles, HandlesKept, Owned
<1> QED
  BY <1>1, <1>2, <1>3, <1>4, <1>5, <1>6 DEF Next, Acquire

-----------------------------------------------------------------------------
\* The rows of the leases table and the clock keep their types.
THEOREM TypeCorrect == Spec => []TypeOK
<1>1. Init => TypeOK
  BY EmptySeq DEF Init, TypeOK
<1>2. TypeOK /\ [Next]_vars => TypeOK'
  BY StepLemma
<1> QED
  BY <1>1, <1>2, PTL DEF Spec

\* The inductive invariant.
IInv == TypeOK /\ ActiveIsLatest /\ TokensIncrease

LEMMA InitIInv == Init => IInv
<1> SUFFICES ASSUME Init PROVE IInv
  OBVIOUS
<1>1. leases \in Seq(Lease) /\ Len(leases) = 0
  BY EmptySeq DEF Init
<1>2. DOMAIN leases = 1..0
  BY <1>1, LenProperties
<1> QED
  BY <1>1, <1>2 DEF Init, IInv, TypeOK, ActiveIsLatest, TokensIncrease

LEMMA NextIInv == IInv /\ [Next]_vars => IInv'
<1> SUFFICES ASSUME IInv, [Next]_vars PROVE IInv'
  OBVIOUS
<1>0. TypeOK /\ TypeOK' /\ leases \in Seq(Lease) /\ leases' \in Seq(Lease)
  BY StepLemma DEF IInv, TypeOK
<1>1. CASE SameHandles
  <2>1. ActiveIsLatest'
    BY <1>1 DEF IInv, SameHandles, HandlesKept, ActiveIsLatest, IsActive, Owned
  <2>2. TokensIncrease'
    BY <1>1 DEF IInv, SameHandles, HandlesKept, TokensIncrease, Owned
  <2> QED
    BY <1>0, <2>1, <2>2 DEF IInv
<1>2. ASSUME NEW w \in Worker, NEW s \in Step, Create(w, s)
      PROVE  IInv'
  <2> DEFINE n == Len(leases) + 1
  <2>1. PICK t \in Nat :
          /\ leases'[n] = NewLease(w, s, t)
          /\ \A i \in DOMAIN leases : Owned(i, w, s) => leases[i].token < t
    BY <1>0, <1>2, CreateLemma
  <2>2. /\ n \in Nat
        /\ \A i \in DOMAIN leases' : i \in DOMAIN leases \/ i = n
        /\ \A i \in DOMAIN leases : i < n /\ leases'[i] = leases[i]
        /\ DOMAIN leases' \subseteq Nat
    BY <1>0, <1>2, CreateLemma, Table
  <2>3. /\ leases'[n].worker = w
        /\ leases'[n].step = s
        /\ leases'[n].token = t
    BY <2>1 DEF NewLease
  <2> HIDE DEF n
  <2>4. ActiveIsLatest'
    <3> SUFFICES ASSUME NEW i \in DOMAIN leases', NEW j \in DOMAIN leases',
                        i < j, leases'[i].step = leases'[j].step
                 PROVE  leases'[i].status # "active"
      BY DEF ActiveIsLatest, IsActive
    <3>1. i \in DOMAIN leases /\ leases'[i] = leases[i]
      BY <2>2
    <3>2. CASE j = n
      BY <1>0, <1>2, <2>3, <3>1, <3>2, CreateLemma DEF IsActive
    <3>3. CASE j \in DOMAIN leases
      BY <2>2, <3>1, <3>3 DEF IInv, ActiveIsLatest, IsActive
    <3> QED
      BY <2>2, <3>2, <3>3
  <2>5. TokensIncrease'
    <3> SUFFICES ASSUME NEW i \in DOMAIN leases', NEW j \in DOMAIN leases', i < j,
                        leases'[j].worker = leases'[i].worker,
                        leases'[j].step = leases'[i].step
                 PROVE  leases'[i].token < leases'[j].token
      BY DEF TokensIncrease, Owned
    <3>1. i \in DOMAIN leases /\ leases'[i] = leases[i]
      BY <2>2
    <3>2. CASE j = n
      BY <2>1, <2>3, <3>1, <3>2 DEF Owned
    <3>3. CASE j \in DOMAIN leases
      BY <2>2, <3>1, <3>3 DEF IInv, TokensIncrease, Owned
    <3> QED
      BY <2>2, <3>2, <3>3
  <2> QED
    BY <1>0, <2>4, <2>5 DEF IInv
<1> QED
  BY <1>0, <1>1, <1>2, StepLemma

LEMMA IInvAlways == Spec => []IInv
BY InitIInv, NextIInv, PTL DEF Spec

\* acquire never steals a step: at most one lease of a step is active, and it is
\* the last one granted.
THEOREM NoStealing == Spec => []ActiveIsLatest
<1>1. IInv => ActiveIsLatest
  BY DEF IInv
<1> QED
  BY <1>1, IInvAlways, PTL

\* A later lease of a worker on a step carries a greater token.
THEOREM FencingMonotonic == Spec => []TokensIncrease
<1>1. IInv => TokensIncrease
  BY DEF IInv
<1> QED
  BY <1>1, IInvAlways, PTL

\* A lease that was released or expired is never changed again, and no lease
\* ever changes hands.
THEOREM RetiredLeasesStay == Spec => RetiredForGood
<1>1. ASSUME TypeOK, [Next]_vars
      PROVE  HandlesKept
  <2>1. CASE SameHandles
    BY <2>1 DEF SameHandles
  <2>2. ASSUME NEW w \in Worker, NEW s \in Step, Create(w, s)
        PROVE  HandlesKept
    BY <1>1, <2>2, CreateLemma DEF TypeOK, HandlesKept, Owned
  <2> QED
    BY <1>1, <2>1, <2>2, StepLemma
<1>2. TypeOK /\ [Next]_vars => [HandlesKept]_vars
  BY <1>1
<1> QED
  BY <1>2, TypeCorrect, PTL DEF Spec, RetiredForGood
=============================================================================
