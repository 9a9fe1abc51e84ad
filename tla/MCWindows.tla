------------------------------ MODULE MCWindows ------------------------------
(* The three parts of the Windows platform that share no state, on small   *)
(* instances: in each behaviour one of them, the focus, makes the steps.   *)
(* One execution in its workspace; two terminal sessions and room for one; *)
(* two sidecars of one user.                                               *)
EXTENDS TerminalSession, FiniteSetTheorems, TLC, TLAPS

CONSTANTS
  Broker, Workspace, WorkspaceOf, Original,
  Process, MaxBoots,
  b1, w1, s1, s2, p1, p2

VARIABLES
  focus,
  broker, dacl, exists, handle, child, exec, kill,
  database, host, api, request, boots

S == INSTANCE ProcessSandbox
H == INSTANCE SidecarHost

sandbox == <<broker, dacl, exists, handle, child, exec, kill>>
sidecar == <<database, host, api, request, boots>>
allVars == <<focus, vars, sandbox, sidecar>>

OneWorkspace == [b \in Broker |-> w1]

AllInit ==
  /\ focus \in {"sandbox", "terminal", "sidecar"}
  /\ Init /\ S!Init
  /\ H!Init /\ (focus = "sidecar" \/ database.rev = "none")

InSandbox(A) == focus = "sandbox" /\ A /\ UNCHANGED <<focus, vars, sidecar>>
InTerminal(A) == focus = "terminal" /\ A /\ UNCHANGED <<focus, sandbox, sidecar>>
InSidecar(A) == focus = "sidecar" /\ A /\ UNCHANGED <<focus, vars, sandbox>>

AllNext == InSandbox(S!Next) \/ InTerminal(Next) \/ InSidecar(H!Next)

\* The fairness of each part, as its own specification has it.
AllSpec ==
  /\ AllInit /\ [][AllNext]_allVars
  /\ \A b \in Broker :
       /\ WF_sandbox(focus = "sandbox" /\ S!Execute(b))
       /\ \A c \in S!Caller : WF_sandbox(focus = "sandbox" /\ S!KillTree(b, c))
  /\ \A s \in Session : WF_vars(focus = "terminal" /\ Watcher(s))
  /\ \A p \in Process : WF_sidecar(focus = "sidecar" /\ H!Stop(p))

-----------------------------------------------------------------------------
(* The properties, under names of their own.                               *)

(* Every part keeps its variables in their ranges, and what is only in the *)
(* memory of a sidecar that ended is gone.                                 *)
AllTypeOK == TypeOK /\ S!TypeOK /\ H!TypeOK

(* Of ProcessSandbox: a child runs only inside a complete boundary (run of *)
(* process_sandbox.py, acquire_launch of isolation.py).  Of                *)
(* IsolationBroker: what was granted on the workspace is known to the      *)
(* broker until it is restored, and a broker that says it is closed holds  *)
(* nothing any more (_apply_workspace_acl, _restore_workspace_acl, close   *)
(* of isolation.py).                                                       *)
BoundaryHolds ==
  S!RunsInsideBoundary /\ S!GrantsAreRemembered /\ S!ClosedMeansClean

(* Of TerminalSession: the limits on sessions that are active and on those *)
(* that are kept (open, _prune_finished_locked of conpty.py).              *)
TerminalLimits == ActiveLimit /\ RetainedLimit

(* Of TerminalSession: only a late resize or signal revives a session that *)
(* has ended, and the grace timer ends none that is attached again         *)
(* (attach, _disconnect_expired of conpty.py).                             *)
EndedStaysEnded == FinalIsLeftByLateCallsOnly /\ AttachedIsNotExpired

(* Of SidecarHost: the application sees a request only when it is started, *)
(* with the database of its revision, and the user's database is never     *)
(* replaced by the packaged one (__call__, _install_bootstrap of           *)
(* sidecar_host.py).                                                       *)
ServedFromOwnDatabase == []H!ServedWhenReady /\ H!DatabaseIsKept

(* Every part comes to its end: an execution that was begun ends with its  *)
(* child and its job (run, kill_tree of process_sandbox.py), a terminal    *)
(* that was launched is cleaned up (_watcher_main of conpty.py), and a     *)
(* shutdown that was asked for ends the process (HttpRuntime.stop).        *)
EverythingEnds ==
  S!EveryExecutionEnds /\ EveryTerminalIsCleaned /\ H!ShutdownEnds

-----------------------------------------------------------------------------
(* ProcessSandbox: a child runs only inside a complete boundary, a broker   *)
(* that is closed has given everything back, and what was granted on a      *)
(* workspace is known to its broker until it is restored.  The inductive    *)
(* invariant says, of each execution, what its broker has as long as a      *)
(* launch may begin or is pinned (BoundaryOK), how the handle's job, its    *)
(* pin and its flags go together (HandleOK), who holds the run lock         *)
(* (LockOK) and where a child can be alive (ChildOK).                       *)

\* Each broker has a workspace; Original is no broker's entry.
BrokerAssumption ==
  /\ WorkspaceOf \in [Broker -> Workspace]
  /\ Original \notin Broker

\* What the children of a broker rely on: r is the broker's record.
Complete(r) ==
  /\ r.verified /\ r.token /\ r.profile = "held" /\ "root" \in DOMAIN r.saved
  /\ ~r.closed /\ ~r.pending

BoundaryOK(r, h) ==
  /\ r.accepting \/ h.held => Complete(r)
  /\ ~r.verified /\ ~r.pending => r.saved = S!None
  /\ r.closed => r = [S!NewBroker EXCEPT !.closed = TRUE]

HandleOK(h, k, pc) ==
  /\ h.held <=> h.job = "open"
  /\ h.closed <=> h.job = "closed"
  /\ h.job = "none" => k = S!NoChild /\ pc \in {"start", "create", "close", "done"}
  /\ pc \in {"start", "create"} => h.job = "none"

\* Where run holds the run lock.
InRun == {"locked", "launched", "wait", "drain"}

LockOK(h, pc, kl) ==
  /\ h.lock = "run" <=> pc \in InRun
  /\ pc \in InRun => h.job = "open"
  /\ \A c \in S!Caller : kl[c] = "holding" => h.lock = c
  /\ \A c \in S!Caller : kl[c] # "idle" => h.job # "none"

ChildOK(h, k, pc) ==
  /\ pc \in {"enter", "locked"} => k = S!NoChild
  /\ k.state = "suspended" => pc = "launched"
  /\ k.state = "running" => k.contained /\ h.job = "open"

Fine(b) ==
  /\ BoundaryOK(broker[b], handle[b])
  /\ HandleOK(handle[b], child[b], exec[b])
  /\ LockOK(handle[b], exec[b], kill[b])
  /\ ChildOK(handle[b], child[b], exec[b])

IInv == S!TypeOK /\ \A b \in Broker : Fine(b)

-----------------------------------------------------------------------------
(* What the operations of a broker make of its record and of the lists.     *)

\* A cleanup keeps the snapshots of the steps that fail.
LEMMA CleanedType ==
  ASSUME NEW b, NEW s \in S!BrokerState, NEW bad
  PROVE  S!Cleaned(b, s, bad) \in S!BrokerState
<1> DEFINE failing == S!Failing(b, s, bad)
           left == DOMAIN s.saved \cap failing
<1>1. PICK parts \in SUBSET S!Part : s.saved \in [parts -> S!Dacl]
  BY DEF S!BrokerState, S!Snapshots
<1>2. left \in SUBSET S!Part /\ [p \in left |-> s.saved[p]] \in [left -> S!Dacl]
  BY <1>1
<1>3. [p \in left |-> s.saved[p]] \in S!Snapshots
  BY <1>2 DEF S!Snapshots
<1> HIDE DEF left, failing
<1>4. S!Cleaned(b, s, bad) =
          [s EXCEPT !.secret = "none", !.saved = [p \in left |-> s.saved[p]],
                    !.profile = IF "profile" \in failing THEN "undeleted" ELSE "none",
                    !.token = FALSE, !.pending = failing # {}]
  BY DEF S!Cleaned, left, failing, S!BrokerState
<1> QED
  BY <1>3, <1>4 DEF S!BrokerState

\* What a cleanup leaves alone.
LEMMA CleanedKeeps ==
  ASSUME NEW b, NEW s \in S!BrokerState, NEW bad
  PROVE  /\ S!Cleaned(b, s, bad).verified = s.verified
         /\ S!Cleaned(b, s, bad).accepting = s.accepting
         /\ S!Cleaned(b, s, bad).launches = s.launches
         /\ S!Cleaned(b, s, bad).closed = s.closed
  BY DEF S!Cleaned, S!BrokerState

\* What it gives back whatever fails.
LEMMA CleanedGivesBack ==
  ASSUME NEW b, NEW s \in S!BrokerState, NEW bad
  PROVE  ~S!Cleaned(b, s, bad).token /\ S!Cleaned(b, s, bad).secret = "none"
  BY DEF S!Cleaned, S!BrokerState

\* What it has given back when no step failed.
LEMMA CleanedAll ==
  ASSUME NEW b, NEW s \in S!BrokerState, NEW bad, ~S!Cleaned(b, s, bad).pending
  PROVE  S!Cleaned(b, s, bad).saved = S!None /\ S!Cleaned(b, s, bad).profile = "none"
<1> DEFINE failing == S!Failing(b, s, bad)
           left == [p \in DOMAIN s.saved \cap failing |-> s.saved[p]]
<1>1. failing = {} => left = S!None
  BY DEF S!None
<1>2. S!Cleaned(b, s, bad) =
          [s EXCEPT !.secret = "none", !.saved = left,
                    !.profile = IF "profile" \in failing THEN "undeleted" ELSE "none",
                    !.token = FALSE, !.pending = failing # {}]
  BY DEF S!Cleaned, S!BrokerState
<1> HIDE DEF failing, left
<1> QED
  BY <1>1, <1>2 DEF S!BrokerState

\* A snapshot is kept for the steps that fail, and only for those.
LEMMA CleanedSaved ==
  ASSUME NEW b, NEW s \in S!BrokerState, NEW bad
  PROVE  /\ DOMAIN S!Cleaned(b, s, bad).saved = DOMAIN s.saved \cap S!Failing(b, s, bad)
         /\ \A p \in DOMAIN S!Cleaned(b, s, bad).saved :
              S!Cleaned(b, s, bad).saved[p] = s.saved[p]
<1> DEFINE failing == S!Failing(b, s, bad)
           left == [p \in DOMAIN s.saved \cap failing |-> s.saved[p]]
<1>1. /\ DOMAIN left = DOMAIN s.saved \cap failing
      /\ \A p \in DOMAIN left : left[p] = s.saved[p]
  OBVIOUS
<1>2. S!Cleaned(b, s, bad).saved = left
  BY DEF S!Cleaned, S!BrokerState
<1> QED
  BY <1>1, <1>2

\* A snapshot covers the parts that are there.
LEMMA SnapshotType ==
  ASSUME BrokerAssumption, S!BrokerTypeOK, NEW b \in Broker
  PROVE  /\ S!Snapshot(b) \in S!Snapshots
         /\ DOMAIN S!Snapshot(b) = {p \in S!Part : S!Present(WorkspaceOf[b], p)}
         /\ "root" \in DOMAIN S!Snapshot(b)
         /\ \A p \in DOMAIN S!Snapshot(b) : S!Snapshot(b)[p] = dacl[WorkspaceOf[b]][p]
<1> DEFINE here == {p \in S!Part : S!Present(WorkspaceOf[b], p)}
<1>1. S!Snapshot(b) = [p \in here |-> dacl[WorkspaceOf[b]][p]]
  BY DEF S!Snapshot
<1>2. dacl[WorkspaceOf[b]] \in [S!Part -> S!Dacl]
  BY DEF BrokerAssumption, S!BrokerTypeOK
<1>3. here \in SUBSET S!Part /\ [p \in here |-> dacl[WorkspaceOf[b]][p]] \in [here -> S!Dacl]
  BY <1>2
<1>4. S!Snapshot(b) \in S!Snapshots
  BY <1>1, <1>3 DEF S!Snapshots
<1>5. "root" \in here
  BY DEF S!Present, S!Part
<1> QED
  BY <1>1, <1>4, <1>5

\* What an initialization has taken when it stops.
LEMMA ReachedType ==
  ASSUME BrokerAssumption, S!BrokerTypeOK, NEW b \in Broker, NEW stage \in S!Stage
  PROVE  /\ S!Reached(b, stage) \in S!BrokerState
         /\ S!Reached(b, stage).verified = broker[b].verified
         /\ S!Reached(b, stage).accepting = broker[b].accepting
         /\ S!Reached(b, stage).launches = broker[b].launches
         /\ S!Reached(b, stage).pending = broker[b].pending
         /\ S!Reached(b, stage).closed = broker[b].closed
         /\ S!Reached(b, stage).saved =
                (IF stage = "acl" THEN S!Snapshot(b) ELSE broker[b].saved)
         /\ stage = "acl" => /\ S!Reached(b, stage).token
                             /\ S!Reached(b, stage).profile = "held"
<1> DEFINE taken == IF stage = "acl" THEN S!Snapshot(b) ELSE broker[b].saved
           profile == IF stage \in {"profile", "acl"} THEN "held" ELSE "none"
<1>1. broker[b] \in S!BrokerState
  BY DEF S!BrokerTypeOK
<1>2. taken \in S!Snapshots
  BY <1>1, SnapshotType DEF S!BrokerState
<1>3. profile \in {"none", "held"} /\ (stage = "acl" => profile = "held")
  OBVIOUS
<1>4. S!Reached(b, stage) = [broker[b] EXCEPT !.token = stage # "validate",
                                              !.profile = profile, !.saved = taken]
  BY <1>1 DEF S!Reached, S!BrokerState
<1> HIDE DEF taken, profile
<1>5. /\ S!Reached(b, stage) \in S!BrokerState
      /\ S!Reached(b, stage).verified = broker[b].verified
      /\ S!Reached(b, stage).accepting = broker[b].accepting
      /\ S!Reached(b, stage).launches = broker[b].launches
      /\ S!Reached(b, stage).pending = broker[b].pending
      /\ S!Reached(b, stage).closed = broker[b].closed
      /\ S!Reached(b, stage).saved = taken
      /\ S!Reached(b, stage).token = (stage # "validate")
      /\ S!Reached(b, stage).profile = profile
  BY <1>1, <1>2, <1>3, <1>4 DEF S!BrokerState
<1> QED
  BY <1>3, <1>5 DEF taken

\* What a failing initialization leaves.
LEMMA RolledBack ==
  ASSUME BrokerAssumption, S!BrokerTypeOK, NEW b \in Broker, NEW stage \in S!Stage, NEW bad
  PROVE  LET new == S!Cleaned(b, S!Reached(b, stage), bad)
         IN  /\ new \in S!BrokerState /\ new.launches = broker[b].launches
             /\ new.verified = broker[b].verified /\ new.accepting = broker[b].accepting
             /\ new.closed = broker[b].closed
             /\ ~new.pending => new.saved = S!None
<1>1. PICK s \in S!BrokerState :
        /\ s = S!Reached(b, stage)
        /\ s.verified = broker[b].verified /\ s.launches = broker[b].launches
        /\ s.accepting = broker[b].accepting /\ s.closed = broker[b].closed
  BY ReachedType
<1>2. S!Cleaned(b, s, bad) \in S!BrokerState
  BY <1>1, CleanedType
<1>3. /\ S!Cleaned(b, s, bad).verified = s.verified
      /\ S!Cleaned(b, s, bad).accepting = s.accepting
      /\ S!Cleaned(b, s, bad).launches = s.launches
      /\ S!Cleaned(b, s, bad).closed = s.closed
  BY <1>1, CleanedKeeps
<1>4. ~S!Cleaned(b, s, bad).pending => S!Cleaned(b, s, bad).saved = S!None
  BY <1>1, CleanedAll
<1> QED
  BY <1>1, <1>2, <1>3, <1>4

\* A restore keeps an access list an access list.
LEMMA RestoredType ==
  ASSUME NEW b, NEW s \in S!BrokerState, NEW bad, NEW d \in [S!Part -> S!Dacl]
  PROVE  S!Restored(b, s, bad, d) \in [S!Part -> S!Dacl]
<1>1. PICK parts \in SUBSET S!Part : s.saved \in [parts -> S!Dacl]
  BY DEF S!BrokerState, S!Snapshots
<1> QED
  BY <1>1 DEF S!Restored

\* So does a grant.
LEMMA GrantedType ==
  ASSUME NEW b \in Broker, NEW d \in [S!Part -> S!Dacl]
  PROVE  S!Granted(b, d) \in [S!Part -> S!Dacl]
  BY DEF S!Granted, S!Part, S!Dacl

-----------------------------------------------------------------------------
(* Each operation is about one execution.                                   *)

Unmoved(c) ==
  /\ broker'[c] = broker[c] /\ handle'[c] = handle[c] /\ child'[c] = child[c]
  /\ exec'[c] = exec[c] /\ kill'[c] = kill[c]

\* The others keep what they had.
LEMMA UnmovedFine ==
  ASSUME NEW c, Fine(c), Unmoved(c)
  PROVE  Fine(c)'
  BY DEF Fine, BoundaryOK, Complete, HandleOK, LockOK, ChildOK, Unmoved

\* What an execution keeps may be written as a move.
LEMMA Same ==
  ASSUME S!TypeOK, NEW b \in Broker
  PROVE  /\ handle = [handle EXCEPT ![b] = handle[b]]
         /\ child = [child EXCEPT ![b] = child[b]]
         /\ exec = [exec EXCEPT ![b] = exec[b]]
         /\ kill = [kill EXCEPT ![b] = kill[b]]
  BY DEF S!TypeOK

\* So it is enough to look at the one that moves.
LEMMA Enough ==
  ASSUME IInv, NEW b \in Broker, S!TypeOK', Fine(b)', \A c \in Broker \ {b} : Unmoved(c)
  PROVE  IInv'
<1>1. \A c \in Broker : c # b => Fine(c)'
  BY UnmovedFine DEF IInv
<1> QED
  BY <1>1 DEF IInv

\* The ranges of what belongs to an execution.
LEMMA Types ==
  ASSUME S!TypeOK, NEW b \in Broker
  PROVE  /\ broker[b] \in S!BrokerState /\ handle[b] \in S!HandleState
         /\ child[b] \in S!ChildState /\ exec[b] \in S!ExecPC
         /\ kill[b] \in [S!Caller -> S!KillPC]
         /\ broker[b].launches = IF handle[b].held THEN 1 ELSE 0
  BY DEF S!TypeOK, S!BrokerTypeOK

\* A broker starts with a record that is one.
LEMMA NewBrokerType == S!NewBroker \in S!BrokerState
<1>1. {} \in SUBSET S!Part /\ S!None \in [{} -> S!Dacl]
  BY DEF S!None
<1>2. S!None \in S!Snapshots
  BY <1>1 DEF S!Snapshots
<1> QED
  BY <1>2 DEF S!NewBroker, S!BrokerState

\* A closed broker's record, field by field.
LEMMA ClosedNew ==
  [S!NewBroker EXCEPT !.closed = TRUE] =
      [verified |-> FALSE, accepting |-> FALSE, launches |-> 0, pending |-> FALSE,
       closed |-> TRUE, token |-> FALSE, profile |-> "none", saved |-> S!None,
       secret |-> "none"]
<1>1. PICK n : n = S!NewBroker
  OBVIOUS
<1>2. PICK m : m = [n EXCEPT !.closed = TRUE]
  OBVIOUS
<1>3. /\ n.verified = FALSE /\ n.accepting = FALSE /\ n.launches = 0
      /\ n.pending = FALSE /\ n.token = FALSE /\ n.profile = "none"
      /\ n.saved = S!None /\ n.secret = "none"
  BY <1>1 DEF S!NewBroker
<1>4. n \in S!BrokerState
  BY <1>1, NewBrokerType
<1>5. m = [verified |-> n.verified, accepting |-> n.accepting,
           launches |-> n.launches, pending |-> n.pending, closed |-> TRUE,
           token |-> n.token, profile |-> n.profile, saved |-> n.saved,
           secret |-> n.secret]
  BY <1>2, <1>4 DEF S!BrokerState
<1>6. m = [verified |-> FALSE, accepting |-> FALSE, launches |-> 0, pending |-> FALSE,
           closed |-> TRUE, token |-> FALSE, profile |-> "none", saved |-> S!None,
           secret |-> "none"]
  BY <1>3, <1>5, Zenon
<1> QED
  BY <1>1, <1>2, <1>6

\* Init establishes the invariant.
LEMMA InitIInv == ASSUME BrokerAssumption, S!Init PROVE IInv
<1>2. S!NewBroker \in S!BrokerState
  BY NewBrokerType
<1>3. {Original} \in S!Dacl
  BY DEF S!Dacl
<1>4. S!NoHandle \in S!HandleState /\ S!NoChild \in S!ChildState
  BY DEF S!NoHandle, S!HandleState, S!NoChild, S!ChildState
<1>5. S!TypeOK
  BY <1>2, <1>3, <1>4
     DEF S!Init, S!BrokerInit, S!TypeOK, S!BrokerTypeOK, S!NewBroker, S!NoHandle,
         S!ExecPC, S!KillPC
<1>6. \A b \in Broker : Fine(b)
  BY DEF S!Init, S!BrokerInit, Fine, BoundaryOK, Complete, HandleOK, LockOK, ChildOK, S!NewBroker,
     S!NoHandle, S!NoChild, InRun
<1> QED
  BY <1>5, <1>6 DEF IInv

\* A broker's step that keeps its pins keeps the handle's side of the types.
LEMMA BrokerMoves ==
  ASSUME IInv, NEW b \in Broker, NEW new \in S!BrokerState, new.launches = broker[b].launches,
         broker' = [broker EXCEPT ![b] = new],
         dacl' \in [Workspace -> [S!Part -> S!Dacl]], exists' \in [Workspace -> BOOLEAN],
         UNCHANGED <<handle, child, kill>>,
         exec' \in [Broker -> S!ExecPC]
  PROVE  S!TypeOK' /\ broker'[b] = new /\ \A c \in Broker \ {b} : broker'[c] = broker[c]
  BY DEF IInv, S!TypeOK, S!BrokerTypeOK

\* initialize, whether it succeeds or not.
LEMMA BeginStep ==
  ASSUME BrokerAssumption, IInv, NEW b \in Broker, S!Begin(b)
  PROVE  IInv'
<1>0. S!BrokerTypeOK /\ broker[b] \in S!BrokerState /\ Fine(b) /\ exec[b] = "start"
  BY Types DEF IInv, S!TypeOK, S!Begin, S!AtExec
<1>1. CASE S!Initialize(b) /\ S!GoExec(b, "create")
  <2> DEFINE new == [S!Reached(b, "acl") EXCEPT !.verified = TRUE, !.accepting = TRUE]
  <2>1. "acl" \in S!Stage
    BY DEF S!Stage
  <2>2. S!Reached(b, "acl") \in S!BrokerState
    BY <1>0, <2>1, ReachedType
  <2>3. /\ new \in S!BrokerState /\ new.launches = broker[b].launches
        /\ new.verified /\ new.token /\ new.profile = "held" /\ "root" \in DOMAIN new.saved
        /\ new.closed = broker[b].closed /\ new.pending = broker[b].pending
    BY <1>0, <2>1, <2>2, ReachedType, SnapshotType DEF S!BrokerState
  <2> HIDE DEF new
  <2>4. broker' = [broker EXCEPT ![b] = new]
    BY <1>1 DEF S!Initialize, new
  <2>5. dacl' \in [Workspace -> [S!Part -> S!Dacl]] /\ exists' \in [Workspace -> BOOLEAN]
    BY <1>0, <1>1, GrantedType DEF S!Initialize, S!BrokerTypeOK, BrokerAssumption
  <2>6. exec' \in [Broker -> S!ExecPC] /\ exec'[b] = "create"
        /\ \A c \in Broker \ {b} : exec'[c] = exec[c]
    BY <1>1 DEF S!GoExec, IInv, S!TypeOK, S!ExecPC
  <2>7. UNCHANGED <<handle, child, kill>>
    BY DEF S!Begin
  <2>8. S!TypeOK' /\ broker'[b] = new /\ \A c \in Broker \ {b} : broker'[c] = broker[c]
    BY <2>3, <2>4, <2>5, <2>6, <2>7, BrokerMoves
  <2>9. ~broker[b].closed /\ ~broker[b].pending
    BY <1>1 DEF S!Initialize
  <2>10. Fine(b)'
    BY <1>0, <2>3, <2>6, <2>7, <2>8, <2>9
       DEF Fine, BoundaryOK, Complete, HandleOK, LockOK, ChildOK, InRun
  <2> QED
    BY <2>6, <2>7, <2>8, <2>10, Enough DEF Unmoved
<1>2. ASSUME NEW stage \in S!Stage, NEW bad \in SUBSET (S!Part \cup {"profile"}),
             S!InitializeFails(b, stage, bad), S!GoExec(b, "close")
      PROVE  IInv'
  <2> DEFINE s == S!Reached(b, stage)
             new == S!Cleaned(b, s, bad)
  <2>1. s \in S!BrokerState /\ s.verified = broker[b].verified /\ s.launches = broker[b].launches
        /\ s.accepting = broker[b].accepting /\ s.closed = broker[b].closed
    BY <1>0, ReachedType
  <2>2. new \in S!BrokerState /\ new.launches = broker[b].launches
        /\ new.verified = broker[b].verified /\ new.accepting = broker[b].accepting
        /\ new.closed = broker[b].closed /\ (~new.pending => new.saved = S!None)
    BY <1>0, RolledBack
  <2>3. broker' = [broker EXCEPT ![b] = new] /\ ~broker[b].verified /\ ~broker[b].closed
    BY <1>2 DEF S!InitializeFails
  <2>4. dacl' \in [Workspace -> [S!Part -> S!Dacl]] /\ exists' \in [Workspace -> BOOLEAN]
    <3> DEFINE w == WorkspaceOf[b]
               d == IF stage = "acl" THEN S!Granted(b, dacl[w]) ELSE dacl[w]
    <3>1. w \in Workspace /\ dacl[w] \in [S!Part -> S!Dacl]
      BY <1>0 DEF S!BrokerTypeOK, BrokerAssumption
    <3>2. d \in [S!Part -> S!Dacl]
      BY <3>1, GrantedType
    <3>3. S!Restored(b, s, bad, d) \in [S!Part -> S!Dacl]
      BY <2>1, <3>2, RestoredType
    <3>4. dacl' = [dacl EXCEPT ![w] = S!Restored(b, s, bad, d)] /\ exists' = exists
      BY <1>0, <1>2, <3>1 DEF S!InitializeFails, S!BrokerTypeOK
    <3> HIDE DEF d
    <3> QED
      BY <1>0, <3>1, <3>3, <3>4 DEF S!BrokerTypeOK
  <2> HIDE DEF new, s
  <2>5. exec' \in [Broker -> S!ExecPC] /\ exec'[b] = "close"
        /\ \A c \in Broker \ {b} : exec'[c] = exec[c]
    BY <1>2 DEF S!GoExec, IInv, S!TypeOK, S!ExecPC
  <2>6. UNCHANGED <<handle, child, kill>>
    BY DEF S!Begin
  <2>7. S!TypeOK' /\ broker'[b] = new /\ \A c \in Broker \ {b} : broker'[c] = broker[c]
    BY <2>2, <2>3, <2>4, <2>5, <2>6, BrokerMoves
  <2>8. Fine(b)'
    BY <1>0, <2>2, <2>3, <2>5, <2>6, <2>7
       DEF Fine, BoundaryOK, Complete, HandleOK, LockOK, ChildOK, InRun
  <2> QED
    BY <2>5, <2>6, <2>7, <2>8, Enough DEF Unmoved
<1> QED
  BY <1>1, <1>2 DEF S!Begin

-----------------------------------------------------------------------------
(* create and run.                                                          *)

\* What changes of one execution stays in its range.
BrokerMovesTo(b, h, k, pc, kl) ==
          /\ handle' = [handle EXCEPT ![b] = h] /\ h \in S!HandleState
          /\ child' = [child EXCEPT ![b] = k] /\ k \in S!ChildState
          /\ exec' = [exec EXCEPT ![b] = pc] /\ pc \in S!ExecPC
          /\ kill' = [kill EXCEPT ![b] = kl] /\ kl \in [S!Caller -> S!KillPC]

\* A step of one execution that leaves its broker alone.
LEMMA HandleMoves ==
  ASSUME IInv, NEW b \in Broker, UNCHANGED S!brokerVars,
         NEW h, NEW k, NEW pc, NEW kl, BrokerMovesTo(b, h, k, pc, kl),
         h.held = handle[b].held
  PROVE  /\ S!TypeOK' /\ \A c \in Broker \ {b} : Unmoved(c)
         /\ broker'[b] = broker[b] /\ handle'[b] = h /\ child'[b] = k
         /\ exec'[b] = pc /\ kill'[b] = kl
<1>1. S!TypeOK
  BY DEF IInv
<1>2. /\ handle'[b] = h /\ child'[b] = k /\ exec'[b] = pc /\ kill'[b] = kl
      /\ broker' = broker /\ broker'[b] = broker[b]
  BY <1>1 DEF BrokerMovesTo, S!TypeOK, S!brokerVars
<1>3. \A c \in Broker \ {b} : Unmoved(c)
  BY <1>1 DEF BrokerMovesTo, S!TypeOK, S!brokerVars, Unmoved
<1>4. \A c \in Broker : handle'[c].held = handle[c].held
  BY <1>2, <1>3 DEF Unmoved
<1>5. S!TypeOK'
  BY <1>1, <1>2, <1>4 DEF BrokerMovesTo, S!TypeOK, S!BrokerTypeOK, S!brokerVars
<1> QED
  BY <1>2, <1>3, <1>5

\* What a broker's record becomes.
Becomes(b, r) == broker' = [broker EXCEPT ![b] = r]

\* A step that gives the pin back, or takes it, with the handle.
LEMMA PinMoves ==
  ASSUME IInv, NEW b \in Broker, UNCHANGED <<dacl, exists>>,
         NEW h, NEW k, NEW pc, NEW kl, BrokerMovesTo(b, h, k, pc, kl),
         NEW r \in S!BrokerState, Becomes(b, r),
         h.held => r.launches = 1, ~h.held => r.launches = 0
  PROVE  /\ S!TypeOK' /\ \A c \in Broker \ {b} : Unmoved(c)
         /\ broker'[b] = r /\ handle'[b] = h /\ child'[b] = k
         /\ exec'[b] = pc /\ kill'[b] = kl
<1>1. S!TypeOK
  BY DEF IInv
<1>2. /\ handle'[b] = h /\ child'[b] = k /\ exec'[b] = pc /\ kill'[b] = kl /\ broker'[b] = r
  BY <1>1 DEF BrokerMovesTo, Becomes, S!TypeOK, S!BrokerTypeOK
<1>3. \A c \in Broker \ {b} : Unmoved(c)
  BY <1>1 DEF BrokerMovesTo, Becomes, S!TypeOK, S!BrokerTypeOK, Unmoved
<1>4. \A c \in Broker : broker'[c].launches = IF handle'[c].held THEN 1 ELSE 0
  BY <1>1, <1>2, <1>3 DEF Unmoved, S!TypeOK
<1>5. S!TypeOK'
  BY <1>1, <1>4 DEF BrokerMovesTo, Becomes, S!TypeOK, S!BrokerTypeOK
<1> QED
  BY <1>2, <1>3, <1>5

\* So the invariant follows from the parts about the one that moved.
LEMMA HandleStep ==
  ASSUME IInv, NEW b \in Broker, UNCHANGED S!brokerVars,
         NEW h, NEW k, NEW pc, NEW kl, BrokerMovesTo(b, h, k, pc, kl),
         h.held = handle[b].held,
         HandleOK(h, k, pc), LockOK(h, pc, kl), ChildOK(h, k, pc)
  PROVE  IInv'
<1>1. /\ S!TypeOK' /\ \A c \in Broker \ {b} : Unmoved(c)
      /\ broker'[b] = broker[b] /\ handle'[b] = h /\ child'[b] = k
      /\ exec'[b] = pc /\ kill'[b] = kl
  BY HandleMoves
<1>2. BoundaryOK(broker[b], handle[b])
  BY DEF IInv, Fine
<1>3. BoundaryOK(broker[b], h)
  BY <1>2 DEF BoundaryOK
<1>4. Fine(b)'
  BY <1>1, <1>3 DEF Fine
<1> QED
  BY <1>1, <1>4, Enough

\* What becomes of a broker's pins.
Pins(b, n) == broker' = [broker EXCEPT ![b].launches = n]

\* The same for a step that takes the pin or gives it back.
LEMMA PinStep ==
  ASSUME IInv, NEW b \in Broker, UNCHANGED <<dacl, exists>>,
         NEW h, NEW k, NEW pc, NEW kl, BrokerMovesTo(b, h, k, pc, kl),
         NEW n \in Nat, Pins(b, n), h.held => n = 1, ~h.held => n = 0,
         h.held => Complete(broker[b]),
         HandleOK(h, k, pc), LockOK(h, pc, kl), ChildOK(h, k, pc)
  PROVE  IInv'
<1>1. BoundaryOK(broker[b], handle[b]) /\ broker[b] \in S!BrokerState
  BY Types DEF IInv, Fine
<1>2. PICK r \in S!BrokerState : r = [broker[b] EXCEPT !.launches = n]
  BY <1>1 DEF S!BrokerState
<1>3. /\ Becomes(b, r) /\ r.launches = n
      /\ r.accepting = broker[b].accepting /\ r.verified = broker[b].verified
      /\ r.token = broker[b].token /\ r.profile = broker[b].profile
      /\ r.saved = broker[b].saved /\ r.closed = broker[b].closed
      /\ r.pending = broker[b].pending
  BY <1>1, <1>2 DEF S!BrokerState, Becomes, Pins
<1>4. r.closed => r = [S!NewBroker EXCEPT !.closed = TRUE]
  BY <1>1, <1>2, <1>3 DEF BoundaryOK, Complete, S!NewBroker
<1>5. BoundaryOK(r, h)
  BY <1>1, <1>3, <1>4 DEF BoundaryOK, Complete
<1>6. r \in S!BrokerState /\ (h.held => r.launches = 1) /\ (~h.held => r.launches = 0)
  BY <1>2, <1>3
<1>7. /\ S!TypeOK' /\ \A c \in Broker \ {b} : Unmoved(c)
      /\ broker'[b] = r /\ handle'[b] = h /\ child'[b] = k
      /\ exec'[b] = pc /\ kill'[b] = kl
  BY <1>3, <1>6, PinMoves
<1>8. Fine(b)'
  BY <1>5, <1>7 DEF Fine
<1> QED
  BY <1>7, <1>8, Enough

\* What the steps below start from.
LEMMA Before ==
  ASSUME IInv, NEW b \in Broker
  PROVE  /\ S!TypeOK /\ broker[b] \in S!BrokerState /\ handle[b] \in S!HandleState
         /\ child[b] \in S!ChildState /\ exec[b] \in S!ExecPC
         /\ kill[b] \in [S!Caller -> S!KillPC]
         /\ handle[b].held => broker[b].launches = 1
         /\ ~handle[b].held => broker[b].launches = 0
         /\ BoundaryOK(broker[b], handle[b])
         /\ HandleOK(handle[b], child[b], exec[b])
         /\ LockOK(handle[b], exec[b], kill[b])
         /\ ChildOK(handle[b], child[b], exec[b])
  BY Types DEF IInv, Fine

\* create takes a pin with the job, on a boundary that is complete.
LEMMA CreateStep == ASSUME IInv, NEW b \in Broker, S!Create(b) PROVE IInv'
<1>0. exec[b] = "create"
  BY DEF S!Create, S!AtExec
<1>1. CASE /\ S!MayLaunch(b)
           /\ broker' = [broker EXCEPT ![b].launches = @ + 1]
           /\ handle' = [handle EXCEPT ![b].job = "open", ![b].held = TRUE]
           /\ S!GoExec(b, "enter")
  <2>1. PICK h : h = [handle[b] EXCEPT !.job = "open", !.held = TRUE]
    OBVIOUS
  <2>2. h \in S!HandleState /\ h.held /\ h.job = "open" /\ h.closed = handle[b].closed
        /\ h.lock = handle[b].lock /\ handle' = [handle EXCEPT ![b] = h]
    BY <1>1, <2>1, Before DEF S!HandleState
  <2>3. ~handle[b].held /\ handle[b].job = "none" /\ child[b] = S!NoChild
    BY <1>0, Before DEF HandleOK
  <2>4. BrokerMovesTo(b, h, child[b], "enter", kill[b])
    BY <1>1, <2>2, Before, Same DEF S!Create, S!GoExec, BrokerMovesTo, S!ExecPC
  <2>5. Pins(b, 1)
    <3>1. broker[b].launches + 1 = 1
      BY <2>3, Before
    <3> QED
      BY <1>1, <3>1 DEF Pins
  <2>6. Complete(broker[b])
    BY <1>1, Before DEF S!MayLaunch, BoundaryOK
  <2>7. HandleOK(h, child[b], "enter") /\ LockOK(h, "enter", kill[b])
        /\ ChildOK(h, child[b], "enter")
    BY <1>0, <2>2, <2>3, Before DEF HandleOK, LockOK, ChildOK, InRun, S!NoChild
  <2>8. UNCHANGED <<dacl, exists>>
    BY DEF S!Create
  <2> QED
    BY <2>2, <2>4, <2>5, <2>6, <2>7, <2>8, PinStep
<1>2. CASE UNCHANGED <<broker, handle>> /\ S!GoExec(b, "close")
  <2>1. BrokerMovesTo(b, handle[b], child[b], "close", kill[b])
    BY <1>2, Before, Same DEF S!Create, S!GoExec, BrokerMovesTo, S!ExecPC
  <2>2. HandleOK(handle[b], child[b], "close") /\ LockOK(handle[b], "close", kill[b])
        /\ ChildOK(handle[b], child[b], "close")
    BY <1>0, Before DEF HandleOK, LockOK, ChildOK, InRun
  <2>3. UNCHANGED S!brokerVars
    BY <1>2 DEF S!Create, S!brokerVars
  <2> QED
    BY <2>1, <2>2, <2>3, HandleStep
<1> QED
  BY <1>1, <1>2 DEF S!Create

\* run takes the lock, or returns at once.
LEMMA EnterStep == ASSUME IInv, NEW b \in Broker, S!Enter(b) PROVE IInv'
<1>0. exec[b] = "enter" /\ UNCHANGED S!brokerVars
  BY DEF S!Enter, S!AtExec
<1>1. CASE /\ ~handle[b].closed /\ ~handle[b].closing /\ handle[b].lock = "free"
           /\ handle' = [handle EXCEPT ![b].lock = "run"]
           /\ S!GoExec(b, "locked")
  <2>1. PICK h : h = [handle[b] EXCEPT !.lock = "run"]
    OBVIOUS
  <2>2. h \in S!HandleState /\ h.held = handle[b].held /\ h.job = handle[b].job
        /\ h.closed = handle[b].closed /\ h.lock = "run"
        /\ handle' = [handle EXCEPT ![b] = h]
    BY <1>1, <2>1, Before DEF S!HandleState
  <2>3. BrokerMovesTo(b, h, child[b], "locked", kill[b])
    BY <1>1, <2>2, Before, Same DEF S!Enter, S!GoExec, BrokerMovesTo, S!ExecPC
  <2>4. handle[b].job = "open"
    BY <1>0, <1>1, Before DEF HandleOK, S!HandleState
  <2>5. HandleOK(h, child[b], "locked") /\ LockOK(h, "locked", kill[b])
        /\ ChildOK(h, child[b], "locked")
    BY <1>0, <1>1, <2>2, <2>4, Before DEF HandleOK, LockOK, ChildOK, InRun, S!Caller
  <2> QED
    BY <1>0, <2>2, <2>3, <2>5, HandleStep
<1>2. CASE UNCHANGED handle /\ S!GoExec(b, "finally")
  <2>1. BrokerMovesTo(b, handle[b], child[b], "finally", kill[b])
    BY <1>2, Before, Same DEF S!Enter, S!GoExec, BrokerMovesTo, S!ExecPC
  <2>2. HandleOK(handle[b], child[b], "finally") /\ LockOK(handle[b], "finally", kill[b])
        /\ ChildOK(handle[b], child[b], "finally")
    BY <1>0, Before DEF HandleOK, LockOK, ChildOK, InRun
  <2> QED
    BY <1>0, <2>1, <2>2, HandleStep
<1> QED
  BY <1>1, <1>2 DEF S!Enter

\* run lets go of the lock it holds; what is left of the child is k.
LEMMA LeaveStep ==
  ASSUME IInv, NEW b \in Broker, UNCHANGED S!brokerVars, S!LeaveRun(b),
         UNCHANGED <<child, kill>>, exec[b] \in InRun \ {"launched"}
  PROVE  IInv'
<1>1. PICK h : h = [handle[b] EXCEPT !.lock = "free"]
  OBVIOUS
<1>2. h \in S!HandleState /\ h.held = handle[b].held /\ h.job = handle[b].job
      /\ h.closed = handle[b].closed /\ h.lock = "free"
      /\ handle' = [handle EXCEPT ![b] = h]
  BY <1>1, Before DEF S!HandleState, S!LeaveRun
<1>3. BrokerMovesTo(b, h, child[b], "finally", kill[b])
  BY <1>2, Before, Same DEF S!LeaveRun, S!GoExec, BrokerMovesTo, S!ExecPC
<1>4. HandleOK(h, child[b], "finally") /\ LockOK(h, "finally", kill[b])
      /\ ChildOK(h, child[b], "finally")
  BY <1>2, Before DEF HandleOK, LockOK, ChildOK, InRun, S!Caller
<1> QED
  BY <1>2, <1>3, <1>4, HandleStep

\* CreateProcess makes a child that does not run yet.
LEMMA LaunchStep == ASSUME IInv, NEW b \in Broker, S!Launch(b) PROVE IInv'
<1>0. exec[b] = "locked" /\ UNCHANGED S!brokerVars /\ UNCHANGED kill
  BY DEF S!Launch, S!AtExec
<1>1. CASE /\ child' = [child EXCEPT ![b].state = "suspended"]
           /\ S!GoExec(b, "launched") /\ UNCHANGED handle
  <2>1. PICK k : k = [child[b] EXCEPT !.state = "suspended"]
    OBVIOUS
  <2>2. k \in S!ChildState /\ k.state = "suspended" /\ child' = [child EXCEPT ![b] = k]
    BY <1>1, <2>1, Before DEF S!ChildState
  <2>3. BrokerMovesTo(b, handle[b], k, "launched", kill[b])
    BY <1>0, <1>1, <2>2, Before, Same DEF S!GoExec, BrokerMovesTo, S!ExecPC
  <2>4. HandleOK(handle[b], k, "launched") /\ LockOK(handle[b], "launched", kill[b])
        /\ ChildOK(handle[b], k, "launched")
    BY <1>0, <2>2, Before DEF HandleOK, LockOK, ChildOK, InRun
  <2> QED
    BY <1>0, <2>3, <2>4, HandleStep
<1>2. CASE S!LeaveRun(b) /\ UNCHANGED child
  <2>1. exec[b] \in InRun \ {"launched"}
    BY <1>0 DEF InRun
  <2> QED
    BY <1>0, <1>2, <2>1, LeaveStep
<1> QED
  BY <1>1, <1>2 DEF S!Launch

\* A job that is closed for good with its pin given back.
Shut(h) ==
  /\ h \in S!HandleState
  /\ h.job = "closed" /\ h.closed /\ ~h.held /\ h.lock = "free"

\* Giving the pin back leaves none.
LEMMA PinGone ==
  ASSUME IInv, NEW b \in Broker,
         IF handle[b].held THEN S!Release(b) ELSE UNCHANGED broker
  PROVE  Pins(b, 0)
<1>1. CASE handle[b].held
  <2>1. broker[b].launches - 1 = 0
    BY <1>1, Before
  <2> QED
    BY <1>1, <2>1 DEF S!Release, Pins
<1>2. CASE ~handle[b].held
  <2>1. broker[b].launches = 0 /\ broker' = broker
    BY <1>2, Before
  <2>2. [broker[b] EXCEPT !.launches = 0] = broker[b]
    BY <2>1, Before DEF S!BrokerState
  <2>3. broker = [broker EXCEPT ![b] = broker[b]]
    BY Before DEF S!TypeOK, S!BrokerTypeOK
  <2> QED
    BY <2>1, <2>2, <2>3 DEF Pins
<1> QED
  BY <1>1, <1>2

\* The child runs only once it is in the job; an error takes everything down.
LEMMA AssignStep == ASSUME IInv, NEW b \in Broker, S!Assign(b) PROVE IInv'
<1>0. exec[b] = "launched" /\ UNCHANGED <<dacl, exists>> /\ UNCHANGED kill
  BY DEF S!Assign, S!AtExec
<1>1. CASE /\ child' = [child EXCEPT ![b] = [state |-> "running", contained |-> TRUE]]
           /\ S!GoExec(b, "wait") /\ UNCHANGED <<broker, handle>>
  <2>1. PICK k : k = [state |-> "running", contained |-> TRUE]
    OBVIOUS
  <2>2. k \in S!ChildState /\ k.state = "running" /\ k.contained
        /\ child' = [child EXCEPT ![b] = k]
    BY <1>1, <2>1 DEF S!ChildState
  <2>3. BrokerMovesTo(b, handle[b], k, "wait", kill[b])
    BY <1>0, <1>1, <2>2, Before, Same DEF S!GoExec, BrokerMovesTo, S!ExecPC
  <2>4. HandleOK(handle[b], k, "wait") /\ LockOK(handle[b], "wait", kill[b])
        /\ ChildOK(handle[b], k, "wait")
    BY <1>0, <2>2, Before DEF HandleOK, LockOK, ChildOK, InRun
  <2>5. UNCHANGED S!brokerVars
    BY <1>0, <1>1 DEF S!brokerVars
  <2> QED
    BY <2>3, <2>4, <2>5, HandleStep
<1>2. CASE /\ child' = [child EXCEPT ![b].state = "dead"]
           /\ handle' = [handle EXCEPT ![b].job = "closed", ![b].closed = TRUE,
                                       ![b].held = FALSE, ![b].lock = "free"]
           /\ IF handle[b].held THEN S!Release(b) ELSE UNCHANGED broker
           /\ S!GoExec(b, "finally")
  <2>1. PICK h, k : /\ h = [handle[b] EXCEPT !.job = "closed", !.closed = TRUE,
                                             !.held = FALSE, !.lock = "free"]
                    /\ k = [child[b] EXCEPT !.state = "dead"]
    OBVIOUS
  <2>2. Shut(h) /\ handle' = [handle EXCEPT ![b] = h]
    BY <1>2, <2>1, Before DEF S!HandleState, Shut
  <2>3. k \in S!ChildState /\ k.state = "dead" /\ child' = [child EXCEPT ![b] = k]
    BY <1>2, <2>1, Before DEF S!ChildState
  <2>4. BrokerMovesTo(b, h, k, "finally", kill[b])
    BY <1>0, <1>2, <2>2, <2>3, Before, Same DEF S!GoExec, BrokerMovesTo, S!ExecPC, Shut
  <2>5. HandleOK(h, k, "finally") /\ LockOK(h, "finally", kill[b]) /\ ChildOK(h, k, "finally")
    BY <1>0, <2>2, <2>3, Before DEF HandleOK, LockOK, ChildOK, InRun, Shut, S!Caller
  <2>6. Pins(b, 0)
    BY <1>2, PinGone
  <2>7. ~h.held
    BY <2>2 DEF Shut
  <2> QED
    BY <1>0, <2>4, <2>5, <2>6, <2>7, PinStep
<1> QED
  BY <1>1, <1>2 DEF S!Assign

\* What terminating the job leaves of the child: it does not run.
EndedBy(b, k) ==
    /\ k \in S!ChildState
    /\ k.state # "running"
    /\ k.state = "suspended" => child[b].state = "suspended"
    /\ child[b] = S!NoChild => k = S!NoChild
    /\ child' = [child EXCEPT ![b] = k]

\* TerminateJobObject reaches a child that runs, because it is in the job.
LEMMA Slaying ==
  ASSUME IInv, NEW b \in Broker, child' = S!Slain(b)
  PROVE  \E k : EndedBy(b, k)
<1>1. PICK k : k = [child[b] EXCEPT !.state =
                      IF S!Alive(b) /\ child[b].contained THEN "dead" ELSE @]
  OBVIOUS
<1>2. child' = [child EXCEPT ![b] = k]
  BY <1>1, Before DEF S!Slain, S!TypeOK
<1>3. child[b].state = "running" => child[b].contained
  BY Before DEF ChildOK
<1>4. k \in S!ChildState /\ k.state # "running"
      /\ (k.state = "suspended" => child[b].state = "suspended")
  BY <1>1, <1>3, Before DEF S!ChildState, S!Alive
<1>5. child[b] = S!NoChild => k = S!NoChild
  BY <1>1 DEF S!NoChild, S!Alive
<1> QED
  BY <1>2, <1>4, <1>5 DEF EndedBy

\* The end of the wait, with the child dead or not.
LEMMA WaitStep == ASSUME IInv, NEW b \in Broker, S!Wait(b) PROVE IInv'
<1>0. exec[b] = "wait" /\ UNCHANGED S!brokerVars /\ UNCHANGED <<handle, kill>>
      /\ S!GoExec(b, "drain")
  BY DEF S!Wait, S!AtExec
<1>1. CASE child' = S!Slain(b)
  <2>1. PICK k : EndedBy(b, k)
    BY <1>1, Slaying
  <2>2. BrokerMovesTo(b, handle[b], k, "drain", kill[b])
    BY <1>0, <2>1, Before, Same DEF S!GoExec, BrokerMovesTo, S!ExecPC, EndedBy
  <2>3. HandleOK(handle[b], k, "drain") /\ LockOK(handle[b], "drain", kill[b])
        /\ ChildOK(handle[b], k, "drain")
    BY <1>0, <2>1, Before DEF HandleOK, LockOK, ChildOK, InRun, EndedBy
  <2> QED
    BY <1>0, <2>2, <2>3, HandleStep
<1>2. CASE UNCHANGED child
  <2>1. BrokerMovesTo(b, handle[b], child[b], "drain", kill[b])
    BY <1>0, <1>2, Before, Same DEF S!GoExec, BrokerMovesTo, S!ExecPC
  <2>2. HandleOK(handle[b], child[b], "drain") /\ LockOK(handle[b], "drain", kill[b])
        /\ ChildOK(handle[b], child[b], "drain")
    BY <1>0, Before DEF HandleOK, LockOK, ChildOK, InRun
  <2> QED
    BY <1>0, <2>1, <2>2, HandleStep
<1> QED
  BY <1>1, <1>2 DEF S!Wait

\* The end of run.
LEMMA DrainStep == ASSUME IInv, NEW b \in Broker, S!Drain(b) PROVE IInv'
<1>1. S!LeaveRun(b) /\ UNCHANGED S!brokerVars /\ UNCHANGED <<child, kill>>
      /\ exec[b] \in InRun \ {"launched"}
  BY DEF S!Drain, S!AtExec, InRun
<1> QED
  BY <1>1, LeaveStep

-----------------------------------------------------------------------------
(* kill_tree.                                                               *)

\* What becomes of a call of kill_tree.
LEMMA GoKillMoves ==
  ASSUME S!TypeOK, NEW b \in Broker, NEW c \in S!Caller, NEW pc \in S!KillPC, S!GoKill(b, c, pc)
  PROVE  \E kl \in [S!Caller -> S!KillPC] :
           /\ kill' = [kill EXCEPT ![b] = kl]
           /\ kl[c] = pc
           /\ \A d \in S!Caller \ {c} : kl[d] = kill[b][d]
<1>1. kill[b] \in [S!Caller -> S!KillPC]
  BY DEF S!TypeOK
<1>2. PICK kl : kl = [kill[b] EXCEPT ![c] = pc]
  OBVIOUS
<1>3. kl \in [S!Caller -> S!KillPC] /\ kl[c] = pc /\ \A d \in S!Caller \ {c} : kl[d] = kill[b][d]
  BY <1>1, <1>2
<1>4. kill' = [kill EXCEPT ![b] = kl]
  BY <1>2 DEF S!GoKill
<1> QED
  BY <1>3, <1>4

\* A handle is marked while its job is there; a closed one is left alone.
LEMMA KillMarkStep ==
  ASSUME IInv, NEW b \in Broker, NEW c \in S!Caller, S!KillMark(b, c)
  PROVE  IInv'
<1>0. UNCHANGED S!brokerVars /\ UNCHANGED child /\ handle[b].job # "none"
      /\ handle[b] \in S!HandleState
  BY Before DEF S!KillMark
<1>1. PICK pc \in S!ExecPC : /\ exec' = [exec EXCEPT ![b] = pc]
                             /\ \/ pc = exec[b]
                                \/ exec[b] = "finally" /\ pc = "killing"
  <2>1. CASE c = "owner"
    BY <2>1 DEF S!KillMark, S!AtExec, S!GoExec, S!ExecPC
  <2>2. CASE c # "owner"
    <3>1. exec' = exec
      BY <2>2 DEF S!KillMark
    <3>2. exec = [exec EXCEPT ![b] = exec[b]] /\ exec[b] \in S!ExecPC
      BY Before, Same
    <3>3. exec' = [exec EXCEPT ![b] = exec[b]]
      BY <3>1, <3>2
    <3> QED
      BY <3>2, <3>3
  <2> QED
    BY <2>1, <2>2
<1>2. PICK h \in S!HandleState : /\ handle' = [handle EXCEPT ![b] = h]
                                 /\ h.held = handle[b].held /\ h.job = handle[b].job
                                 /\ h.closed = handle[b].closed /\ h.lock = handle[b].lock
  <2>1. CASE UNCHANGED handle
    BY <2>1, <1>0, Before, Same
  <2>2. CASE handle' = [handle EXCEPT ![b].closing = TRUE]
    <3>1. PICK h : h = [handle[b] EXCEPT !.closing = TRUE]
      OBVIOUS
    <3>2. h \in S!HandleState /\ h.held = handle[b].held /\ h.job = handle[b].job
          /\ h.closed = handle[b].closed /\ h.lock = handle[b].lock
      BY <1>0, <3>1 DEF S!HandleState
    <3>3. handle' = [handle EXCEPT ![b] = h]
      BY <2>2, <3>1
    <3> QED
      BY <3>2, <3>3
  <2> QED
    BY <2>1, <2>2 DEF S!KillMark
<1>3. PICK kl \in [S!Caller -> S!KillPC] :
        /\ kill' = [kill EXCEPT ![b] = kl]
        /\ kl[c] \in {"over", "marked"}
        /\ \A d \in S!Caller \ {c} : kl[d] = kill[b][d]
  <2>1. S!GoKill(b, c, "over") \/ S!GoKill(b, c, "marked")
    BY DEF S!KillMark
  <2>2. "over" \in S!KillPC /\ "marked" \in S!KillPC
    BY DEF S!KillPC
  <2> QED
    BY <2>1, <2>2, Before, GoKillMoves
<1>4. BrokerMovesTo(b, h, child[b], pc, kl)
  BY <1>0, <1>1, <1>2, <1>3, Before, Same DEF BrokerMovesTo
<1>5. HandleOK(h, child[b], pc) /\ LockOK(h, pc, kl) /\ ChildOK(h, child[b], pc)
  BY <1>0, <1>1, <1>2, <1>3, Before DEF HandleOK, LockOK, ChildOK, InRun
<1> QED
  BY <1>0, <1>2, <1>4, <1>5, HandleStep

\* The job is terminated before the run lock is waited for.
LEMMA KillTerminateStep ==
  ASSUME IInv, NEW b \in Broker, NEW c \in S!Caller, S!KillTerminate(b, c) PROVE IInv'
<1>0. UNCHANGED S!brokerVars /\ UNCHANGED <<handle, exec>> /\ kill[b][c] = "marked"
  BY DEF S!KillTerminate, S!AtKill
<1>1. PICK kl \in [S!Caller -> S!KillPC] :
        /\ kill' = [kill EXCEPT ![b] = kl]
        /\ kl[c] = "waiting"
        /\ \A d \in S!Caller \ {c} : kl[d] = kill[b][d]
  <2>1. S!GoKill(b, c, "waiting") /\ "waiting" \in S!KillPC
    BY DEF S!KillTerminate, S!KillPC
  <2> QED
    BY <2>1, Before, GoKillMoves
<1>2. PICK k \in S!ChildState : /\ child' = [child EXCEPT ![b] = k]
                                /\ k = child[b] \/ EndedBy(b, k)
  <2>1. CASE handle[b].closed
    BY <2>1, Before, Same DEF S!KillTerminate
  <2>2. CASE ~handle[b].closed
    <3>1. child' = S!Slain(b)
      BY <2>2 DEF S!KillTerminate
    <3> QED
      BY <3>1, Slaying DEF EndedBy
  <2> QED
    BY <2>1, <2>2
<1>3. BrokerMovesTo(b, handle[b], k, exec[b], kl)
  BY <1>0, <1>1, <1>2, Before, Same DEF BrokerMovesTo
<1>4. HandleOK(handle[b], k, exec[b]) /\ LockOK(handle[b], exec[b], kl)
      /\ ChildOK(handle[b], k, exec[b])
  BY <1>0, <1>1, <1>2, Before DEF HandleOK, LockOK, ChildOK, InRun, EndedBy
<1> QED
  BY <1>0, <1>3, <1>4, HandleStep

\* The run lock goes from nobody to the one that kills.
LEMMA KillAcquireStep ==
  ASSUME IInv, NEW b \in Broker, NEW c \in S!Caller, S!KillAcquire(b, c) PROVE IInv'
<1>0. UNCHANGED S!brokerVars /\ UNCHANGED <<child, exec>> /\ handle[b].lock = "free"
      /\ kill[b][c] = "waiting"
  BY DEF S!KillAcquire, S!AtKill
<1>1. PICK kl \in [S!Caller -> S!KillPC] :
        /\ kill' = [kill EXCEPT ![b] = kl]
        /\ \A d \in S!Caller \ {c} : kl[d] = kill[b][d]
  <2>1. S!GoKill(b, c, "holding") /\ "holding" \in S!KillPC
    BY DEF S!KillAcquire, S!KillPC
  <2> QED
    BY <2>1, Before, GoKillMoves
<1>2. PICK h : h = [handle[b] EXCEPT !.lock = c]
  OBVIOUS
<1>3. h \in S!HandleState /\ h.held = handle[b].held /\ h.job = handle[b].job
      /\ h.closed = handle[b].closed /\ h.lock = c /\ handle' = [handle EXCEPT ![b] = h]
  BY <1>2, Before DEF S!HandleState, S!KillAcquire
<1>4. BrokerMovesTo(b, h, child[b], exec[b], kl)
  BY <1>0, <1>1, <1>3, Before, Same DEF BrokerMovesTo
<1>5. HandleOK(h, child[b], exec[b]) /\ ChildOK(h, child[b], exec[b])
  BY <1>3, Before DEF HandleOK, ChildOK
<1>6. \A d \in S!Caller : kill[b][d] # "holding" /\ d # "free"
  BY <1>0, Before DEF LockOK, S!Caller
<1>7. LockOK(h, exec[b], kl)
  BY <1>0, <1>1, <1>3, <1>6, Before DEF LockOK, InRun, S!Caller
<1> QED
  BY <1>0, <1>3, <1>4, <1>5, <1>7, HandleStep

\* The second of two kills finds the handle closed; the first closes it.
LEMMA KillCloseStep ==
  ASSUME IInv, NEW b \in Broker, NEW c \in S!Caller, S!KillClose(b, c) PROVE IInv'
<1>0. UNCHANGED <<dacl, exists>> /\ UNCHANGED exec /\ kill[b][c] = "holding"
  BY DEF S!KillClose, S!AtKill
<1>1. PICK kl \in [S!Caller -> S!KillPC] :
        /\ kill' = [kill EXCEPT ![b] = kl]
        /\ kl[c] = "over"
        /\ \A d \in S!Caller \ {c} : kl[d] = kill[b][d]
  <2>1. S!GoKill(b, c, "over") /\ "over" \in S!KillPC
    BY DEF S!KillClose, S!KillPC
  <2> QED
    BY <2>1, Before, GoKillMoves
<1>2. handle[b].lock = c /\ exec[b] \notin InRun
  BY <1>0, Before DEF LockOK, S!Caller
<1>3. \A d \in S!Caller : kl[d] # "holding"
  BY <1>1, <1>2, Before DEF LockOK
<1>4. CASE /\ handle[b].closed
           /\ handle' = [handle EXCEPT ![b].closing = FALSE, ![b].lock = "free"]
           /\ UNCHANGED <<broker, child>>
  <2>1. PICK h : h = [handle[b] EXCEPT !.closing = FALSE, !.lock = "free"]
    OBVIOUS
  <2>2. h \in S!HandleState /\ h.held = handle[b].held /\ h.job = handle[b].job
        /\ h.closed = handle[b].closed /\ h.lock = "free" /\ handle' = [handle EXCEPT ![b] = h]
    BY <1>4, <2>1, Before DEF S!HandleState
  <2>3. BrokerMovesTo(b, h, child[b], exec[b], kl)
    BY <1>0, <1>1, <1>4, <2>2, Before, Same DEF BrokerMovesTo
  <2>4. HandleOK(h, child[b], exec[b]) /\ ChildOK(h, child[b], exec[b])
    BY <2>2, Before DEF HandleOK, ChildOK
  <2>5. LockOK(h, exec[b], kl)
    BY <1>2, <1>3, <1>4, <2>2, Before DEF LockOK, HandleOK
  <2>6. UNCHANGED S!brokerVars
    BY <1>0, <1>4 DEF S!brokerVars
  <2> QED
    BY <2>2, <2>3, <2>4, <2>5, <2>6, HandleStep
<1>5. CASE /\ ~handle[b].closed
           /\ child' = S!Slain(b)
           /\ handle' = [handle EXCEPT ![b] = [job |-> "closed", closed |-> TRUE,
                                               closing |-> FALSE, held |-> FALSE,
                                               lock |-> "free"]]
           /\ IF handle[b].held THEN S!Release(b) ELSE UNCHANGED broker
  <2>1. PICK h : h = [job |-> "closed", closed |-> TRUE, closing |-> FALSE,
                      held |-> FALSE, lock |-> "free"]
    OBVIOUS
  <2>2. Shut(h) /\ handle' = [handle EXCEPT ![b] = h]
    BY <1>5, <2>1 DEF Shut, S!HandleState
  <2>3. PICK k : EndedBy(b, k)
    BY <1>5, Slaying
  <2>4. BrokerMovesTo(b, h, k, exec[b], kl)
    BY <1>0, <1>1, <2>2, <2>3, Before, Same DEF BrokerMovesTo, Shut, EndedBy
  <2>5. handle[b].job # "none"
    BY <1>0, Before DEF LockOK
  <2>6. HandleOK(h, k, exec[b]) /\ ChildOK(h, k, exec[b])
    BY <1>2, <2>2, <2>3, <2>5, Before DEF HandleOK, ChildOK, Shut, EndedBy, InRun
  <2>7. LockOK(h, exec[b], kl)
    BY <1>2, <1>3, <2>2 DEF LockOK, Shut
  <2>8. Pins(b, 0) /\ ~h.held
    BY <1>5, <2>2, PinGone DEF Shut
  <2> QED
    BY <1>0, <2>4, <2>6, <2>7, <2>8, PinStep
<1> QED
  BY <1>4, <1>5 DEF S!KillClose

\* A kill that nobody waits for any more may still take the lock.
LEMMA KillCancelledStep ==
  ASSUME IInv, NEW b \in Broker, NEW c \in S!Caller, S!KillCancelled(b, c) PROVE IInv'
<1>0. UNCHANGED S!brokerVars /\ UNCHANGED <<handle, child, exec>> /\ kill[b][c] = "waiting"
  BY DEF S!KillCancelled, S!AtKill
<1>1. PICK kl \in [S!Caller -> S!KillPC] :
        /\ kill' = [kill EXCEPT ![b] = kl]
        /\ kl[c] = "orphan"
        /\ \A d \in S!Caller \ {c} : kl[d] = kill[b][d]
  <2>1. S!GoKill(b, c, "orphan") /\ "orphan" \in S!KillPC
    BY DEF S!KillCancelled, S!KillPC
  <2> QED
    BY <2>1, Before, GoKillMoves
<1>2. BrokerMovesTo(b, handle[b], child[b], exec[b], kl)
  BY <1>0, <1>1, Before, Same DEF BrokerMovesTo
<1>3. LockOK(handle[b], exec[b], kl)
  BY <1>0, <1>1, Before DEF LockOK
<1> QED
  BY <1>0, <1>2, <1>3, Before, HandleStep

\* Then nobody frees it.
LEMMA OrphanAcquireStep ==
  ASSUME IInv, NEW b \in Broker, NEW c \in S!Caller, S!OrphanAcquire(b, c) PROVE IInv'
<1>0. UNCHANGED S!brokerVars /\ UNCHANGED <<child, exec, kill>> /\ handle[b].lock = "free"
  BY DEF S!OrphanAcquire
<1>1. PICK h : h = [handle[b] EXCEPT !.lock = "lost"]
  OBVIOUS
<1>2. h \in S!HandleState /\ h.held = handle[b].held /\ h.job = handle[b].job
      /\ h.closed = handle[b].closed /\ h.lock = "lost" /\ handle' = [handle EXCEPT ![b] = h]
  BY <1>1, Before DEF S!HandleState, S!OrphanAcquire
<1>3. BrokerMovesTo(b, h, child[b], exec[b], kill[b])
  BY <1>0, <1>2, Before, Same DEF BrokerMovesTo
<1>4. HandleOK(h, child[b], exec[b]) /\ LockOK(h, exec[b], kill[b])
      /\ ChildOK(h, child[b], exec[b])
  BY <1>0, <1>2, Before DEF HandleOK, LockOK, ChildOK, InRun, S!Caller
<1> QED
  BY <1>0, <1>2, <1>3, <1>4, HandleStep

-----------------------------------------------------------------------------
(* The rest of execute, the child, the secret.                              *)

\* execute goes on to close its broker.
LEMMA KillReturnedStep == ASSUME IInv, NEW b \in Broker, S!KillReturned(b) PROVE IInv'
<1>0. UNCHANGED S!brokerVars /\ UNCHANGED <<handle, child, kill>>
      /\ exec[b] = "killing" /\ S!GoExec(b, "close")
  BY DEF S!KillReturned, S!AtExec
<1>1. BrokerMovesTo(b, handle[b], child[b], "close", kill[b])
  BY <1>0, Before, Same DEF BrokerMovesTo, S!GoExec, S!ExecPC
<1>2. HandleOK(handle[b], child[b], "close") /\ LockOK(handle[b], "close", kill[b])
      /\ ChildOK(handle[b], child[b], "close")
  BY <1>0, Before DEF HandleOK, LockOK, ChildOK, InRun
<1> QED
  BY <1>0, <1>1, <1>2, HandleStep

\* A child may end by itself.
LEMMA ChildExitsStep == ASSUME IInv, NEW b \in Broker, S!ChildExits(b) PROVE IInv'
<1>0. UNCHANGED S!brokerVars /\ UNCHANGED <<handle, exec, kill>> /\ child[b].state = "running"
  BY DEF S!ChildExits
<1>1. PICK k : k = [child[b] EXCEPT !.state = "dead"]
  OBVIOUS
<1>2. k \in S!ChildState /\ k.state = "dead" /\ child' = [child EXCEPT ![b] = k]
  BY <1>1, Before DEF S!ChildState, S!ChildExits
<1>3. BrokerMovesTo(b, handle[b], k, exec[b], kill[b])
  BY <1>0, <1>2, Before, Same DEF BrokerMovesTo
<1>4. HandleOK(handle[b], k, exec[b]) /\ ChildOK(handle[b], k, exec[b])
  BY <1>0, <1>2, Before DEF HandleOK, ChildOK, S!NoChild
<1> QED
  BY <1>0, <1>3, <1>4, Before, HandleStep

\* A step of the broker alone.
LEMMA BrokerStep ==
  ASSUME IInv, NEW b \in Broker, NEW r \in S!BrokerState, Becomes(b, r),
         r.launches = broker[b].launches,
         dacl' \in [Workspace -> [S!Part -> S!Dacl]], exists' \in [Workspace -> BOOLEAN],
         NEW pc, BrokerMovesTo(b, handle[b], child[b], pc, kill[b]),
         BoundaryOK(r, handle[b]), HandleOK(handle[b], child[b], pc),
         LockOK(handle[b], pc, kill[b]), ChildOK(handle[b], child[b], pc)
  PROVE  IInv'
<1>1. S!TypeOK
  BY DEF IInv
<1>2. /\ handle'[b] = handle[b] /\ child'[b] = child[b] /\ exec'[b] = pc
      /\ kill'[b] = kill[b] /\ broker'[b] = r
  BY <1>1 DEF BrokerMovesTo, Becomes, S!TypeOK, S!BrokerTypeOK
<1>3. \A c \in Broker \ {b} : Unmoved(c)
  BY <1>1 DEF BrokerMovesTo, Becomes, S!TypeOK, S!BrokerTypeOK, Unmoved
<1>4. \A c \in Broker : broker'[c].launches = IF handle'[c].held THEN 1 ELSE 0
  BY <1>1, <1>2, <1>3 DEF Unmoved, S!TypeOK
<1>5. S!TypeOK'
  BY <1>1, <1>4 DEF BrokerMovesTo, Becomes, S!TypeOK, S!BrokerTypeOK
<1>6. Fine(b)'
  BY <1>2 DEF Fine
<1> QED
  BY <1>3, <1>5, <1>6, Enough

\* A restore keeps the access lists what they are.
LEMMA RestoreTypes ==
  ASSUME BrokerAssumption, IInv, NEW b \in Broker, NEW s \in S!BrokerState, NEW bad,
         dacl' = [dacl EXCEPT ![WorkspaceOf[b]] = S!Restored(b, s, bad, @)]
  PROVE  dacl' \in [Workspace -> [S!Part -> S!Dacl]]
<1>1. WorkspaceOf[b] \in Workspace /\ dacl \in [Workspace -> [S!Part -> S!Dacl]]
  BY Before DEF BrokerAssumption, S!TypeOK, S!BrokerTypeOK
<1>2. S!Restored(b, s, bad, dacl[WorkspaceOf[b]]) \in [S!Part -> S!Dacl]
  BY <1>1, RestoredType
<1> QED
  BY <1>1, <1>2

\* What a close makes of the broker's record.
AfterClose(b, s, bad) ==
  IF S!Cleaned(b, s, bad).pending THEN S!Cleaned(b, s, bad)
  ELSE [S!Cleaned(b, s, bad) EXCEPT !.verified = FALSE, !.closed = TRUE]

\* It is a record that fits a handle without a pin.
LEMMA ClosedRecord ==
  ASSUME NEW b, NEW s \in S!BrokerState, NEW bad, NEW h,
         ~s.accepting, ~s.closed, s.launches = 0, ~h.held
  PROVE  \E r \in S!BrokerState :
           /\ r = AfterClose(b, s, bad)
           /\ r.launches = 0 /\ BoundaryOK(r, h)
<1>1. PICK t \in S!BrokerState : t = S!Cleaned(b, s, bad)
  BY CleanedType
<1>2. ~t.accepting /\ ~t.closed /\ t.launches = 0
  BY <1>1, CleanedKeeps
<1>3. ~t.token /\ t.secret = "none"
  BY <1>1, CleanedGivesBack
<1>4. ~t.pending => t.saved = S!None /\ t.profile = "none"
  BY <1>1, CleanedAll
<1>5. CASE t.pending
  <2>1. BoundaryOK(t, h)
    BY <1>2, <1>5 DEF BoundaryOK
  <2> QED
    BY <1>1, <1>2, <1>5, <2>1 DEF AfterClose
<1>6. CASE ~t.pending
  <2>1. PICK r : r = [t EXCEPT !.verified = FALSE, !.closed = TRUE]
    OBVIOUS
  <2>2. r \in S!BrokerState /\ ~r.accepting /\ r.launches = 0 /\ r.saved = S!None
    BY <1>1, <1>2, <1>4, <1>6, <2>1 DEF S!BrokerState
  <2>3. r = [S!NewBroker EXCEPT !.closed = TRUE]
    <3>1. t.accepting = FALSE /\ t.pending = FALSE /\ t.token = FALSE
      BY <1>1, <1>2, <1>3, <1>6 DEF S!BrokerState
    <3>2. r = [verified |-> FALSE, accepting |-> t.accepting, launches |-> t.launches,
               pending |-> t.pending, closed |-> TRUE, token |-> t.token,
               profile |-> t.profile, saved |-> t.saved, secret |-> t.secret]
      BY <1>1, <2>1 DEF S!BrokerState
    <3> QED
      <4>1. t.launches = 0 /\ t.profile = "none" /\ t.saved = S!None /\ t.secret = "none"
        BY <1>2, <1>3, <1>4, <1>6
      <4>2. r = [verified |-> FALSE, accepting |-> FALSE, launches |-> 0, pending |-> FALSE,
                 closed |-> TRUE, token |-> FALSE, profile |-> "none", saved |-> S!None,
                 secret |-> "none"]
        BY <3>1, <3>2, <4>1, Zenon
      <4> QED
        BY <4>2, ClosedNew
  <2>4. BoundaryOK(r, h)
    BY <2>2, <2>3 DEF BoundaryOK
  <2> QED
    BY <1>1, <1>6, <2>1, <2>2, <2>4 DEF AfterClose
<1> QED
  BY <1>5, <1>6

\* close is refused, or cleans up and closes the broker if that succeeds.
LEMMA EndStep == ASSUME BrokerAssumption, IInv, NEW b \in Broker, S!End(b) PROVE IInv'
<1>0. exec[b] = "close" /\ S!GoExec(b, "done") /\ UNCHANGED <<handle, child, kill>>
  BY DEF S!End, S!AtExec
<1>1. BrokerMovesTo(b, handle[b], child[b], "done", kill[b])
  BY <1>0, Before, Same DEF BrokerMovesTo, S!GoExec, S!ExecPC
<1>2. HandleOK(handle[b], child[b], "done") /\ LockOK(handle[b], "done", kill[b])
      /\ ChildOK(handle[b], child[b], "done")
  BY <1>0, Before DEF HandleOK, LockOK, ChildOK, InRun
<1>6. PICK s \in S!BrokerState : s = [broker[b] EXCEPT !.accepting = FALSE]
  BY Before DEF S!BrokerState
<1>3. /\ s \in S!BrokerState /\ s = [broker[b] EXCEPT !.accepting = FALSE]
      /\ ~s.accepting /\ s.verified = broker[b].verified /\ s.closed = broker[b].closed
      /\ s.launches = broker[b].launches /\ s.pending = broker[b].pending
      /\ s.token = broker[b].token /\ s.profile = broker[b].profile
      /\ s.saved = broker[b].saved
  BY <1>6, Before DEF S!BrokerState
<1>4. ASSUME NEW bad, S!Close(b, bad)
      PROVE  IInv'
  <2>1. ~broker[b].closed /\ broker[b].launches = 0 /\ ~handle[b].held
    BY <1>4, Before DEF S!Close
  <2>2. PICK r \in S!BrokerState :
          /\ r = AfterClose(b, s, bad)
          /\ r.launches = 0 /\ BoundaryOK(r, handle[b])
    <3>1. PICK h : h = handle[b]
      OBVIOUS
    <3>2. ~s.accepting /\ ~s.closed /\ s.launches = 0 /\ ~h.held
      BY <1>3, <2>1, <3>1
    <3>3. \E r \in S!BrokerState : /\ r = AfterClose(b, s, bad)
                                   /\ r.launches = 0 /\ BoundaryOK(r, h)
      BY <1>6, <3>2, ClosedRecord
    <3> QED
      BY <3>1, <3>3
  <2>3. Becomes(b, r)
    BY <1>3, <1>4, <2>2 DEF S!Close, Becomes, AfterClose
  <2>4. dacl' = [dacl EXCEPT ![WorkspaceOf[b]] = S!Restored(b, s, bad, @)]
    BY <1>3, <1>4 DEF S!Close
  <2>5. dacl' \in [Workspace -> [S!Part -> S!Dacl]]
    BY <1>3, <2>4, RestoreTypes
  <2>6. exists' \in [Workspace -> BOOLEAN]
    BY <1>4, Before DEF S!Close, S!TypeOK, S!BrokerTypeOK
  <2>7. r.launches = broker[b].launches
    BY <2>1, <2>2
  <2> QED
    BY <1>1, <1>2, <2>2, <2>3, <2>5, <2>6, <2>7, BrokerStep
<1>5. CASE S!CloseRefused(b)
  <2>1. Becomes(b, s)
    BY <1>3, <1>5, Before DEF S!CloseRefused, Becomes, S!TypeOK, S!BrokerTypeOK
  <2>2. BoundaryOK(s, handle[b])
    BY <1>3, <1>5, Before DEF BoundaryOK, Complete, S!CloseRefused
  <2>3. dacl' \in [Workspace -> [S!Part -> S!Dacl]] /\ exists' \in [Workspace -> BOOLEAN]
    BY <1>5, Before DEF S!CloseRefused, S!TypeOK, S!BrokerTypeOK
  <2>4. s \in S!BrokerState /\ s.launches = broker[b].launches
    BY <1>3
  <2> QED
    BY <1>1, <1>2, <2>1, <2>2, <2>3, <2>4, BrokerStep
<1> QED
  BY <1>4, <1>5 DEF S!End

\* A secret is issued or consumed while the broker is open.
LEMMA SecretStep == ASSUME IInv, NEW b \in Broker, S!Secret(b) PROVE IInv'
<1>1. PICK v \in {"issued", "consumed"} : broker' = [broker EXCEPT ![b].secret = v]
  BY DEF S!Secret, S!IssueSecret, S!ConsumeSecret
<1>2. ~broker[b].closed /\ UNCHANGED <<dacl, exists>> /\ UNCHANGED <<handle, child, exec, kill>>
  BY DEF S!Secret, S!IssueSecret, S!ConsumeSecret
<1>3. PICK r \in S!BrokerState : r = [broker[b] EXCEPT !.secret = v]
  BY <1>1, Before DEF S!BrokerState
<1>4. /\ r.accepting = broker[b].accepting /\ r.verified = broker[b].verified
      /\ r.closed = broker[b].closed /\ r.launches = broker[b].launches
      /\ r.pending = broker[b].pending /\ r.token = broker[b].token
      /\ r.profile = broker[b].profile /\ r.saved = broker[b].saved
  BY <1>3, Before DEF S!BrokerState
<1>5. Becomes(b, r)
  BY <1>1, <1>3 DEF Becomes
<1>6. BoundaryOK(r, handle[b])
  BY <1>2, <1>4, Before DEF BoundaryOK, Complete
<1>7. BrokerMovesTo(b, handle[b], child[b], exec[b], kill[b])
  BY <1>2, Before, Same DEF BrokerMovesTo
<1>8. dacl' \in [Workspace -> [S!Part -> S!Dacl]] /\ exists' \in [Workspace -> BOOLEAN]
  BY <1>2, Before DEF S!TypeOK, S!BrokerTypeOK
<1>9. r \in S!BrokerState /\ r.launches = broker[b].launches
  BY <1>4
<1> QED
  BY <1>5, <1>6, <1>7, <1>8, <1>9, Before, BrokerStep

\* A child that deletes its file changes nothing but the file system.
LEMMA ChildDeletesStep ==
  ASSUME BrokerAssumption, IInv, NEW b \in Broker, S!ChildDeletes(b) PROVE IInv'
<1>1. UNCHANGED <<broker, dacl, handle, child, exec, kill>>
      /\ exists' = [exists EXCEPT ![WorkspaceOf[b]] = FALSE]
  BY DEF S!ChildDeletes
<1>2. BrokerMovesTo(b, handle[b], child[b], exec[b], kill[b])
  BY <1>1, Before, Same DEF BrokerMovesTo
<1>3. Becomes(b, broker[b])
  BY <1>1, Before DEF Becomes, S!TypeOK, S!BrokerTypeOK
<1>4. dacl' \in [Workspace -> [S!Part -> S!Dacl]] /\ exists' \in [Workspace -> BOOLEAN]
  BY <1>1, Before DEF S!TypeOK, S!BrokerTypeOK
<1> QED
  BY <1>2, <1>3, <1>4, Before, BrokerStep

\* Every step keeps the invariant.
LEMMA NextIInv == ASSUME BrokerAssumption, IInv, [S!Next]_(S!vars) PROVE IInv'
<1>1. ASSUME NEW b \in Broker, S!Execute(b)
      PROVE  IInv'
  <2>1. "owner" \in S!Caller
    BY DEF S!Caller
  <2> QED
    BY <1>1, <2>1, BeginStep, CreateStep, EnterStep, LaunchStep, AssignStep, WaitStep,
       DrainStep, KillMarkStep, KillReturnedStep, EndStep DEF S!Execute, S!Run
<1>2. ASSUME NEW b \in Broker, S!KillMark(b, "other")
      PROVE  IInv'
  <2>1. "other" \in S!Caller
    BY DEF S!Caller
  <2> QED
    BY <1>2, <2>1, KillMarkStep
<1>3. ASSUME NEW b \in Broker, NEW c \in S!Caller, S!KillTree(b, c) \/ S!KillCancelled(b, c)
      PROVE  IInv'
  BY <1>3, KillTerminateStep, KillAcquireStep, KillCloseStep, OrphanAcquireStep,
     KillCancelledStep DEF S!KillTree
<1>4. ASSUME NEW b \in Broker, S!ChildExits(b) \/ S!ChildDeletes(b) \/ S!Secret(b)
      PROVE  IInv'
  BY <1>4, ChildExitsStep, ChildDeletesStep, SecretStep
<1>5. CASE UNCHANGED S!vars
  BY <1>5 DEF S!vars, S!brokerVars, IInv, S!TypeOK, S!BrokerTypeOK, Fine, BoundaryOK, Complete,
     HandleOK, LockOK, ChildOK
<1> QED
  BY <1>1, <1>2, <1>3, <1>4, <1>5 DEF S!Next

\* The invariant gives the properties.
LEMMA IInvBoundary == IInv => S!RunsInsideBoundary
  BY DEF IInv, Fine, BoundaryOK, Complete, HandleOK, ChildOK, S!RunsInsideBoundary

\* A closed broker's handle has no job, so its child is dead or never was.
LEMMA IInvClean == ASSUME IInv PROVE S!ClosedMeansClean
<1> SUFFICES ASSUME NEW b \in Broker, broker[b].closed
             PROVE  /\ broker[b] = [S!NewBroker EXCEPT !.closed = TRUE]
                    /\ child[b].state \in {"none", "dead"}
  BY DEF S!ClosedMeansClean
<1>1. broker[b] = [S!NewBroker EXCEPT !.closed = TRUE]
  BY Before DEF BoundaryOK
<1>2. ~handle[b].held
  BY Before DEF BoundaryOK, Complete
<1>3. handle[b].job # "open"
  BY <1>2, Before DEF HandleOK
<1>4. child[b].state \notin {"running", "suspended"}
  BY <1>3, Before DEF ChildOK, LockOK, InRun
<1>5. child[b].state \in {"none", "dead"}
  BY <1>4, Before DEF S!ChildState
<1> QED
  BY <1>1, <1>5

-----------------------------------------------------------------------------
(* What was granted is remembered, as long as no two brokers share a        *)
(* workspace: then only a broker itself changes the lists it has changed.   *)

OwnWorkspaces == \A b, c \in Broker : WorkspaceOf[b] = WorkspaceOf[c] => b = c

\* A part of the workspace whose list names the broker has a snapshot, and no
\* snapshot names it.
Remembers(b, saved, d) ==
  /\ \A p \in S!Part : S!Present(WorkspaceOf[b], p) /\ b \in d[p] => p \in DOMAIN saved
  /\ \A p \in DOMAIN saved : b \notin saved[p]

RInv == \A b \in Broker : Remembers(b, broker[b].saved, dacl[WorkspaceOf[b]])

\* A cleanup forgets only what it has restored.
LEMMA CleanupRemembers ==
  ASSUME NEW b, NEW s \in S!BrokerState, NEW bad, NEW d, Remembers(b, s.saved, d)
  PROVE  Remembers(b, S!Cleaned(b, s, bad).saved, S!Restored(b, s, bad, d))
<1>1. PICK t : t = S!Cleaned(b, s, bad).saved
  OBVIOUS
<1>2. DOMAIN t = DOMAIN s.saved \cap S!Failing(b, s, bad) /\ \A p \in DOMAIN t : t[p] = s.saved[p]
  BY <1>1, CleanedSaved
<1>3. PICK e : e = S!Restored(b, s, bad, d)
  OBVIOUS
<1>4. \A p \in S!Part :
        e[p] = IF p \in DOMAIN s.saved \ S!Failing(b, s, bad) THEN s.saved[p] ELSE d[p]
  BY <1>3 DEF S!Restored
<1>5. \A p \in S!Part : S!Present(WorkspaceOf[b], p) /\ b \in e[p] => p \in DOMAIN t
  BY <1>2, <1>4 DEF Remembers
<1>6. \A p \in DOMAIN t : b \notin t[p]
  BY <1>2 DEF Remembers
<1> QED
  BY <1>1, <1>3, <1>5, <1>6 DEF Remembers

\* A grant after the snapshot names the broker only where there is one.
LEMMA GrantRemembers ==
  ASSUME BrokerAssumption, S!BrokerTypeOK, NEW b \in Broker, broker[b].saved = S!None,
         Remembers(b, broker[b].saved, dacl[WorkspaceOf[b]]), NEW e
  PROVE  Remembers(b, S!Snapshot(b), e)
<1>1. \A p \in S!Part : S!Present(WorkspaceOf[b], p) => b \notin dacl[WorkspaceOf[b]][p]
  BY DEF Remembers, S!None
<1> QED
  BY <1>1, SnapshotType DEF Remembers

\* What is neither granted nor restored is remembered as before.
LEMMA QuietBroker ==
  ASSUME NEW b \in Broker, Remembers(b, broker[b].saved, dacl[WorkspaceOf[b]]),
         broker'[b].saved = broker[b].saved,
         dacl'[WorkspaceOf[b]] = dacl[WorkspaceOf[b]],
         \A w : exists'[w] => exists[w]
  PROVE  Remembers(b, broker[b].saved, dacl[WorkspaceOf[b]])'
  BY DEF Remembers, S!Present

\* So are the other brokers' grants.
LEMMA OthersRemember ==
  ASSUME BrokerAssumption, OwnWorkspaces, IInv, RInv, NEW b \in Broker, UNCHANGED exists,
         NEW r, Becomes(b, r), NEW e, dacl' = [dacl EXCEPT ![WorkspaceOf[b]] = e],
         Remembers(b, r.saved, e)
  PROVE  RInv'
<1>1. dacl'[WorkspaceOf[b]] = e /\ broker'[b] = r
  BY Before DEF Becomes, S!TypeOK, S!BrokerTypeOK, BrokerAssumption
<1>2. Remembers(b, broker[b].saved, dacl[WorkspaceOf[b]])'
  BY <1>1 DEF Remembers, S!Present
<1>3. ASSUME NEW c \in Broker, c # b
      PROVE  Remembers(c, broker[c].saved, dacl[WorkspaceOf[c]])'
  <2>1. WorkspaceOf[c] # WorkspaceOf[b] /\ WorkspaceOf[c] \in Workspace
    BY <1>3 DEF OwnWorkspaces, BrokerAssumption
  <2>2. broker'[c] = broker[c] /\ dacl'[WorkspaceOf[c]] = dacl[WorkspaceOf[c]]
    BY <1>3, <2>1, Before DEF Becomes, S!TypeOK, S!BrokerTypeOK
  <2>3. Remembers(c, broker[c].saved, dacl[WorkspaceOf[c]])
    BY DEF RInv
  <2> QED
    BY <2>2, <2>3, QuietBroker
<1> QED
  BY <1>2, <1>3 DEF RInv

\* initialize grants after it has taken the snapshots.
LEMMA BeginRemembers ==
  ASSUME BrokerAssumption, OwnWorkspaces, IInv, RInv, NEW b \in Broker, S!Begin(b)
  PROVE  RInv'
<1>0. /\ S!BrokerTypeOK /\ WorkspaceOf[b] \in Workspace
      /\ dacl \in [Workspace -> [S!Part -> S!Dacl]] /\ broker[b] \in S!BrokerState
      /\ Remembers(b, broker[b].saved, dacl[WorkspaceOf[b]])
  BY Before DEF BrokerAssumption, S!TypeOK, S!BrokerTypeOK, RInv
<1>1. CASE S!Initialize(b)
  <2>1. broker[b].saved = S!None
    BY <1>1, Before DEF S!Initialize, BoundaryOK
  <2>2. PICK s : s = S!Reached(b, "acl")
    OBVIOUS
  <2>3. s \in S!BrokerState /\ s.saved = S!Snapshot(b)
    BY <1>0, <2>2, ReachedType DEF S!Stage
  <2>4. PICK r : r = [s EXCEPT !.verified = TRUE, !.accepting = TRUE]
    OBVIOUS
  <2>5. r.saved = S!Snapshot(b)
    BY <2>3, <2>4 DEF S!BrokerState
  <2>6. Becomes(b, r)
    BY <1>1, <2>2, <2>4 DEF S!Initialize, Becomes
  <2>7. PICK e : e = S!Granted(b, dacl[WorkspaceOf[b]])
    OBVIOUS
  <2>8. dacl' = [dacl EXCEPT ![WorkspaceOf[b]] = e] /\ UNCHANGED exists
    BY <1>1, <2>7 DEF S!Initialize
  <2>9. Remembers(b, r.saved, e)
    BY <1>0, <2>1, <2>5, GrantRemembers
  <2> QED
    BY <2>6, <2>8, <2>9, OthersRemember
<1>2. ASSUME NEW stage \in S!Stage, NEW bad, S!InitializeFails(b, stage, bad)
      PROVE  RInv'
  <2>1. broker[b].saved = S!None
    BY <1>2, Before DEF S!InitializeFails, BoundaryOK
  <2>2. PICK s : s = S!Reached(b, stage)
    OBVIOUS
  <2>3. s \in S!BrokerState /\ s.saved = (IF stage = "acl" THEN S!Snapshot(b) ELSE broker[b].saved)
    BY <1>0, <2>2, ReachedType
  <2>4. PICK d : d = IF stage = "acl" THEN S!Granted(b, dacl[WorkspaceOf[b]])
                     ELSE dacl[WorkspaceOf[b]]
    OBVIOUS
  <2>5. Remembers(b, s.saved, d)
    BY <1>0, <2>1, <2>3, <2>4, GrantRemembers
  <2>6. PICK r : r = S!Cleaned(b, s, bad)
    OBVIOUS
  <2>7. PICK e : e = S!Restored(b, s, bad, d)
    OBVIOUS
  <2>8. Remembers(b, r.saved, e)
    BY <2>3, <2>5, <2>6, <2>7, CleanupRemembers
  <2>9. Becomes(b, r)
    BY <1>2, <2>2, <2>6 DEF S!InitializeFails, Becomes
  <2>10. dacl' = [dacl EXCEPT ![WorkspaceOf[b]] = e] /\ UNCHANGED exists
    BY <1>0, <1>2, <2>2, <2>4, <2>7 DEF S!InitializeFails
  <2> QED
    BY <2>8, <2>9, <2>10, OthersRemember
<1> QED
  BY <1>1, <1>2 DEF S!Begin

\* close forgets a snapshot only with its restore.
LEMMA CloseRemembers ==
  ASSUME BrokerAssumption, OwnWorkspaces, IInv, RInv, NEW b \in Broker, NEW bad,
         S!Close(b, bad)
  PROVE  RInv'
<1>0. /\ broker[b] \in S!BrokerState /\ dacl \in [Workspace -> [S!Part -> S!Dacl]]
      /\ WorkspaceOf[b] \in Workspace
      /\ Remembers(b, broker[b].saved, dacl[WorkspaceOf[b]])
  BY Before DEF RInv, S!TypeOK, S!BrokerTypeOK, BrokerAssumption
<1>1. PICK s \in S!BrokerState : s = [broker[b] EXCEPT !.accepting = FALSE]
  BY <1>0 DEF S!BrokerState
<1>2. s.saved = broker[b].saved
  BY <1>0, <1>1 DEF S!BrokerState
<1>3. PICK t \in S!BrokerState : t = S!Cleaned(b, s, bad)
  BY <1>1, CleanedType
<1>4. PICK e : e = S!Restored(b, s, bad, dacl[WorkspaceOf[b]])
  OBVIOUS
<1>5. Remembers(b, t.saved, e)
  BY <1>0, <1>1, <1>2, <1>3, <1>4, CleanupRemembers
<1>6. PICK r : r = AfterClose(b, s, bad)
  OBVIOUS
<1>7. r.saved = t.saved
  BY <1>3, <1>6 DEF AfterClose, S!BrokerState
<1>8. Becomes(b, r)
  BY <1>1, <1>6 DEF S!Close, Becomes, AfterClose
<1>9. dacl' = [dacl EXCEPT ![WorkspaceOf[b]] = e] /\ UNCHANGED exists
  BY <1>0, <1>1, <1>4 DEF S!Close
<1> QED
  BY <1>5, <1>7, <1>8, <1>9, OthersRemember

\* A step that neither grants nor restores.
LEMMA QuietStep ==
  ASSUME RInv, UNCHANGED dacl, \A w : exists'[w] => exists[w],
         \A b \in Broker : broker'[b].saved = broker[b].saved
  PROVE  RInv'
  BY QuietBroker DEF RInv

\* Every step keeps the grants remembered.
LEMMA NextRInv ==
  ASSUME BrokerAssumption, OwnWorkspaces, IInv, RInv, [S!Next]_(S!vars)
  PROVE  RInv'
<1>0. broker \in [Broker -> S!BrokerState] /\ exists \in [Workspace -> BOOLEAN]
  BY DEF IInv, S!TypeOK, S!BrokerTypeOK
<1>1. CASE UNCHANGED S!brokerVars
  BY <1>1, QuietStep DEF S!brokerVars
<1>2. ASSUME NEW b \in Broker, S!Create(b)
      PROVE  RInv'
  <2>1. \A c \in Broker : broker'[c].saved = broker[c].saved
    BY <1>0, <1>2 DEF S!Create, S!BrokerState
  <2> QED
    BY <1>2, <2>1, QuietStep DEF S!Create
<1>3. ASSUME NEW b \in Broker,
             IF handle[b].held THEN S!Release(b) ELSE UNCHANGED broker,
             UNCHANGED <<dacl, exists>>
      PROVE  RInv'
  <2>1. \A c \in Broker : broker'[c].saved = broker[c].saved
    BY <1>0, <1>3 DEF S!Release, S!BrokerState
  <2> QED
    BY <1>3, <2>1, QuietStep
<1>4. ASSUME NEW b \in Broker, S!Assign(b) \/ \E c \in S!Caller : S!KillClose(b, c)
      PROVE  RInv'
  <2>1. UNCHANGED <<dacl, exists>>
    BY <1>4 DEF S!Assign, S!KillClose
  <2>2. UNCHANGED broker \/ (IF handle[b].held THEN S!Release(b) ELSE UNCHANGED broker)
    BY <1>4 DEF S!Assign, S!KillClose
  <2>3. CASE UNCHANGED broker
    BY <1>1, <2>1, <2>3 DEF S!brokerVars
  <2> QED
    BY <1>3, <2>1, <2>2, <2>3
<1>5. ASSUME NEW b \in Broker, S!End(b)
      PROVE  RInv'
  <2>1. CASE S!CloseRefused(b)
    <3>1. \A c \in Broker : broker'[c].saved = broker[c].saved
      BY <1>0, <2>1 DEF S!CloseRefused, S!BrokerState
    <3> QED
      BY <2>1, <3>1, QuietStep DEF S!CloseRefused
  <2> QED
    BY <1>5, <2>1, CloseRemembers DEF S!End
<1>6. ASSUME NEW b \in Broker, S!Secret(b)
      PROVE  RInv'
  <2>1. \A c \in Broker : broker'[c].saved = broker[c].saved
    BY <1>0, <1>6 DEF S!Secret, S!IssueSecret, S!ConsumeSecret, S!BrokerState
  <2>2. UNCHANGED <<dacl, exists>>
    BY <1>6 DEF S!Secret, S!IssueSecret, S!ConsumeSecret
  <2> QED
    BY <2>1, <2>2, QuietStep
<1>7. ASSUME NEW b \in Broker, S!ChildDeletes(b)
      PROVE  RInv'
  <2>1. UNCHANGED <<broker, dacl>> /\ exists' = [exists EXCEPT ![WorkspaceOf[b]] = FALSE]
    BY <1>7 DEF S!ChildDeletes
  <2>2. \A w \in Workspace : exists'[w] => exists[w]
    BY <1>0, <2>1
  <2>3. ASSUME NEW c \in Broker
        PROVE  Remembers(c, broker[c].saved, dacl[WorkspaceOf[c]])'
    BY <2>1, <2>2 DEF RInv, Remembers, S!Present, BrokerAssumption
  <2> QED
    BY <2>3 DEF RInv
<1>8. ASSUME NEW b \in Broker, S!Execute(b)
      PROVE  RInv'
  <2>1. CASE S!Enter(b) \/ S!Launch(b) \/ S!Wait(b) \/ S!Drain(b) \/ S!KillMark(b, "owner")
                 \/ S!KillReturned(b)
    BY <1>1, <2>1 DEF S!Enter, S!Launch, S!Wait, S!Drain, S!KillMark, S!KillReturned
  <2> QED
    BY <1>2, <1>4, <1>5, <1>8, <2>1, BeginRemembers DEF S!Execute, S!Run
<1>9. ASSUME NEW b \in Broker, NEW c \in S!Caller, S!KillTree(b, c) \/ S!KillCancelled(b, c)
      PROVE  RInv'
  <2>1. CASE S!KillTerminate(b, c) \/ S!KillAcquire(b, c) \/ S!OrphanAcquire(b, c)
                 \/ S!KillCancelled(b, c)
    BY <1>1, <2>1 DEF S!KillTerminate, S!KillAcquire, S!OrphanAcquire, S!KillCancelled
  <2> QED
    BY <1>4, <1>9, <2>1 DEF S!KillTree
<1>10. ASSUME NEW b \in Broker, S!KillMark(b, "other") \/ S!ChildExits(b)
       PROVE  RInv'
  BY <1>1, <1>10 DEF S!KillMark, S!ChildExits
<1>11. CASE UNCHANGED S!vars
  BY <1>1, <1>11 DEF S!vars, S!brokerVars
<1> QED
  BY <1>6, <1>7, <1>8, <1>9, <1>10, <1>11 DEF S!Next

\* Nothing is granted at first.
LEMMA InitRInv == ASSUME BrokerAssumption, S!Init PROVE RInv
<1>1. \A b \in Broker, p \in S!Part : b \notin dacl[WorkspaceOf[b]][p]
  BY DEF S!Init, S!BrokerInit, BrokerAssumption
<1>2. \A b \in Broker : DOMAIN broker[b].saved = {}
  BY DEF S!Init, S!BrokerInit, S!NewBroker, S!None
<1> QED
  BY <1>1, <1>2 DEF RInv, Remembers

-----------------------------------------------------------------------------
(* The theorems.                                                            *)

(* Every variable keeps its range, and a broker counts one launch exactly  *)
(* while its handle holds the pin (acquire_launch, release_launch).        *)
THEOREM TypeCorrect == BrokerAssumption => (S!Spec => []S!TypeOK)
<1> SUFFICES ASSUME BrokerAssumption PROVE S!Spec => []S!TypeOK
  OBVIOUS
<1>1. S!Init => IInv
  BY InitIInv
<1>2. IInv /\ [S!Next]_(S!vars) => IInv'
  BY NextIInv
<1>3. IInv => S!TypeOK
  BY DEF IInv
<1> QED
  BY <1>1, <1>2, <1>3, PTL DEF S!Spec

(* A child runs only inside a boundary that is complete, and the boundary  *)
(* is complete until the child is dead (_run_claimed, kill_tree, close).   *)
THEOREM ChildrenAreContained == BrokerAssumption => (S!Spec => []S!RunsInsideBoundary)
<1> SUFFICES ASSUME BrokerAssumption PROVE S!Spec => []S!RunsInsideBoundary
  OBVIOUS
<1>1. S!Init => IInv
  BY InitIInv
<1>2. IInv /\ [S!Next]_(S!vars) => IInv'
  BY NextIInv
<1> QED
  BY <1>1, <1>2, IInvBoundary, PTL DEF S!Spec

(* A broker that says it is closed holds nothing and has no child alive,   *)
(* whatever failed or was killed on the way (close, release_launch).       *)
THEOREM ClosedIsClean == BrokerAssumption => (S!Spec => []S!ClosedMeansClean)
<1> SUFFICES ASSUME BrokerAssumption PROVE S!Spec => []S!ClosedMeansClean
  OBVIOUS
<1>1. S!Init => IInv
  BY InitIInv
<1>2. IInv /\ [S!Next]_(S!vars) => IInv'
  BY NextIInv
<1>3. IInv => S!ClosedMeansClean
  BY IInvClean
<1> QED
  BY <1>1, <1>2, <1>3, PTL DEF S!Spec

(* Where each execution has a workspace of its own, a package that is in an *)
(* access list can still be taken out of it: its broker keeps the snapshot *)
(* through failing initializations and cleanups (_cleanup_native_state).   *)
THEOREM GrantsAreKnown ==
  BrokerAssumption /\ OwnWorkspaces => (S!Spec => []S!GrantsAreRemembered)
<1> SUFFICES ASSUME BrokerAssumption, OwnWorkspaces PROVE S!Spec => []S!GrantsAreRemembered
  OBVIOUS
<1>1. S!Init => IInv /\ RInv
  BY InitIInv, InitRInv
<1>2. (IInv /\ RInv) /\ [S!Next]_(S!vars) => (IInv /\ RInv)'
  BY NextIInv, NextRInv
<1>3. IInv /\ RInv => S!GrantsAreRemembered
  BY DEF RInv, Remembers, S!GrantsAreRemembered, S!GrantedIn
<1> QED
  BY <1>1, <1>2, <1>3, PTL DEF S!Spec

-----------------------------------------------------------------------------
(* TerminalSession.                                                         *)

\* The opens that hold a place.
Underway == {s \in Session : term[s].open \in {"opening", "launched"}}

\* Every place that is taken is held by an open that is under way, or by a
\* session that is registered and not cleaned up.
TerminalInv ==
  /\ TypeOK
  /\ IsFiniteSet(registered) /\ IsFiniteSet(Underway)
  /\ pending = Cardinality(Underway)
  /\ ActiveLimit /\ RetainedLimit

Late == {"resize", "signal"}

\* A session stays ended, and open while it is attached.
EndKept(t, r) ==
  /\ t.state \in Final => r.state \in Final \/ t.calls \cap Late # r.calls \cap Late
  /\ t.connected /\ t.state \notin Final /\ r.state = "closed" => "close" \in r.calls

\* What every step but open, its failure and its success keeps of a session,
\* whose record changes from t to r.
KeptBy(t, r) ==
  /\ r.open \in {"opening", "launched"} <=> t.open \in {"opening", "launched"}
  /\ t.cleaned => r.cleaned
  /\ EndKept(t, r)

Keeping ==
  /\ term' \in [Session -> Terminal] /\ \A s \in Session : KeptBy(term[s], term'[s])
  /\ registered' \subseteq registered /\ pending' = pending

\* What a session's record becomes.
Turns(s, r) == term' = [term EXCEPT ![s] = r]

\* It is enough to look at the session that moves.
LEMMA OneTurns ==
  ASSUME TypeOK, NEW s \in Session, NEW r \in Terminal, Turns(s, r), KeptBy(term[s], r),
         registered' \subseteq registered, pending' = pending
  PROVE  Keeping
<1>1. \A c \in Session : KeptBy(term[c], term[c])
  BY DEF KeptBy, EndKept, Final
<1>2. \A c \in Session : KeptBy(term[c], term'[c])
  BY <1>1 DEF TypeOK, Turns
<1> QED
  BY <1>2 DEF Keeping, TypeOK, Turns

\* A termination leaves the process where it was or dead.
LEMMA Terminations ==
  ASSUME TypeOK, NEW s \in Session
  PROVE  AfterTermination(s) \subseteq {"none", "alive", "dead"}
  BY DEF TypeOK, Terminal, AfterTermination

\* The threads, the child and the timer keep it.
LEMMA ThreadsKeep ==
  ASSUME TypeOK, NEW s \in Session,
         Launch(s) \/ ProcessExits(s) \/ Watcher(s) \/ ReaderLimit(s) \/ ReaderEnd(s)
           \/ TimerFires(s) \/ Expire(s)
  PROVE  Keeping
<1>0. term[s] \in Terminal
  BY DEF TypeOK
<1>1. ASSUME NEW r, r \in Terminal, KeptBy(term[s], r), Turns(s, r),
             registered' \subseteq registered, pending' = pending
      PROVE  Keeping
  BY <1>1, OneTurns
<1>2. CASE Launch(s)
  <2>1. PICK r : r = [term[s] EXCEPT !.open = "launched", !.process = "alive",
                                     !.console = "open", !.watcher = "wait",
                                     !.reader = "read"]
    OBVIOUS
  <2>2. r \in Terminal /\ KeptBy(term[s], r)
    BY <1>0, <1>2, <2>1 DEF Terminal, KeptBy, EndKept, Final, Launch
  <2>3. Turns(s, r) /\ registered' \subseteq registered /\ pending' = pending
    BY <1>2, <2>1 DEF Launch, Turns
  <2> QED
    BY <1>1, <2>2, <2>3
<1>3. CASE ProcessExits(s)
  <2>1. PICK r : r = [term[s] EXCEPT !.process = "dead"]
    OBVIOUS
  <2>2. r \in Terminal /\ KeptBy(term[s], r)
    BY <1>0, <2>1 DEF Terminal, KeptBy, EndKept, Final
  <2>3. Turns(s, r) /\ registered' \subseteq registered /\ pending' = pending
    BY <1>3, <2>1 DEF ProcessExits, Turns
  <2> QED
    BY <1>1, <2>2, <2>3
<1>4. ASSUME WatcherWait(s),
             term' = [term EXCEPT ![s].watcher = "end"]
      PROVE  Keeping
  <2>1. PICK r : r = [term[s] EXCEPT !.watcher = "end"]
    OBVIOUS
  <2>2. r \in Terminal /\ KeptBy(term[s], r)
    BY <1>0, <2>1 DEF Terminal, KeptBy, EndKept, Final
  <2>3. Turns(s, r) /\ registered' \subseteq registered /\ pending' = pending
    BY <1>4, <2>1 DEF WatcherWait, Turns
  <2> QED
    BY <1>1, <2>2, <2>3
<1>5. ASSUME WatcherWait(s), NEW p \in AfterTermination(s),
             term' = [term EXCEPT ![s].watcher = "end", ![s].process = p,
                                  ![s].state = Ended(s, "timeout")]
      PROVE  Keeping
  <2>1. PICK st : st = Ended(s, "timeout")
    OBVIOUS
  <2>2. p \in {"none", "alive", "dead"}
    BY Terminations
  <2>3. /\ st \in State /\ (term[s].state \in Final => st \in Final)
        /\ st # "closed" \/ term[s].state \in Final
    BY <1>0, <2>1 DEF Terminal, State, Ended, IsFinal, Final
  <2>4. PICK r : r = [term[s] EXCEPT !.watcher = "end", !.process = p, !.state = st]
    OBVIOUS
  <2>5. r \in Terminal
    BY <1>0, <2>2, <2>3, <2>4 DEF Terminal
  <2>6. /\ r.open = term[s].open /\ r.cleaned = term[s].cleaned
        /\ r.state = st /\ r.calls = term[s].calls
    BY <1>0, <2>4 DEF Terminal
  <2>7. r \in Terminal /\ KeptBy(term[s], r)
    BY <2>3, <2>5, <2>6 DEF KeptBy, EndKept
  <2>8. Turns(s, r) /\ registered' \subseteq registered /\ pending' = pending
    BY <1>5, <2>1, <2>4 DEF WatcherWait, Turns
  <2> QED
    BY <1>1, <2>7, <2>8
<1>6. ASSUME WatcherWait(s),
             term' = [term EXCEPT ![s].watcher = "end", ![s].state = Ended(s, "error")]
      PROVE  Keeping
  <2>1. PICK r : r = [term[s] EXCEPT !.watcher = "end", !.state = Ended(s, "error")]
    OBVIOUS
  <2>2. r \in Terminal /\ KeptBy(term[s], r)
    BY <1>0, <2>1 DEF Terminal, KeptBy, EndKept, Final, State, Ended, IsFinal
  <2>3. Turns(s, r) /\ registered' \subseteq registered /\ pending' = pending
    BY <1>6, <2>1 DEF WatcherWait, Turns
  <2> QED
    BY <1>1, <2>2, <2>3
<1>7. WatcherWait(s) => Keeping
  BY <1>4, <1>5, <1>6 DEF WatcherWait
<1>8. CASE WatcherEnd(s)
  <2>1. PICK r : r = [term[s] EXCEPT !.watcher = "cleanup",
                                     !.state = Ended(s, "exited")]
    OBVIOUS
  <2>2. r \in Terminal /\ KeptBy(term[s], r)
    BY <1>0, <2>1 DEF Terminal, KeptBy, EndKept, Final, State, Ended, IsFinal
  <2>3. Turns(s, r) /\ registered' \subseteq registered /\ pending' = pending
    BY <1>8, <2>1 DEF WatcherEnd, Turns
  <2> QED
    BY <1>1, <2>2, <2>3
<1>9. ASSUME CleanupStart(s), NEW p \in AfterTermination(s),
             term' = [term EXCEPT ![s].watcher = "closing", ![s].timer = FALSE,
                                  ![s].process = p, ![s].console = "closed"]
      PROVE  Keeping
  <2>1. PICK r : r = [term[s] EXCEPT !.watcher = "closing", !.timer = FALSE,
                                     !.process = p, !.console = "closed"]
    OBVIOUS
  <2>2. p \in {"none", "alive", "dead"}
    BY Terminations
  <2>3. r \in Terminal
    BY <1>0, <2>1, <2>2 DEF Terminal
  <2>4. /\ r.open = term[s].open /\ r.cleaned = term[s].cleaned
        /\ r.state = term[s].state /\ r.calls = term[s].calls
    BY <1>0, <2>1 DEF Terminal
  <2>5. r \in Terminal /\ KeptBy(term[s], r)
    BY <2>3, <2>4 DEF KeptBy, EndKept, Final
  <2>6. Turns(s, r) /\ registered' \subseteq registered /\ pending' = pending
    BY <1>9, <2>1 DEF CleanupStart, Turns
  <2> QED
    BY <1>1, <2>5, <2>6
<1>10. CleanupStart(s) => Keeping
  BY <1>9 DEF CleanupStart
<1>11. ASSUME CleanupEnd(s), NEW p \in AfterTermination(s),
             term' = [term EXCEPT ![s].watcher = "done", ![s].process = p,
                                  ![s].cleaned = TRUE]
      PROVE  Keeping
  <2>1. PICK r : r = [term[s] EXCEPT !.watcher = "done", !.process = p,
                                     !.cleaned = TRUE]
    OBVIOUS
  <2>2. p \in {"none", "alive", "dead"}
    BY Terminations
  <2>3. r \in Terminal
    BY <1>0, <2>1, <2>2 DEF Terminal
  <2>4. /\ r.open = term[s].open /\ r.cleaned
        /\ r.state = term[s].state /\ r.calls = term[s].calls
    BY <1>0, <2>1 DEF Terminal
  <2>5. r \in Terminal /\ KeptBy(term[s], r)
    BY <2>3, <2>4 DEF KeptBy, EndKept, Final
  <2>6. Turns(s, r) /\ registered' \subseteq registered /\ pending' = pending
    BY <1>11, <2>1 DEF CleanupEnd, Turns
  <2> QED
    BY <1>1, <2>5, <2>6
<1>12. CleanupEnd(s) => Keeping
  BY <1>11 DEF CleanupEnd
<1>13. ASSUME ReaderLimit(s), NEW p \in AfterTermination(s),
             term' = [term EXCEPT ![s].reader = "done", ![s].process = p,
                                  ![s].state = "output_limit"]
      PROVE  Keeping
  <2>1. PICK r : r = [term[s] EXCEPT !.reader = "done", !.process = p,
                                     !.state = "output_limit"]
    OBVIOUS
  <2>2. p \in {"none", "alive", "dead"}
    BY Terminations
  <2>3. r \in Terminal /\ KeptBy(term[s], r)
    BY <1>0, <2>2, <2>1 DEF Terminal, KeptBy, EndKept, Final, State
  <2>4. Turns(s, r) /\ registered' \subseteq registered /\ pending' = pending
    BY <1>13, <2>1 DEF ReaderLimit, Turns
  <2> QED
    BY <1>1, <2>3, <2>4
<1>14. ReaderLimit(s) => Keeping
  BY <1>13 DEF ReaderLimit
<1>15. ASSUME ReaderEnd(s),
             term' = [term EXCEPT ![s].reader = "done"]
      PROVE  Keeping
  <2>1. PICK r : r = [term[s] EXCEPT !.reader = "done"]
    OBVIOUS
  <2>2. r \in Terminal /\ KeptBy(term[s], r)
    BY <1>0, <2>1 DEF Terminal, KeptBy, EndKept, Final
  <2>3. Turns(s, r) /\ registered' \subseteq registered /\ pending' = pending
    BY <1>15, <2>1 DEF ReaderEnd, Turns
  <2> QED
    BY <1>1, <2>2, <2>3
<1>16. ASSUME ReaderEnd(s),
             term' = [term EXCEPT ![s].reader = "done", ![s].state = Ended(s, "error")]
      PROVE  Keeping
  <2>1. PICK r : r = [term[s] EXCEPT !.reader = "done", !.state = Ended(s, "error")]
    OBVIOUS
  <2>2. r \in Terminal /\ KeptBy(term[s], r)
    BY <1>0, <2>1 DEF Terminal, KeptBy, EndKept, Final, State, Ended, IsFinal
  <2>3. Turns(s, r) /\ registered' \subseteq registered /\ pending' = pending
    BY <1>16, <2>1 DEF ReaderEnd, Turns
  <2> QED
    BY <1>1, <2>2, <2>3
<1>17. ReaderEnd(s) => Keeping
  BY <1>15, <1>16 DEF ReaderEnd
<1>18. CASE TimerFires(s)
  <2>1. PICK r : r = [term[s] EXCEPT !.timer = FALSE, !.fired = TRUE]
    OBVIOUS
  <2>2. r \in Terminal /\ KeptBy(term[s], r)
    BY <1>0, <2>1 DEF Terminal, KeptBy, EndKept, Final
  <2>3. Turns(s, r) /\ registered' \subseteq registered /\ pending' = pending
    BY <1>18, <2>1 DEF TimerFires, Turns
  <2> QED
    BY <1>1, <2>2, <2>3
<1>19. ASSUME Expire(s), NEW p \in AfterTermination(s), ~term[s].connected,
             term' = [term EXCEPT ![s].fired = FALSE, ![s].process = p,
                                  ![s].state = "closed"]
      PROVE  Keeping
  <2>1. PICK r : r = [term[s] EXCEPT !.fired = FALSE, !.process = p, !.state = "closed"]
    OBVIOUS
  <2>2. p \in {"none", "alive", "dead"}
    BY Terminations
  <2>3. r \in Terminal /\ KeptBy(term[s], r)
    BY <1>0, <1>19, <2>2, <2>1 DEF Terminal, KeptBy, EndKept, Final, State
  <2>4. Turns(s, r) /\ registered' \subseteq registered /\ pending' = pending
    BY <1>19, <2>1 DEF Expire, Turns
  <2> QED
    BY <1>1, <2>3, <2>4
<1>20. ASSUME Expire(s),
             term' = [term EXCEPT ![s].fired = FALSE]
      PROVE  Keeping
  <2>1. PICK r : r = [term[s] EXCEPT !.fired = FALSE]
    OBVIOUS
  <2>2. r \in Terminal /\ KeptBy(term[s], r)
    BY <1>0, <2>1 DEF Terminal, KeptBy, EndKept, Final
  <2>3. Turns(s, r) /\ registered' \subseteq registered /\ pending' = pending
    BY <1>20, <2>1 DEF Expire, Turns
  <2> QED
    BY <1>1, <2>2, <2>3
<1>21. Expire(s) => Keeping
  BY <1>19, <1>20 DEF Expire
<1> QED
  BY <1>2, <1>3, <1>7, <1>8, <1>10, <1>12, <1>14, <1>17, <1>18, <1>21 DEF Watcher

\* So do the clients' calls.
LEMMA ClientsKeep ==
  ASSUME TypeOK, NEW s \in Session,
         Client(s)
  PROVE  Keeping
<1>0. term[s] \in Terminal
  BY DEF TypeOK
<1>1. ASSUME NEW r, r \in Terminal, KeptBy(term[s], r), Turns(s, r),
             registered' \subseteq registered, pending' = pending
      PROVE  Keeping
  BY <1>1, OneTurns
<1>2. CASE Resize(s)
  <2>1. PICK r : r = [term[s] EXCEPT !.calls = @ \cup {"resize"}]
    OBVIOUS
  <2>2. r \in Terminal /\ KeptBy(term[s], r)
    BY <1>0, <2>1 DEF Terminal, KeptBy, EndKept, Final, Call
  <2>3. Turns(s, r) /\ registered' \subseteq registered /\ pending' = pending
    BY <1>2, <2>1 DEF Resize, Turns
  <2> QED
    BY <1>1, <2>2, <2>3
<1>3. ASSUME ResizeEnds(s), NEW st \in {term[s].state, "resized"},
             term' = [term EXCEPT ![s].calls = @ \ {"resize"}, ![s].state = st]
      PROVE  Keeping
  <2>1. PICK r : r = [term[s] EXCEPT !.calls = @ \ {"resize"}, !.state = st]
    OBVIOUS
  <2>2. r \in Terminal /\ KeptBy(term[s], r)
    BY <1>0, <1>3, <2>1 DEF Terminal, KeptBy, EndKept, Final, State, Call, Late, ResizeEnds
  <2>3. Turns(s, r) /\ registered' \subseteq registered /\ pending' = pending
    BY <1>3, <2>1 DEF ResizeEnds, Turns
  <2> QED
    BY <1>1, <2>2, <2>3
<1>4. ResizeEnds(s) => Keeping
  BY <1>3 DEF ResizeEnds
<1>5. CASE Signal(s)
  <2>1. PICK r : r = [term[s] EXCEPT !.calls = @ \cup {"signal"}]
    OBVIOUS
  <2>2. r \in Terminal /\ KeptBy(term[s], r)
    BY <1>0, <2>1 DEF Terminal, KeptBy, EndKept, Final, Call
  <2>3. Turns(s, r) /\ registered' \subseteq registered /\ pending' = pending
    BY <1>5, <2>1 DEF Signal, Turns
  <2> QED
    BY <1>1, <2>2, <2>3
<1>6. ASSUME SignalEnds(s), NEW st \in {term[s].state, "signalled"}, NEW p \in AfterTermination(s),
             term' = [term EXCEPT ![s].calls = @ \ {"signal"}, ![s].state = st,
                                  ![s].process = p]
      PROVE  Keeping
  <2>1. PICK r : r = [term[s] EXCEPT !.calls = @ \ {"signal"}, !.state = st,
                                     !.process = p]
    OBVIOUS
  <2>2. p \in {"none", "alive", "dead"}
    BY Terminations
  <2>3. r \in Terminal /\ KeptBy(term[s], r)
    BY <1>0, <1>6, <2>2, <2>1 DEF Terminal, KeptBy, EndKept, Final, State, Call, Late, SignalEnds
  <2>4. Turns(s, r) /\ registered' \subseteq registered /\ pending' = pending
    BY <1>6, <2>1 DEF SignalEnds, Turns
  <2> QED
    BY <1>1, <2>3, <2>4
<1>7. SignalEnds(s) => Keeping
  BY <1>6 DEF SignalEnds
<1>8. CASE Attach(s)
  <2>1. PICK r : r = [term[s] EXCEPT !.timer = FALSE, !.connected = TRUE,
                                     !.state = IF @ = "disconnected" THEN "running" ELSE @]
    OBVIOUS
  <2>2. r \in Terminal /\ KeptBy(term[s], r)
    BY <1>0, <2>1 DEF Terminal, KeptBy, EndKept, Final, State
  <2>3. Turns(s, r) /\ registered' \subseteq registered /\ pending' = pending
    BY <1>8, <2>1 DEF Attach, Turns
  <2> QED
    BY <1>1, <2>2, <2>3
<1>9. CASE Disconnect(s)
  <2>1. PICK r : r = [term[s] EXCEPT !.timer = TRUE, !.connected = FALSE,
                                     !.state = "disconnected"]
    OBVIOUS
  <2>2. r \in Terminal /\ KeptBy(term[s], r)
    BY <1>0, <1>9, <2>1 DEF Terminal, KeptBy, EndKept, Final, State, IsFinal, Disconnect
  <2>3. Turns(s, r) /\ registered' \subseteq registered /\ pending' = pending
    BY <1>9, <2>1 DEF Disconnect, Turns
  <2> QED
    BY <1>1, <2>2, <2>3
<1>10. CASE Close(s)
  <2>1. PICK r : r = [term[s] EXCEPT !.calls = @ \cup {"close"},
                                     !.state = Ended(s, "closed")]
    OBVIOUS
  <2>2. r \in Terminal /\ KeptBy(term[s], r)
    BY <1>0, <2>1 DEF Terminal, KeptBy, EndKept, Final, State, Ended, IsFinal, Call
  <2>3. Turns(s, r) /\ registered' \subseteq registered /\ pending' = pending
    BY <1>10, <2>1 DEF Close, Turns
  <2> QED
    BY <1>1, <2>2, <2>3
<1>11. ASSUME CloseEnds(s), NEW p \in AfterTermination(s),
             term' = [term EXCEPT ![s].calls = @ \ {"close"}, ![s].process = p]
      PROVE  Keeping
  <2>1. PICK r : r = [term[s] EXCEPT !.calls = @ \ {"close"}, !.process = p]
    OBVIOUS
  <2>2. p \in {"none", "alive", "dead"}
    BY Terminations
  <2>3. r \in Terminal /\ KeptBy(term[s], r)
    BY <1>0, <2>2, <2>1 DEF Terminal, KeptBy, EndKept, Final, Call
  <2>4. Turns(s, r) /\ registered' \subseteq registered /\ pending' = pending
    BY <1>11, <2>1 DEF CloseEnds, Turns
  <2> QED
    BY <1>1, <2>3, <2>4
<1>12. CloseEnds(s) => Keeping
  BY <1>11 DEF CloseEnds
<1> QED
  BY <1>2, <1>4, <1>5, <1>7, <1>8, <1>9, <1>10, <1>12 DEF Client

\* Fewer registered sessions, or more that are cleaned up, free places.
LEMMA ActiveShrinks ==
  ASSUME TypeOK, Keeping
  PROVE  Active' \subseteq Active
  BY DEF TypeOK, Keeping, KeptBy, Active, ActiveIn

\* So what keeps the sessions keeps the limits.
LEMMA KeepingInv == ASSUME TerminalInv, Keeping PROVE TerminalInv'
<1>1. TypeOK'
  BY DEF TerminalInv, TypeOK, Keeping
<1>2. Underway' = Underway
  BY DEF Keeping, KeptBy, Underway
<1>3. Active' \subseteq Active /\ Active \subseteq registered
  BY ActiveShrinks DEF TerminalInv, Active, ActiveIn
<1>4. /\ IsFiniteSet(registered) /\ IsFiniteSet(Active)
      /\ registered' \subseteq registered /\ pending' = pending
  BY <1>3, FS_Subset DEF TerminalInv, Keeping
<1>5. /\ IsFiniteSet(registered') /\ Cardinality(registered') <= Cardinality(registered)
      /\ Cardinality(Active') <= Cardinality(Active)
  BY <1>3, <1>4, FS_Subset
<1>6. IsFiniteSet(Active') /\ IsFiniteSet(registered')
  BY <1>3, <1>4, FS_Subset
<1>7. /\ Cardinality(registered) \in Nat /\ Cardinality(registered') \in Nat
      /\ Cardinality(Active) \in Nat /\ Cardinality(Active') \in Nat
      /\ pending \in Nat
  BY <1>4, <1>6, FS_CardinalityType DEF TerminalInv, TypeOK
<1>8. ActiveLimit' /\ RetainedLimit'
  BY <1>4, <1>5, <1>7, LimitAssumption DEF TerminalInv, ActiveLimit, RetainedLimit
<1> QED
  BY <1>1, <1>2, <1>4, <1>6, <1>8 DEF TerminalInv, Keeping

\* What the limits speak about are natural numbers.
LEMMA Counts ==
  ASSUME TerminalInv
  PROVE  /\ TypeOK /\ IsFiniteSet(registered) /\ IsFiniteSet(Active) /\ IsFiniteSet(Underway)
         /\ Active \subseteq registered
         /\ Cardinality(registered) \in Nat /\ Cardinality(Active) \in Nat
         /\ Cardinality(Active) <= Cardinality(registered)
         /\ pending \in Nat /\ pending = Cardinality(Underway)
         /\ MaxActive \in Nat /\ MaxActive >= 1 /\ MaxRetained \in Nat
         /\ MaxRetained >= MaxActive
         /\ Cardinality(Active) + pending <= MaxActive
         /\ Cardinality(registered) + pending <= MaxRetained + MaxActive - 1
<1>1. Active \subseteq registered
  BY DEF Active, ActiveIn
<1>2. IsFiniteSet(registered)
  BY DEF TerminalInv
<1>3. IsFiniteSet(Active) /\ Cardinality(Active) <= Cardinality(registered)
  BY <1>1, <1>2, FS_Subset
<1>4. Cardinality(registered) \in Nat /\ Cardinality(Active) \in Nat
  BY <1>2, <1>3, FS_CardinalityType
<1> QED
  BY <1>1, <1>2, <1>3, <1>4, LimitAssumption
     DEF TerminalInv, TypeOK, ActiveLimit, RetainedLimit

\* open first forgets sessions that are cleaned up, then takes a place.
LEMMA OpenInv == ASSUME TerminalInv, NEW s \in Session, Open(s) PROVE TerminalInv'
<1>1. registered' \subseteq registered /\ Active \subseteq registered'
      /\ (Cardinality(registered') < MaxRetained \/ registered' \cap (registered \ Active) = {})
  BY DEF Open, Pruned
<1>2. IsFiniteSet(registered') /\ Cardinality(registered') <= Cardinality(registered)
      /\ Cardinality(registered') \in Nat
  BY <1>1, Counts, FS_Subset, FS_CardinalityType
<1>3. CASE Cardinality(Active) + pending >= MaxActive
  <2>1. pending' = pending /\ term' = term
    BY <1>3 DEF Open
  <2>2. Keeping
    BY <1>1, <2>1, Counts DEF Keeping, KeptBy, EndKept, TypeOK, Final
  <2> QED
    BY <2>2, KeepingInv
<1>4. CASE ~(Cardinality(Active) + pending >= MaxActive)
  <2>1. pending' = pending + 1 /\ term' = [term EXCEPT ![s].open = "opening"]
        /\ term[s].open = "none"
    BY <1>4 DEF Open
  <2>2. Active' = Active
    BY <1>1, <2>1, Counts DEF Active, ActiveIn, TypeOK, Terminal
  <2>3. Underway' = Underway \cup {s} /\ s \notin Underway
    BY <2>1, Counts DEF Underway, TypeOK, Terminal
  <2>4. IsFiniteSet(Underway') /\ Cardinality(Underway') = pending'
    BY <2>1, <2>3, Counts, FS_AddElement
  <2>5. TypeOK'
    BY <1>1, <2>1, Counts DEF TypeOK, Terminal
  <2>6. ActiveLimit'
    BY <1>4, <2>1, <2>2, Counts DEF ActiveLimit
  <2>7. RetainedLimit'
    <3>1. CASE Cardinality(registered') < MaxRetained
      BY <1>2, <1>4, <2>1, <3>1, Counts DEF RetainedLimit
    <3>2. CASE registered' \cap (registered \ Active) = {}
      <4>1. registered' = Active
        BY <1>1, <3>2
      <4> QED
        BY <1>4, <2>1, <4>1, Counts DEF RetainedLimit
    <3> QED
      BY <1>1, <3>1, <3>2
  <2> QED
    BY <1>2, <2>4, <2>5, <2>6, <2>7 DEF TerminalInv
<1> QED
  BY <1>3, <1>4

\* A failing launch gives its place back.
LEMMA LaunchFailsInv == ASSUME TerminalInv, NEW s \in Session, LaunchFails(s) PROVE TerminalInv'
<1>1. PICK left \in {"none", "alive"} :
        term' = [term EXCEPT ![s].open = "failed", ![s].process = left]
  BY DEF LaunchFails
<1>2. term[s].open = "opening" /\ pending' = pending - 1 /\ registered' = registered
  BY DEF LaunchFails
<1>3. Underway' = Underway \ {s} /\ s \in Underway
  BY <1>1, <1>2, Counts DEF Underway, TypeOK, Terminal
<1>4. IsFiniteSet(Underway') /\ Cardinality(Underway') = pending'
  BY <1>2, <1>3, Counts, FS_RemoveElement
<1>5. pending' \in Nat
  BY <1>4, FS_CardinalityType
<1>6. Active' = Active
  BY <1>1, <1>2, Counts DEF Active, ActiveIn, TypeOK, Terminal
<1>7. PICK r : r = [term[s] EXCEPT !.open = "failed", !.process = left]
  OBVIOUS
<1>8. left \in {"none", "alive"} /\ term[s] \in Terminal
  BY Counts DEF TypeOK
<1>9. r \in Terminal
  BY <1>7, <1>8 DEF Terminal
<1>10. r \in Terminal /\ term' = [term EXCEPT ![s] = r]
  BY <1>1, <1>7, <1>9
<1>11. TypeOK'
  BY <1>2, <1>5, <1>10, Counts DEF TypeOK
<1>12. ActiveLimit' /\ RetainedLimit'
  BY <1>2, <1>6, Counts DEF ActiveLimit, RetainedLimit
<1> QED
  BY <1>2, <1>4, <1>11, <1>12, Counts DEF TerminalInv

\* A session that is registered takes the place of its open.
LEMMA RegisterInv == ASSUME TerminalInv, NEW s \in Session, Register(s) PROVE TerminalInv'
<1>1. term[s].open = "launched" /\ pending' = pending - 1
      /\ registered' = registered \cup {s} /\ term' = [term EXCEPT ![s].open = "done"]
  BY DEF Register
<1>2. Underway' = Underway \ {s} /\ s \in Underway
  BY <1>1, Counts DEF Underway, TypeOK, Terminal
<1>3. IsFiniteSet(Underway') /\ Cardinality(Underway') = pending'
  BY <1>1, <1>2, Counts, FS_RemoveElement
<1>4. pending' \in Nat
  BY <1>3, FS_CardinalityType
<1>5. Active' \subseteq Active \cup {s}
  BY <1>1, Counts DEF Active, ActiveIn, TypeOK, Terminal
<1>6. /\ IsFiniteSet(registered \cup {s})
      /\ Cardinality(registered \cup {s}) <= Cardinality(registered) + 1
      /\ IsFiniteSet(Active \cup {s})
      /\ Cardinality(Active \cup {s}) <= Cardinality(Active) + 1
  <2>1. IsFiniteSet(registered) /\ IsFiniteSet(Active)
        /\ Cardinality(registered) \in Nat /\ Cardinality(Active) \in Nat
    BY Counts
  <2>2. IsFiniteSet(registered \cup {s})
        /\ Cardinality(registered \cup {s}) <= Cardinality(registered) + 1
    <3>1. /\ IsFiniteSet(registered \cup {s})
          /\ Cardinality(registered \cup {s}) =
               IF s \in registered THEN Cardinality(registered) ELSE Cardinality(registered) + 1
      BY <2>1, FS_AddElement
    <3> QED
      BY <2>1, <3>1
  <2>3. IsFiniteSet(Active \cup {s})
        /\ Cardinality(Active \cup {s}) <= Cardinality(Active) + 1
    <3>1. /\ IsFiniteSet(Active \cup {s})
          /\ Cardinality(Active \cup {s}) =
               IF s \in Active THEN Cardinality(Active) ELSE Cardinality(Active) + 1
      BY <2>1, FS_AddElement
    <3> QED
      BY <2>1, <3>1
  <2> QED
    BY <2>2, <2>3
<1>7. Cardinality(Active') <= Cardinality(Active \cup {s}) /\ Cardinality(Active') \in Nat
      /\ Cardinality(Active \cup {s}) \in Nat /\ Cardinality(registered') \in Nat
  BY <1>1, <1>5, <1>6, FS_Subset, FS_CardinalityType
<1>8. ActiveLimit'
  BY <1>1, <1>4, <1>6, <1>7, Counts DEF ActiveLimit
<1>9. RetainedLimit'
  BY <1>1, <1>4, <1>6, <1>7, Counts DEF RetainedLimit
<1>10. TypeOK'
  BY <1>1, <1>4, Counts DEF TypeOK, Terminal
<1> QED
  BY <1>1, <1>3, <1>6, <1>8, <1>9, <1>10 DEF TerminalInv

\* The limits hold from the start, on no session at all.
LEMMA InitTerminal == Init => TerminalInv
<1> SUFFICES ASSUME Init PROVE TerminalInv
  OBVIOUS
<1>1. registered = {} /\ Underway = {} /\ Active = {} /\ pending = 0
  BY DEF Init, Underway, NoTerminal, Active, ActiveIn
<1>2. NoTerminal \in Terminal
  BY DEF NoTerminal, Terminal, State, Call
<1>3. TypeOK
  BY <1>1, <1>2 DEF Init, TypeOK
<1>4. IsFiniteSet({}) /\ Cardinality({}) = 0
  BY FS_EmptySet
<1>5. ActiveLimit /\ RetainedLimit
  BY <1>1, <1>4, LimitAssumption DEF ActiveLimit, RetainedLimit
<1> QED
  BY <1>1, <1>3, <1>4, <1>5 DEF TerminalInv

\* A step opens a session, gives a place back, registers, or keeps all.
LEMMA TerminalSteps ==
  ASSUME TypeOK, [Next]_vars
  PROVE  Keeping \/ \E s \in Session : Open(s) \/ LaunchFails(s) \/ Register(s)
<1>1. CASE UNCHANGED vars
  BY <1>1 DEF vars, Keeping, KeptBy, EndKept, TypeOK, Final
<1>2. CASE Next
  BY <1>2, ThreadsKeep, ClientsKeep DEF Next
<1> QED
  BY <1>1, <1>2

\* Every step keeps the limits.
LEMMA NextTerminal == TerminalInv /\ [Next]_vars => TerminalInv'
  BY TerminalSteps, KeepingInv, OpenInv, LaunchFailsInv, RegisterInv DEF TerminalInv

\* What a step does to the end of a session.
LEMMA StepEnds ==
  ASSUME TypeOK, [Next]_vars, NEW s \in Session
  PROVE  /\ IsFinal(s) => IsFinal(s)' \/ term[s].calls \cap {"resize", "signal"}
                                           # term'[s].calls \cap {"resize", "signal"}
         /\ term[s].connected /\ ~IsFinal(s) /\ term'[s].state = "closed"
              => "close" \in term'[s].calls
<1>1. CASE Keeping
  BY <1>1 DEF Keeping, KeptBy, EndKept, Late, IsFinal
<1>2. ASSUME NEW c \in Session, Open(c) \/ LaunchFails(c) \/ Register(c)
      PROVE  /\ term'[s].state = term[s].state /\ term'[s].calls = term[s].calls
             /\ term'[s].connected = term[s].connected
  BY <1>2 DEF TypeOK, Terminal, Open, LaunchFails, Register
<1>3. CASE \E c \in Session : Open(c) \/ LaunchFails(c) \/ Register(c)
  BY <1>2, <1>3 DEF IsFinal, Final
<1> QED
  BY <1>1, <1>3, TerminalSteps

-----------------------------------------------------------------------------
(* SidecarHost.                                                            *)

Requests == [H!Way -> {"none", "waiting", "forwarded"}]

\* One process, with the revision of the database: before it serves it has
\* no API, from its listening on the database is at its revision; a load
\* that has ended has failed or entered the lifespan, and none that was
\* let in waits; without a load there are no requests.
Sound(h, a, q, rev) ==
  /\ h.pc \notin {"serving", "stopping"} =>
       h.link = "none" /\ ~h.proxying /\ ~h.stop /\ a = H!NoApi
  /\ h.pc \in {"http", "serving", "stopping"} => rev = "head"
  /\ h.pc = "serving" => a.load # "none"
  /\ a.load = "none" => q = H!NoRequest
  /\ a.load \in {"importing", "entering"} => ~a.ready
  /\ a.load = "ended" => a.failure \/ a.lifespan
  /\ \A w \in H!Way : q[w] = "forwarded" => a.lifespan

\* A database that was used is there.
DatabaseOK ==
  /\ database \in [rev: H!Revision, used: BOOLEAN]
  /\ database.used => database.rev # "none"

SidecarInv ==
  /\ DatabaseOK
  /\ host \in [Process -> H!HostState]
  /\ api \in [Process -> H!ApiState]
  /\ request \in [Process -> Requests]
  /\ \A p \in Process : Sound(host[p], api[p], request[p], database.rev)

\* The database stays, or goes up.
Rises ==
  /\ DatabaseOK'
  /\ H!Height(database'.rev) >= H!Height(database.rev)
  /\ database.used => database'.used

\* What process p becomes.
Moves(p, h, a, q) ==
  /\ host' = [host EXCEPT ![p] = h]
  /\ api' = [api EXCEPT ![p] = a]
  /\ request' = [request EXCEPT ![p] = q]

\* What a step of process p must make of it.
Steps(p) ==
  /\ Rises
  /\ \E h \in H!HostState, a \in H!ApiState, q \in Requests :
       Moves(p, h, a, q) /\ Sound(h, a, q, database'.rev)

\* The revision at the head stays there.
LEMMA HeadStays ==
  ASSUME Rises, DatabaseOK, database.rev = "head"
  PROVE  database'.rev = "head"
  BY DEF Rises, DatabaseOK, H!Height, H!Revision

\* It is enough to look at the process that moves.
LEMMA OneSteps ==
  ASSUME SidecarInv, NEW p \in Process, Steps(p)
  PROVE  SidecarInv' /\ Rises
<1>1. PICK h \in H!HostState, a \in H!ApiState, q \in Requests :
        Moves(p, h, a, q) /\ Sound(h, a, q, database'.rev)
  BY DEF Steps
<1>2. ASSUME NEW c \in Process, c # p
      PROVE  host'[c] = host[c] /\ api'[c] = api[c] /\ request'[c] = request[c]
  BY <1>1, <1>2 DEF SidecarInv, Moves
<1>3. Rises /\ DatabaseOK
  BY DEF Steps, SidecarInv
<1>4. host'[p] = h /\ api'[p] = a /\ request'[p] = q
  BY <1>1 DEF SidecarInv, Moves
<1>5. ASSUME NEW c \in Process
      PROVE  Sound(host'[c], api'[c], request'[c], database'.rev)
  <2>1. CASE c = p
    BY <2>1, <1>1, <1>4
  <2>2. CASE c # p
    <3>1. Sound(host[c], api[c], request[c], database.rev)
      BY DEF SidecarInv
    <3>2. database.rev = "head" => database'.rev = "head"
      BY <1>3, HeadStays
    <3>3. Sound(host[c], api[c], request[c], database'.rev)
      BY <3>1, <3>2 DEF Sound
    <3> QED
      BY <1>2, <2>2, <3>3
  <2> QED
    BY <2>1, <2>2
<1>6. /\ host' \in [Process -> H!HostState] /\ api' \in [Process -> H!ApiState]
      /\ request' \in [Process -> Requests]
  BY <1>1 DEF SidecarInv, Moves
<1> QED
  BY <1>3, <1>5, <1>6 DEF SidecarInv, Rises

\* A process moves, and the database stays.
LEMMA Moved ==
  ASSUME SidecarInv, NEW p \in Process, NEW h \in H!HostState, NEW a \in H!ApiState,
         NEW q \in Requests, Moves(p, h, a, q), database' = database,
         Sound(h, a, q, database.rev)
  PROVE  Steps(p)
<1>1. Rises
  BY DEF SidecarInv, DatabaseOK, Rises, H!Height, H!Revision
<1> QED
  BY <1>1 DEF Steps

\* A process ends, or is off.
LEMMA SoundOff ==
  ASSUME NEW rev
  PROVE  /\ H!Off \in H!HostState /\ H!NoApi \in H!ApiState /\ H!NoRequest \in Requests
         /\ Sound(H!Off, H!NoApi, H!NoRequest, rev)
  BY DEF Sound, H!Off, H!HostState, H!NoApi, H!ApiState, H!NoRequest, Requests, H!Way

\* What is known of a process before its step.
LEMMA Known ==
  ASSUME SidecarInv, NEW p \in Process
  PROVE  /\ host[p] \in H!HostState /\ api[p] \in H!ApiState /\ request[p] \in Requests
         /\ Sound(host[p], api[p], request[p], database.rev)
         /\ DatabaseOK
  BY DEF SidecarInv

\* The steps before the database is touched.
LEMMA Preparing ==
  ASSUME SidecarInv, NEW p \in Process,
         H!Boot(p) \/ H!Check(p) \/ H!Copy(p) \/ H!Revise(p)
  PROVE  Steps(p)
<1>1. CASE H!Boot(p)
  <2>0. /\ host[p] \in H!HostState /\ api[p] \in H!ApiState /\ request[p] \in Requests
        /\ Sound(host[p], api[p], request[p], database.rev)
    BY Known
  <2>1. PICK h : h = [host[p] EXCEPT !.pc = "check"]
    OBVIOUS
  <2>2. /\ h \in H!HostState
        /\ h.pc = "check"
        /\ h.link = host[p].link
        /\ h.proxying = host[p].proxying
        /\ h.stop = host[p].stop
    BY <2>0, <2>1 DEF H!HostState
  <2>3. Sound(h, api[p], request[p], database.rev)
    BY <1>1, <2>0, <2>2 DEF H!Boot, H!At, Sound
  <2>4. Moves(p, h, api[p], request[p]) /\ database' = database
    BY <1>1, <2>1 DEF H!Boot, H!Go, H!At, Moves, SidecarInv
  <2> QED
    BY <2>0, <2>2, <2>3, <2>4, Moved
<1>2. CASE H!Check(p)
  <2>0. /\ host[p] \in H!HostState /\ api[p] \in H!ApiState /\ request[p] \in Requests
        /\ Sound(host[p], api[p], request[p], database.rev)
    BY Known
  <2>1. CASE H!Go(p, "copy")
    <3>1. PICK h : h = [host[p] EXCEPT !.pc = "copy"]
      OBVIOUS
    <3>2. /\ h \in H!HostState
          /\ h.pc = "copy"
          /\ h.link = host[p].link
          /\ h.proxying = host[p].proxying
          /\ h.stop = host[p].stop
      BY <2>0, <3>1 DEF H!HostState
    <3>3. Sound(h, api[p], request[p], database.rev)
      BY <1>2, <2>1, <2>0, <3>2 DEF H!Check, H!At, Sound
    <3>4. Moves(p, h, api[p], request[p]) /\ database' = database
      BY <1>2, <2>1, <3>1 DEF H!Check, H!Go, H!At, Moves, SidecarInv
    <3> QED
      BY <2>0, <3>2, <3>3, <3>4, Moved
  <2>2. CASE H!Go(p, "revise")
    <3>1. PICK h : h = [host[p] EXCEPT !.pc = "revise"]
      OBVIOUS
    <3>2. /\ h \in H!HostState
          /\ h.pc = "revise"
          /\ h.link = host[p].link
          /\ h.proxying = host[p].proxying
          /\ h.stop = host[p].stop
      BY <2>0, <3>1 DEF H!HostState
    <3>3. Sound(h, api[p], request[p], database.rev)
      BY <1>2, <2>2, <2>0, <3>2 DEF H!Check, H!At, Sound
    <3>4. Moves(p, h, api[p], request[p]) /\ database' = database
      BY <1>2, <2>2, <3>1 DEF H!Check, H!Go, H!At, Moves, SidecarInv
    <3> QED
      BY <2>0, <3>2, <3>3, <3>4, Moved
  <2>3. CASE H!Go(p, "migrate")
    <3>1. PICK h : h = [host[p] EXCEPT !.pc = "migrate"]
      OBVIOUS
    <3>2. /\ h \in H!HostState
          /\ h.pc = "migrate"
          /\ h.link = host[p].link
          /\ h.proxying = host[p].proxying
          /\ h.stop = host[p].stop
      BY <2>0, <3>1 DEF H!HostState
    <3>3. Sound(h, api[p], request[p], database.rev)
      BY <1>2, <2>3, <2>0, <3>2 DEF H!Check, H!At, Sound
    <3>4. Moves(p, h, api[p], request[p]) /\ database' = database
      BY <1>2, <2>3, <3>1 DEF H!Check, H!Go, H!At, Moves, SidecarInv
    <3> QED
      BY <2>0, <3>2, <3>3, <3>4, Moved
  <2>4. CASE host' = [host EXCEPT ![p] = H!Off]
    <3>1. H!Off \in H!HostState /\ Sound(H!Off, api[p], request[p], database.rev)
      BY <1>2, <2>4, <2>0 DEF H!Check, H!At, Sound, H!Off, H!HostState
    <3>2. Moves(p, H!Off, api[p], request[p]) /\ database' = database
      BY <1>2, <2>4, <3>1 DEF H!Check, H!Go, H!At, Moves, SidecarInv
    <3> QED
      BY <2>0, <3>1, <3>2, Moved
  <2> QED
    BY <1>2, <2>1, <2>2, <2>3, <2>4 DEF H!Check, H!Go
<1>3. CASE H!Copy(p)
  <2>0. /\ host[p] \in H!HostState /\ api[p] \in H!ApiState /\ request[p] \in Requests
        /\ Sound(host[p], api[p], request[p], database.rev)
    BY Known
  <2>1. CASE H!Go(p, "copied")
    <3>1. PICK h : h = [host[p] EXCEPT !.pc = "copied"]
      OBVIOUS
    <3>2. /\ h \in H!HostState
          /\ h.pc = "copied"
          /\ h.link = host[p].link
          /\ h.proxying = host[p].proxying
          /\ h.stop = host[p].stop
      BY <2>0, <3>1 DEF H!HostState
    <3>3. Sound(h, api[p], request[p], database.rev)
      BY <1>3, <2>1, <2>0, <3>2 DEF H!Copy, H!At, Sound
    <3>4. Moves(p, h, api[p], request[p]) /\ database' = database
      BY <1>3, <2>1, <3>1 DEF H!Copy, H!Go, H!At, Moves, SidecarInv
    <3> QED
      BY <2>0, <3>2, <3>3, <3>4, Moved
  <2>2. CASE host' = [host EXCEPT ![p] = H!Off]
    <3>1. H!Off \in H!HostState /\ Sound(H!Off, api[p], request[p], database.rev)
      BY <1>3, <2>2, <2>0 DEF H!Copy, H!At, Sound, H!Off, H!HostState
    <3>2. Moves(p, H!Off, api[p], request[p]) /\ database' = database
      BY <1>3, <2>2, <3>1 DEF H!Copy, H!Go, H!At, Moves, SidecarInv
    <3> QED
      BY <2>0, <3>1, <3>2, Moved
  <2> QED
    BY <1>3, <2>1, <2>2 DEF H!Copy, H!Go
<1>4. CASE H!Revise(p)
  <2>0. /\ host[p] \in H!HostState /\ api[p] \in H!ApiState /\ request[p] \in Requests
        /\ Sound(host[p], api[p], request[p], database.rev)
    BY Known
  <2>1. CASE database.rev = "head"
    <3>1. PICK h : h = [host[p] EXCEPT !.pc = "http"]
      OBVIOUS
    <3>2. /\ h \in H!HostState
          /\ h.pc = "http"
          /\ h.link = host[p].link
          /\ h.proxying = host[p].proxying
          /\ h.stop = host[p].stop
      BY <2>0, <3>1 DEF H!HostState
    <3>3. Sound(h, api[p], request[p], database.rev)
      BY <1>4, <2>1, <2>0, <3>2 DEF H!Revise, H!At, Sound
    <3>4. Moves(p, h, api[p], request[p]) /\ database' = database
      BY <1>4, <2>1, <3>1 DEF H!Revise, H!Go, H!At, Moves, SidecarInv
    <3> QED
      BY <2>0, <3>2, <3>3, <3>4, Moved
  <2>2. CASE database.rev # "head"
    <3>1. PICK h : h = [host[p] EXCEPT !.pc = "migrate"]
      OBVIOUS
    <3>2. /\ h \in H!HostState
          /\ h.pc = "migrate"
          /\ h.link = host[p].link
          /\ h.proxying = host[p].proxying
          /\ h.stop = host[p].stop
      BY <2>0, <3>1 DEF H!HostState
    <3>3. Sound(h, api[p], request[p], database.rev)
      BY <1>4, <2>2, <2>0, <3>2 DEF H!Revise, H!At, Sound
    <3>4. Moves(p, h, api[p], request[p]) /\ database' = database
      BY <1>4, <2>2, <3>1 DEF H!Revise, H!Go, H!At, Moves, SidecarInv
    <3> QED
      BY <2>0, <3>2, <3>3, <3>4, Moved
  <2> QED
    BY <1>4, <2>1, <2>2 DEF H!Revise, H!Go
<1> QED
  BY <1>1, <1>2, <1>3, <1>4

\* Listening, and the load of the application.
LEMMA Loading ==
  ASSUME SidecarInv, NEW p \in Process,
         H!Listen(p) \/ H!Import(p) \/ H!Enter(p) \/ H!ShutDownLifespan(p)
  PROVE  Steps(p)
<1>1. CASE H!Listen(p)
  <2>0. /\ host[p] \in H!HostState /\ api[p] \in H!ApiState /\ request[p] \in Requests
        /\ Sound(host[p], api[p], request[p], database.rev)
    BY Known
  <2>1. CASE \E q \in Process : H!At(q, "serving")
    <3>1. PICK h : h = [host[p] EXCEPT !.pc = "stopping"]
      OBVIOUS
    <3>2. /\ h \in H!HostState
          /\ h.pc = "stopping"
          /\ h.link = host[p].link
          /\ h.proxying = host[p].proxying
          /\ h.stop = host[p].stop
      BY <2>0, <3>1 DEF H!HostState
    <3>3. PICK a : a = [api[p] EXCEPT !.load = "importing"]
      OBVIOUS
    <3>4. /\ a \in H!ApiState
          /\ a.load = "importing"
          /\ a.application = api[p].application
          /\ a.failure = api[p].failure
          /\ a.ready = api[p].ready
          /\ a.lifespan = api[p].lifespan
      BY <2>0, <3>3 DEF H!ApiState
    <3>5. Sound(h, a, request[p], database.rev)
      BY <1>1, <2>1, <2>0, <3>2, <3>4 DEF H!Listen, H!At, Sound, H!NoApi
    <3>6. Moves(p, h, a, request[p]) /\ database' = database
      BY <1>1, <2>1, <3>1, <3>3 DEF H!Listen, H!Go, H!At, Moves, SidecarInv
    <3> QED
      BY <2>0, <3>2, <3>4, <3>5, <3>6, Moved
  <2>2. CASE ~\E q \in Process : H!At(q, "serving")
    <3>1. PICK h : h = [host[p] EXCEPT !.pc = "serving"]
      OBVIOUS
    <3>2. /\ h \in H!HostState
          /\ h.pc = "serving"
          /\ h.link = host[p].link
          /\ h.proxying = host[p].proxying
          /\ h.stop = host[p].stop
      BY <2>0, <3>1 DEF H!HostState
    <3>3. PICK a : a = [api[p] EXCEPT !.load = "importing"]
      OBVIOUS
    <3>4. /\ a \in H!ApiState
          /\ a.load = "importing"
          /\ a.application = api[p].application
          /\ a.failure = api[p].failure
          /\ a.ready = api[p].ready
          /\ a.lifespan = api[p].lifespan
      BY <2>0, <3>3 DEF H!ApiState
    <3>5. Sound(h, a, request[p], database.rev)
      BY <1>1, <2>2, <2>0, <3>2, <3>4 DEF H!Listen, H!At, Sound, H!NoApi
    <3>6. Moves(p, h, a, request[p]) /\ database' = database
      BY <1>1, <2>2, <3>1, <3>3 DEF H!Listen, H!Go, H!At, Moves, SidecarInv
    <3> QED
      BY <2>0, <3>2, <3>4, <3>5, <3>6, Moved
  <2> QED
    BY <1>1, <2>1, <2>2 DEF H!Listen, H!Go
<1>2. CASE H!Import(p)
  <2>0. /\ host[p] \in H!HostState /\ api[p] \in H!ApiState /\ request[p] \in Requests
        /\ Sound(host[p], api[p], request[p], database.rev)
    BY Known
  <2>1. CASE api' = [api EXCEPT ![p].load = "entering", ![p].application = TRUE]
    <3>1. PICK a : a = [api[p] EXCEPT !.load = "entering", !.application = TRUE]
      OBVIOUS
    <3>2. /\ a \in H!ApiState
          /\ a.load = "entering"
          /\ a.application = TRUE
          /\ a.failure = api[p].failure
          /\ a.ready = api[p].ready
          /\ a.lifespan = api[p].lifespan
      BY <2>0, <3>1 DEF H!ApiState
    <3>3. Sound(host[p], a, request[p], database.rev)
      BY <1>2, <2>1, <2>0, <3>2 DEF H!Import, H!At, Sound, H!NoApi
    <3>4. Moves(p, host[p], a, request[p]) /\ database' = database
      BY <1>2, <2>1, <3>1 DEF H!Import, H!Go, H!At, Moves, SidecarInv
    <3> QED
      BY <2>0, <3>2, <3>3, <3>4, Moved
  <2>2. CASE api' = [api EXCEPT ![p].load = "ended", ![p].failure = TRUE,
                                 ![p].ready = TRUE]
    <3>1. PICK a : a = [api[p] EXCEPT !.load = "ended", !.failure = TRUE, !.ready = TRUE]
      OBVIOUS
    <3>2. /\ a \in H!ApiState
          /\ a.load = "ended"
          /\ a.application = api[p].application
          /\ a.failure = TRUE
          /\ a.ready = TRUE
          /\ a.lifespan = api[p].lifespan
      BY <2>0, <3>1 DEF H!ApiState
    <3>3. Sound(host[p], a, request[p], database.rev)
      BY <1>2, <2>2, <2>0, <3>2 DEF H!Import, H!At, Sound, H!NoApi
    <3>4. Moves(p, host[p], a, request[p]) /\ database' = database
      BY <1>2, <2>2, <3>1 DEF H!Import, H!Go, H!At, Moves, SidecarInv
    <3> QED
      BY <2>0, <3>2, <3>3, <3>4, Moved
  <2> QED
    BY <1>2, <2>1, <2>2 DEF H!Import, H!Go
<1>3. CASE H!Enter(p)
  <2>0. /\ host[p] \in H!HostState /\ api[p] \in H!ApiState /\ request[p] \in Requests
        /\ Sound(host[p], api[p], request[p], database.rev)
    BY Known
  <2>1. CASE api' = [api EXCEPT ![p].load = "ended", ![p].lifespan = TRUE,
                                 ![p].ready = TRUE]
    <3>1. PICK a : a = [api[p] EXCEPT !.load = "ended", !.lifespan = TRUE, !.ready = TRUE]
      OBVIOUS
    <3>2. /\ a \in H!ApiState
          /\ a.load = "ended"
          /\ a.application = api[p].application
          /\ a.failure = api[p].failure
          /\ a.ready = TRUE
          /\ a.lifespan = TRUE
      BY <2>0, <3>1 DEF H!ApiState
    <3>3. Sound(host[p], a, request[p], database.rev)
      BY <1>3, <2>1, <2>0, <3>2 DEF H!Enter, H!At, Sound, H!NoApi
    <3>4. Moves(p, host[p], a, request[p]) /\ database' = database
      BY <1>3, <2>1, <3>1 DEF H!Enter, H!Go, H!At, Moves, SidecarInv
    <3> QED
      BY <2>0, <3>2, <3>3, <3>4, Moved
  <2>2. CASE api' = [api EXCEPT ![p].load = "ended", ![p].failure = TRUE,
                                 ![p].ready = TRUE]
    <3>1. PICK a : a = [api[p] EXCEPT !.load = "ended", !.failure = TRUE, !.ready = TRUE]
      OBVIOUS
    <3>2. /\ a \in H!ApiState
          /\ a.load = "ended"
          /\ a.application = api[p].application
          /\ a.failure = TRUE
          /\ a.ready = TRUE
          /\ a.lifespan = api[p].lifespan
      BY <2>0, <3>1 DEF H!ApiState
    <3>3. Sound(host[p], a, request[p], database.rev)
      BY <1>3, <2>2, <2>0, <3>2 DEF H!Enter, H!At, Sound, H!NoApi
    <3>4. Moves(p, host[p], a, request[p]) /\ database' = database
      BY <1>3, <2>2, <3>1 DEF H!Enter, H!Go, H!At, Moves, SidecarInv
    <3> QED
      BY <2>0, <3>2, <3>3, <3>4, Moved
  <2> QED
    BY <1>3, <2>1, <2>2 DEF H!Enter, H!Go
<1>4. CASE H!ShutDownLifespan(p)
  <2>0. /\ host[p] \in H!HostState /\ api[p] \in H!ApiState /\ request[p] \in Requests
        /\ Sound(host[p], api[p], request[p], database.rev)
    BY Known
  <2>1. PICK a : a = [api[p] EXCEPT !.load = "none", !.ready = TRUE, !.lifespan = FALSE]
    OBVIOUS
  <2>2. /\ a \in H!ApiState
        /\ a.load = "none"
        /\ a.application = api[p].application
        /\ a.failure = api[p].failure
        /\ a.ready = TRUE
        /\ a.lifespan = FALSE
    BY <2>0, <2>1 DEF H!ApiState
  <2>3. Sound(host[p], a, request[p], database.rev)
    BY <1>4, <2>0, <2>2 DEF H!ShutDownLifespan, H!At, Sound, H!Idle, H!NoRequest
  <2>4. Moves(p, host[p], a, request[p]) /\ database' = database
    BY <1>4, <2>1 DEF H!ShutDownLifespan, H!Go, H!At, Moves, SidecarInv
  <2> QED
    BY <2>0, <2>2, <2>3, <2>4, Moved
<1> QED
  BY <1>1, <1>2, <1>3, <1>4

\* The launcher's pipe.
LEMMA Piping ==
  ASSUME SidecarInv, NEW p \in Process,
         H!Connect(p) \/ H!Hello(p) \/ H!Disconnect(p) \/ H!ProxyTimesOut(p) \/ H!Shutdown(p)
  PROVE  Steps(p)
<1>1. CASE H!Connect(p)
  <2>0. /\ host[p] \in H!HostState /\ api[p] \in H!ApiState /\ request[p] \in Requests
        /\ Sound(host[p], api[p], request[p], database.rev)
    BY Known
  <2>1. PICK h : h = [host[p] EXCEPT !.link = "connected"]
    OBVIOUS
  <2>2. /\ h \in H!HostState
        /\ h.pc = host[p].pc
        /\ h.link = "connected"
        /\ h.proxying = host[p].proxying
        /\ h.stop = host[p].stop
    BY <2>0, <2>1 DEF H!HostState
  <2>3. Sound(h, api[p], request[p], database.rev)
    BY <1>1, <2>0, <2>2 DEF H!Connect, H!At, Sound, H!Serving
  <2>4. Moves(p, h, api[p], request[p]) /\ database' = database
    BY <1>1, <2>1 DEF H!Connect, H!Go, H!At, Moves, SidecarInv
  <2> QED
    BY <2>0, <2>2, <2>3, <2>4, Moved
<1>2. CASE H!Hello(p)
  <2>0. /\ host[p] \in H!HostState /\ api[p] \in H!ApiState /\ request[p] \in Requests
        /\ Sound(host[p], api[p], request[p], database.rev)
    BY Known
  <2>1. PICK h : h = [host[p] EXCEPT !.link = "hello"]
    OBVIOUS
  <2>2. /\ h \in H!HostState
        /\ h.pc = host[p].pc
        /\ h.link = "hello"
        /\ h.proxying = host[p].proxying
        /\ h.stop = host[p].stop
    BY <2>0, <2>1 DEF H!HostState
  <2>3. Sound(h, api[p], request[p], database.rev)
    BY <1>2, <2>0, <2>2 DEF H!Hello, H!At, Sound, H!Serving
  <2>4. Moves(p, h, api[p], request[p]) /\ database' = database
    BY <1>2, <2>1 DEF H!Hello, H!Go, H!At, Moves, SidecarInv
  <2> QED
    BY <2>0, <2>2, <2>3, <2>4, Moved
<1>3. CASE H!Disconnect(p)
  <2>0. /\ host[p] \in H!HostState /\ api[p] \in H!ApiState /\ request[p] \in Requests
        /\ Sound(host[p], api[p], request[p], database.rev)
    BY Known
  <2>1. PICK h : h = [host[p] EXCEPT !.link = "none"]
    OBVIOUS
  <2>2. /\ h \in H!HostState
        /\ h.pc = host[p].pc
        /\ h.link = "none"
        /\ h.proxying = host[p].proxying
        /\ h.stop = host[p].stop
    BY <2>0, <2>1 DEF H!HostState
  <2>3. Sound(h, api[p], request[p], database.rev)
    BY <1>3, <2>0, <2>2 DEF H!Disconnect, H!At, Sound, H!Serving
  <2>4. Moves(p, h, api[p], request[p]) /\ database' = database
    BY <1>3, <2>1 DEF H!Disconnect, H!Go, H!At, Moves, SidecarInv
  <2> QED
    BY <2>0, <2>2, <2>3, <2>4, Moved
<1>4. CASE H!ProxyTimesOut(p)
  <2>0. /\ host[p] \in H!HostState /\ api[p] \in H!ApiState /\ request[p] \in Requests
        /\ Sound(host[p], api[p], request[p], database.rev)
    BY Known
  <2>1. PICK h : h = [host[p] EXCEPT !.proxying = FALSE]
    OBVIOUS
  <2>2. /\ h \in H!HostState
        /\ h.pc = host[p].pc
        /\ h.link = host[p].link
        /\ h.proxying = FALSE
        /\ h.stop = host[p].stop
    BY <2>0, <2>1 DEF H!HostState
  <2>3. Sound(h, api[p], request[p], database.rev)
    BY <1>4, <2>0, <2>2 DEF H!ProxyTimesOut, H!At, Sound
  <2>4. Moves(p, h, api[p], request[p]) /\ database' = database
    BY <1>4, <2>1 DEF H!ProxyTimesOut, H!Go, H!At, Moves, SidecarInv
  <2> QED
    BY <2>0, <2>2, <2>3, <2>4, Moved
<1>5. CASE H!Shutdown(p)
  <2>0. /\ host[p] \in H!HostState /\ api[p] \in H!ApiState /\ request[p] \in Requests
        /\ Sound(host[p], api[p], request[p], database.rev)
    BY Known
  <2>1. PICK h : h = [host[p] EXCEPT !.stop = TRUE, !.pc = "stopping"]
    OBVIOUS
  <2>2. /\ h \in H!HostState
        /\ h.pc = "stopping"
        /\ h.link = host[p].link
        /\ h.proxying = host[p].proxying
        /\ h.stop = TRUE
    BY <2>0, <2>1 DEF H!HostState
  <2>3. Sound(h, api[p], request[p], database.rev)
    BY <1>5, <2>0, <2>2 DEF H!Shutdown, H!At, Sound, H!Serving
  <2>4. Moves(p, h, api[p], request[p]) /\ database' = database
    BY <1>5, <2>1 DEF H!Shutdown, H!Go, H!At, Moves, SidecarInv
  <2> QED
    BY <2>0, <2>2, <2>3, <2>4, Moved
<1> QED
  BY <1>1, <1>2, <1>3, <1>4, <1>5

\* Publishing and migrating: the revision goes up, or the process ends.
LEMMA Upgrading ==
  ASSUME SidecarInv, NEW p \in Process, H!Publish(p) \/ H!Migrate(p)
  PROVE  Steps(p)
<1>0. /\ host[p] \in H!HostState /\ api[p] \in H!ApiState /\ request[p] \in Requests
      /\ Sound(host[p], api[p], request[p], database.rev)
      /\ DatabaseOK
  BY Known
<1>1. CASE H!Publish(p)
  <2>1. PICK h : h = [host[p] EXCEPT !.pc = "revise"]
    OBVIOUS
  <2>2. /\ h \in H!HostState
        /\ h.pc = "revise"
        /\ h.link = host[p].link
        /\ h.proxying = host[p].proxying
        /\ h.stop = host[p].stop
    BY <1>0, <2>1 DEF H!HostState
  <2>3. Rises
    <3>1. PICK d : d = [rev |-> "head", used |-> FALSE]
      OBVIOUS
    <3>2. /\ d \in [rev: H!Revision, used: BOOLEAN]
          /\ d.rev = "head" /\ ~d.used
      BY <3>1 DEF H!Revision
    <3>3. database' = d \/ database' = database
      BY <1>1, <3>1 DEF H!Publish
    <3>4. database' # database => database.rev = "none"
      BY <1>1 DEF H!Publish
    <3>5. CASE database' = d /\ database' # database
      BY <1>0, <3>2, <3>4, <3>5 DEF Rises, DatabaseOK, H!Height, H!Revision
    <3>6. CASE database' = database
      BY <1>0, <3>6 DEF Rises, DatabaseOK, H!Height, H!Revision
    <3> QED
      BY <3>3, <3>5, <3>6
  <2>4. Sound(h, api[p], request[p], database'.rev)
    BY <1>0, <1>1, <2>2 DEF H!Publish, H!At, Sound
  <2>5. Moves(p, h, api[p], request[p])
    BY <1>1, <2>1 DEF H!Publish, H!Go, Moves, SidecarInv
  <2> QED
    BY <1>0, <2>2, <2>3, <2>4, <2>5 DEF Steps
<1>2. CASE H!Migrate(p)
  <2>1. CASE database.rev = "head" /\ H!Go(p, "http") /\ UNCHANGED database
    <3>1. PICK h : h = [host[p] EXCEPT !.pc = "http"]
      OBVIOUS
    <3>2. /\ h \in H!HostState
          /\ h.pc = "http"
          /\ h.link = host[p].link
          /\ h.proxying = host[p].proxying
          /\ h.stop = host[p].stop
      BY <1>0, <3>1 DEF H!HostState
    <3>3. Sound(h, api[p], request[p], database.rev)
      BY <1>0, <1>2, <2>1, <3>2 DEF H!Migrate, H!At, Sound
    <3>4. Moves(p, h, api[p], request[p]) /\ database' = database
      BY <1>2, <2>1, <3>1 DEF H!Migrate, H!Go, Moves, SidecarInv
    <3> QED
      BY <1>0, <3>2, <3>3, <3>4, Moved
  <2>2. CASE /\ database.rev \in {"none", "old"} /\ UNCHANGED host
             /\ database' = [database EXCEPT !.rev = IF @ = "none" THEN "old" ELSE "head"]
    <3>1. Rises
      BY <1>0, <2>2 DEF Rises, DatabaseOK, H!Height, H!Revision
    <3>2. Sound(host[p], api[p], request[p], database'.rev)
      BY <1>0, <1>2 DEF H!Migrate, H!At, Sound
    <3>3. Moves(p, host[p], api[p], request[p])
      BY <1>2, <2>2 DEF H!Migrate, Moves, SidecarInv
    <3> QED
      BY <1>0, <3>1, <3>2, <3>3 DEF Steps
  <2>3. CASE host' = [host EXCEPT ![p] = H!Off] /\ UNCHANGED database
    <3>1. H!Off \in H!HostState /\ Sound(H!Off, api[p], request[p], database.rev)
      BY <1>0, <1>2 DEF H!Migrate, H!At, Sound, H!Off, H!HostState
    <3>2. Moves(p, H!Off, api[p], request[p]) /\ database' = database
      BY <1>2, <2>3 DEF H!Migrate, Moves, SidecarInv
    <3> QED
      BY <1>0, <3>1, <3>2, Moved
  <2> QED
    BY <1>2, <2>1, <2>2, <2>3 DEF H!Migrate
<1> QED
  BY <1>1, <1>2

\* The end of a process.
LEMMA Ending ==
  ASSUME SidecarInv, NEW p \in Process, H!Stop(p) \/ H!Crash(p)
  PROVE  Steps(p)
<1>1. Moves(p, H!Off, H!NoApi, H!NoRequest) /\ database' = database
  BY DEF H!Stop, H!Crash, H!Exit, Moves
<1> QED
  BY <1>1, SoundOff, Moved

\* Requests that come, are answered, and are finished.
LEMMA Requesting ==
  ASSUME SidecarInv, NEW p \in Process,
         H!Proxy(p) \/ H!Direct(p) \/ \E w \in H!Way : H!Answer(p, w) \/ H!Finish(p, w)
  PROVE  Steps(p)
<1>0. /\ host[p] \in H!HostState /\ api[p] \in H!ApiState /\ request[p] \in Requests
      /\ Sound(host[p], api[p], request[p], database.rev)
      /\ DatabaseOK
  BY Known
<1>1. CASE H!Proxy(p)
  <2>1. PICK h : h = [host[p] EXCEPT !.proxying = TRUE]
    OBVIOUS
  <2>2. /\ h \in H!HostState
        /\ h.pc = host[p].pc
        /\ h.link = host[p].link
        /\ h.stop = host[p].stop
    BY <1>0, <2>1 DEF H!HostState
  <2>3. PICK q : q = [request[p] EXCEPT !["proxied"] = "waiting"]
    OBVIOUS
  <2>4. /\ q \in Requests
        /\ \A w \in H!Way : q[w] = "forwarded" => request[p][w] = "forwarded"
    BY <1>0, <2>3 DEF Requests
  <2>5. Sound(h, api[p], q, database.rev)
    BY <1>0, <1>1, <2>2, <2>4 DEF H!Proxy, H!Serving, H!At, Sound
  <2>6. Moves(p, h, api[p], q) /\ database' = database
    BY <1>1, <2>1, <2>3 DEF H!Proxy, Moves, SidecarInv
  <2> QED
    BY <1>0, <2>2, <2>4, <2>5, <2>6, Moved
<1>2. CASE H!Direct(p)
  <2>1. PICK q : q = [request[p] EXCEPT !["direct"] = "waiting"]
    OBVIOUS
  <2>2. /\ q \in Requests
        /\ \A w \in H!Way : q[w] = "forwarded" => request[p][w] = "forwarded"
    BY <1>0, <2>1 DEF Requests
  <2>3. Sound(host[p], api[p], q, database.rev)
    BY <1>0, <1>2, <2>2 DEF H!Direct, H!At, Sound
  <2>4. Moves(p, host[p], api[p], q) /\ database' = database
    BY <1>2, <2>1 DEF H!Direct, Moves, SidecarInv
  <2> QED
    BY <1>0, <2>2, <2>3, <2>4, Moved
<1>3. ASSUME NEW w \in H!Way, H!Answer(p, w)
      PROVE  Steps(p)
  <2>1. PICK v : v = IF api[p].ready /\ ~api[p].failure /\ api[p].application
                     THEN "forwarded" ELSE "none"
    OBVIOUS
  <2>2. v \in {"forwarded", "none"} /\ (v = "forwarded" => api[p].ready /\ ~api[p].failure)
    BY <2>1
  <2>3. PICK q : q = [request[p] EXCEPT ![w] = v]
    OBVIOUS
  <2>4. /\ q \in Requests /\ q[w] = v
        /\ \A x \in H!Way : x # w => q[x] = request[p][x]
    BY <1>0, <2>2, <2>3 DEF Requests
  <2>5. PICK b : b = (host[p].proxying /\ (w = "direct" \/ request'[p][w] = "forwarded"))
    OBVIOUS
  <2>6. b \in BOOLEAN /\ (b => host[p].proxying)
    BY <2>5
  <2>7. PICK h : h = [host[p] EXCEPT !.proxying = b]
    OBVIOUS
  <2>8. /\ h \in H!HostState
        /\ h.pc = host[p].pc
        /\ h.link = host[p].link
        /\ h.stop = host[p].stop
        /\ h.proxying = b
    BY <1>0, <2>6, <2>7 DEF H!HostState
  <2>9. api[p].load # "none"
    BY <1>0, <1>3 DEF H!Answer, Sound, H!NoRequest
  <2>10. v = "forwarded" => api[p].lifespan
    BY <1>0, <2>2, <2>9 DEF Sound, H!ApiState
  <2>11. Sound(h, api[p], q, database.rev)
    BY <1>0, <2>4, <2>6, <2>8, <2>9, <2>10 DEF Sound
  <2>12. host' = [host EXCEPT ![p] = h]
    BY <1>3, <2>5, <2>7 DEF H!Answer, SidecarInv
  <2>13. Moves(p, h, api[p], q) /\ database' = database
    BY <1>3, <2>1, <2>3, <2>12 DEF H!Answer, Moves, SidecarInv
  <2> QED
    BY <1>0, <2>4, <2>8, <2>11, <2>13, Moved
<1>4. ASSUME NEW w \in H!Way, H!Finish(p, w)
      PROVE  Steps(p)
  <2>1. PICK q : q = [request[p] EXCEPT ![w] = "none"]
    OBVIOUS
  <2>2. /\ q \in Requests
        /\ \A x \in H!Way : q[x] = "forwarded" => request[p][x] = "forwarded"
    BY <1>0, <2>1 DEF Requests
  <2>3. PICK b : b = (host[p].proxying /\ w = "direct")
    OBVIOUS
  <2>4. b \in BOOLEAN /\ (b => host[p].proxying)
    BY <2>3
  <2>5. PICK h : h = [host[p] EXCEPT !.proxying = b]
    OBVIOUS
  <2>6. /\ h \in H!HostState
        /\ h.pc = host[p].pc
        /\ h.link = host[p].link
        /\ h.stop = host[p].stop
        /\ h.proxying = b
    BY <1>0, <2>4, <2>5 DEF H!HostState
  <2>7. api[p].load # "none"
    BY <1>0, <1>4 DEF H!Finish, Sound, H!NoRequest
  <2>8. PICK used \in {database.used, TRUE} : database' = [database EXCEPT !.used = used]
    BY <1>4 DEF H!Finish
  <2>9. used \in BOOLEAN /\ (database.used => used)
    BY <1>0 DEF DatabaseOK
  <2>10. /\ database' \in [rev: H!Revision, used: BOOLEAN]
         /\ database'.rev = database.rev /\ database'.used = used
    BY <1>0, <2>8, <2>9 DEF DatabaseOK
  <2>11. database.rev = "head"
    BY <1>0, <1>4, <2>7 DEF H!Finish, Sound, H!NoApi
  <2>12. database'.rev = database.rev /\ Rises
    BY <1>0, <2>9, <2>10, <2>11 DEF Rises, DatabaseOK, H!Height, H!Revision
  <2>13. Sound(h, api[p], q, database'.rev)
    BY <1>0, <2>2, <2>4, <2>6, <2>7, <2>12 DEF Sound
  <2>14. Moves(p, h, api[p], q)
    BY <1>4, <2>1, <2>3, <2>5 DEF H!Finish, Moves, SidecarInv
  <2> QED
    BY <1>0, <2>2, <2>6, <2>12, <2>13, <2>14 DEF Steps
<1> QED
  BY <1>1, <1>2, <1>3, <1>4

LEMMA InitSidecar == H!Init => SidecarInv
<1> SUFFICES ASSUME H!Init PROVE SidecarInv
  OBVIOUS
<1>1. \A p \in Process : host[p] = H!Off /\ api[p] = H!NoApi /\ request[p] = H!NoRequest
  BY DEF H!Init
<1>2. \A p \in Process : Sound(host[p], api[p], request[p], database.rev)
  BY <1>1, SoundOff
<1>3. database = [rev |-> "none", used |-> FALSE] \/ database = [rev |-> "old", used |-> TRUE]
  BY DEF H!Init
<1>4. /\ [rev |-> "none", used |-> FALSE] \in [rev: H!Revision, used: BOOLEAN]
      /\ [rev |-> "old", used |-> TRUE] \in [rev: H!Revision, used: BOOLEAN]
  BY DEF H!Revision
<1>5. DatabaseOK
  <2>1. CASE database = [rev |-> "none", used |-> FALSE]
    BY <1>4, <2>1 DEF DatabaseOK
  <2>2. CASE database = [rev |-> "old", used |-> TRUE]
    BY <1>4, <2>2 DEF DatabaseOK
  <2> QED
    BY <1>3, <2>1, <2>2
<1>6. /\ host \in [Process -> H!HostState] /\ api \in [Process -> H!ApiState]
      /\ request \in [Process -> Requests]
  BY SoundOff DEF H!Init
<1> QED
  BY <1>2, <1>6, <1>5 DEF SidecarInv

\* Every step keeps the invariant, and the database that is there.
LEMMA NextSidecar == SidecarInv /\ [H!Next]_(H!vars) => SidecarInv' /\ Rises
<1> SUFFICES ASSUME SidecarInv, [H!Next]_(H!vars) PROVE SidecarInv' /\ Rises
  OBVIOUS
<1>1. CASE H!Next
  <2>1. PICK p \in Process : Steps(p)
    BY <1>1, Preparing, Loading, Piping, Upgrading, Ending, Requesting DEF H!Next
  <2> QED
    BY <2>1, OneSteps
<1>2. CASE UNCHANGED H!vars
  BY <1>2 DEF H!vars, SidecarInv, DatabaseOK, Rises, H!Height, H!Revision
<1> QED
  BY <1>1, <1>2

\* What the invariant says of requests.
LEMMA SidecarServes == SidecarInv => H!ServedWhenReady
<1> SUFFICES ASSUME SidecarInv, NEW p \in Process, NEW w \in H!Way,
                    request[p][w] = "forwarded"
             PROVE  api[p].lifespan /\ database.rev = "head"
  BY DEF H!ServedWhenReady
<1>1. Sound(host[p], api[p], request[p], database.rev) /\ host[p] \in H!HostState
  BY Known
<1>2. api[p].lifespan /\ api[p].load # "none"
  BY <1>1 DEF Sound, H!NoRequest
<1>3. host[p].pc \in {"serving", "stopping"}
  BY <1>1, <1>2 DEF Sound, H!NoApi
<1> QED
  BY <1>1, <1>2, <1>3 DEF Sound

-----------------------------------------------------------------------------
(* The part in focus makes a step of its own, the others stand still.       *)
LEMMA PartsStep ==
  ASSUME [AllNext]_allVars
  PROVE  [S!Next]_(S!vars) /\ [Next]_vars /\ [H!Next]_(H!vars)
<1>1. UNCHANGED sandbox => UNCHANGED S!vars
  BY DEF sandbox, S!vars, S!brokerVars
<1>2. UNCHANGED sidecar => UNCHANGED H!vars
  BY DEF sidecar, H!vars
<1> QED
  BY <1>1, <1>2 DEF AllNext, InSandbox, InTerminal, InSidecar, allVars

(* ProcessSandbox's theorems hold of the sandbox among the other parts: a  *)
(* child runs only in a complete boundary, a closed broker is clean, and,  *)
(* where no two executions share a workspace, grants are remembered.       *)
THEOREM SandboxHolds ==
  BrokerAssumption /\ OwnWorkspaces => (AllSpec => []BoundaryHolds)
<1> SUFFICES ASSUME BrokerAssumption, OwnWorkspaces PROVE AllSpec => []BoundaryHolds
  OBVIOUS
<1>1. AllInit => IInv /\ RInv
  BY InitIInv, InitRInv DEF AllInit
<1>2. (IInv /\ RInv) /\ [AllNext]_allVars => (IInv /\ RInv)'
  BY PartsStep, NextIInv, NextRInv
<1>3. IInv /\ RInv => BoundaryHolds
  BY IInvBoundary, IInvClean DEF BoundaryHolds, RInv, Remembers,
     S!GrantsAreRemembered, S!GrantedIn
<1> QED
  BY <1>1, <1>2, <1>3, PTL DEF AllSpec

\* With the bound on the boots, the invariant gives the types.
LEMMA SidecarTypes == SidecarInv /\ boots \in 0..MaxBoots => H!TypeOK
<1> SUFFICES ASSUME SidecarInv, NEW p \in Process, host[p].pc = "off"
             PROVE  host[p] = H!Off /\ api[p] = H!NoApi /\ request[p] = H!NoRequest
  BY DEF SidecarInv, DatabaseOK, H!TypeOK, Requests
<1>1. Sound(host[p], api[p], request[p], database.rev) /\ host[p] \in H!HostState
  BY Known
<1>2. /\ api[p] = H!NoApi
      /\ host[p].link = "none" /\ ~host[p].proxying /\ ~host[p].stop
  BY <1>1 DEF Sound
<1>3. host[p] = H!Off
  BY <1>1, <1>2 DEF H!HostState, H!Off
<1>4. request[p] = H!NoRequest
  BY <1>1, <1>2 DEF Sound, H!NoApi
<1> QED
  BY <1>2, <1>3, <1>4

(* In the sandbox, the terminals and the sidecars the variables keep their *)
(* types, and an exited sidecar leaves nothing in memory (Exit: the end of *)
(* main of sidecar_host.py).                                               *)
THEOREM WindowsTypeCorrect ==
  BrokerAssumption /\ MaxBoots \in Nat => (AllSpec => []AllTypeOK)
<1> SUFFICES ASSUME BrokerAssumption, MaxBoots \in Nat PROVE AllSpec => []AllTypeOK
  OBVIOUS
<1> DEFINE J == IInv /\ TerminalInv /\ SidecarInv /\ boots \in 0..MaxBoots
<1>1. AllInit => J
  BY InitIInv, InitTerminal, InitSidecar DEF AllInit, H!Init
<1>2. J /\ [AllNext]_allVars => J'
  <2> SUFFICES ASSUME J, [AllNext]_allVars PROVE J'
    OBVIOUS
  <2>1. [S!Next]_(S!vars) /\ [Next]_vars /\ [H!Next]_(H!vars)
    BY PartsStep
  <2>2. IInv' /\ TerminalInv' /\ SidecarInv'
    BY <2>1, NextIInv, NextTerminal, NextSidecar
  <2>3. boots' = boots \/ (boots < MaxBoots /\ boots' = boots + 1)
    <3>1. ASSUME NEW p \in Process
          PROVE  /\ H!Boot(p) => boots < MaxBoots /\ boots' = boots + 1
                 /\ H!Check(p) \/ H!Copy(p) \/ H!Publish(p) \/ H!Revise(p) => boots' = boots
                 /\ H!Migrate(p) \/ H!Listen(p) \/ H!Import(p) \/ H!Enter(p) => boots' = boots
                 /\ H!Connect(p) \/ H!Hello(p) \/ H!Disconnect(p) => boots' = boots
                 /\ H!Proxy(p) \/ H!ProxyTimesOut(p) \/ H!Direct(p) => boots' = boots
                 /\ H!Shutdown(p) \/ H!ShutDownLifespan(p) => boots' = boots
                 /\ H!Stop(p) \/ H!Crash(p) => boots' = boots
                 /\ \A w \in H!Way : H!Answer(p, w) \/ H!Finish(p, w) => boots' = boots
      BY DEF H!Boot, H!Check, H!Copy, H!Publish, H!Revise, H!Migrate, H!Listen, H!Import,
         H!Enter, H!Answer, H!Finish, H!Connect, H!Hello, H!Disconnect, H!Proxy,
         H!ProxyTimesOut, H!Direct, H!Shutdown, H!ShutDownLifespan, H!Stop, H!Crash
    <3>2. CASE H!Next
      <4>1. PICK p \in Process : H!Boot(p) \/ boots' = boots
        BY <3>1, <3>2, Zenon DEF H!Next
      <4> QED
        BY <3>1, <4>1, Zenon
    <3>3. CASE UNCHANGED H!vars
      BY <3>3 DEF H!vars
    <3> QED
      BY <2>1, <3>2, <3>3, Zenon
  <2>4. boots' \in 0..MaxBoots
    BY <2>3
  <2> QED
    BY <2>2, <2>4
<1>3. J => AllTypeOK
  BY SidecarTypes DEF AllTypeOK, TerminalInv, IInv
<1> QED
  BY <1>1, <1>2, <1>3, PTL DEF AllSpec

(* Of any number of terminals, whose opens, ends and closes interleave in  *)
(* any way, no more than max_active_sessions are active, with the opens    *)
(* under way, and the sessions that are kept pass max_retained_sessions by *)
(* no more than those opens (open, _prune_finished_locked of conpty.py).   *)
THEOREM TerminalsAreLimited == AllSpec => []TerminalLimits
<1>1. AllInit => TerminalInv
  BY InitTerminal DEF AllInit
<1>2. TerminalInv /\ [AllNext]_allVars => TerminalInv'
  BY PartsStep, NextTerminal
<1>3. TerminalInv => TerminalLimits
  BY DEF TerminalInv, TerminalLimits
<1> QED
  BY <1>1, <1>2, <1>3, PTL DEF AllSpec

(* A session that has ended stays so, but for late resizes and signals,    *)
(* and one that is attached is closed by nothing but a close call (attach, *)
(* _disconnect_expired of conpty.py).                                      *)
THEOREM EndsAreKept == AllSpec => EndedStaysEnded
<1>1. AllInit => TerminalInv
  BY InitTerminal DEF AllInit
<1>2. TerminalInv /\ [AllNext]_allVars => TerminalInv'
  BY PartsStep, NextTerminal
<1>3. TerminalInv /\ [AllNext]_allVars =>
        /\ [\A s \in Session :
              IsFinal(s) => IsFinal(s)' \/ term[s].calls \cap {"resize", "signal"}
                                            # term'[s].calls \cap {"resize", "signal"}
           ]_vars
        /\ [\A s \in Session :
              /\ term[s].connected /\ ~IsFinal(s)
              /\ term'[s].state = "closed"
              => "close" \in term'[s].calls]_vars
  BY PartsStep, StepEnds DEF TerminalInv
<1> QED
  BY <1>1, <1>2, <1>3, PTL DEF AllSpec, EndedStaysEnded, FinalIsLeftByLateCallsOnly,
     AttachedIsNotExpired

(* Of any number of sidecars that share a database, crash at any step and  *)
(* overlap: the application sees requests only while it is started, with   *)
(* the database at its revision, and no database is ever replaced          *)
(* (__call__, _install_bootstrap of sidecar_host.py).                      *)
THEOREM SidecarsServe == AllSpec => ServedFromOwnDatabase
<1>1. AllInit => SidecarInv
  BY InitSidecar DEF AllInit
<1>2. SidecarInv /\ [AllNext]_allVars => SidecarInv'
  BY PartsStep, NextSidecar
<1>3. SidecarInv /\ [AllNext]_allVars =>
        [/\ H!Height(database'.rev) >= H!Height(database.rev)
         /\ database.used => database'.used]_(H!vars)
  BY PartsStep, NextSidecar DEF Rises
<1>4. SidecarInv => H!ServedWhenReady
  BY SidecarServes
<1> QED
  BY <1>1, <1>2, <1>3, <1>4, PTL DEF AllSpec, ServedFromOwnDatabase, H!DatabaseIsKept
=============================================================================
