---------------------------- MODULE ProcessSandbox ----------------------------
(***************************************************************************)
(* Tool executions in Windows job objects: sandbox_factory.execute makes a *)
(* broker, a sandbox handle and one child, and takes all of them down      *)
(* again; WindowsProcessSandbox's run and kill_tree do the work, and       *)
(* another thread (a terminal's watcher, a caller that stops the tool) may *)
(* call kill_tree at any moment.                                           *)
(*                                                                         *)
(* run and kill_tree take the handle's locks piece by piece, so a piece is *)
(* an action.  Each broker belongs to one execution and names it.          *)
(***************************************************************************)
EXTENDS IsolationBroker

VARIABLES
  handle, \* the WindowsSandboxHandle of each execution
  child,  \* the process of each execution, and whether it is in the job
  exec,   \* where execute() stands
  kill    \* where each call of kill_tree stands

vars == <<brokerVars, handle, child, exec, kill>>

\* Who calls kill_tree: execute() in its finally, and one other thread.
Caller == {"owner", "other"}

HandleState ==
  [job: {"none", "open", "closed"},
   closed: BOOLEAN,
   closing: BOOLEAN,
   held: BOOLEAN,                  \* broker_launch_acquired
   lock: {"free", "run", "lost"} \cup Caller]  \* who holds _run_lock

NoHandle == [job |-> "none", closed |-> FALSE, closing |-> FALSE,
             held |-> FALSE, lock |-> "free"]

ChildState == [state: {"none", "suspended", "running", "dead"},
               contained: BOOLEAN]
NoChild == [state |-> "none", contained |-> FALSE]

ExecPC == {"start", "create", "enter", "locked", "launched", "wait", "drain",
           "finally", "killing", "close", "done"}
KillPC == {"idle", "marked", "waiting", "holding", "over", "orphan"}

TypeOK ==
  /\ BrokerTypeOK
  /\ handle \in [Broker -> HandleState]
  /\ child \in [Broker -> ChildState]
  /\ exec \in [Broker -> ExecPC]
  /\ kill \in [Broker -> [Caller -> KillPC]]
  /\ \A b \in Broker : broker[b].launches = IF handle[b].held THEN 1 ELSE 0

-----------------------------------------------------------------------------
AtExec(b, pc) == exec[b] = pc
GoExec(b, pc) == exec' = [exec EXCEPT ![b] = pc]
AtKill(b, c, pc) == kill[b][c] = pc
GoKill(b, c, pc) == kill' = [kill EXCEPT ![b][c] = pc]

Alive(b) == child[b].state \in {"suspended", "running"}

\* The child after TerminateJobObject, or after the job's last handle closes.
Slain(b) == [child EXCEPT ![b].state =
               IF Alive(b) /\ child[b].contained THEN "dead" ELSE @]

Release(b) == broker' = [broker EXCEPT ![b].launches = @ - 1]

Init ==
  /\ BrokerInit
  /\ handle = [b \in Broker |-> NoHandle]
  /\ child = [b \in Broker |-> NoChild]
  /\ exec = [b \in Broker |-> "start"]
  /\ kill = [b \in Broker |-> [c \in Caller |-> "idle"]]

-----------------------------------------------------------------------------
(* execute() up to the handle.                                             *)

Begin(b) ==
  /\ AtExec(b, "start")
  /\ \/ Initialize(b) /\ GoExec(b, "create")
     \/ \E stage \in Stage, bad \in SUBSET (Part \cup {"profile"}) :
          InitializeFails(b, stage, bad) /\ GoExec(b, "close")
  /\ UNCHANGED <<handle, child, kill>>

\* create: pin the broker, then make the job; failing, give the pin back.
Create(b) ==
  /\ AtExec(b, "create")
  /\ \/ /\ MayLaunch(b)
        /\ broker' = [broker EXCEPT ![b].launches = @ + 1]
        /\ handle' = [handle EXCEPT ![b].job = "open", ![b].held = TRUE]
        /\ GoExec(b, "enter")
     \/ UNCHANGED <<broker, handle>> /\ GoExec(b, "close")
  /\ UNCHANGED <<dacl, exists, child, kill>>

-----------------------------------------------------------------------------
(* run.                                                                    *)

Enter(b) ==
  /\ AtExec(b, "enter")
  /\ \/ /\ ~handle[b].closed /\ ~handle[b].closing
        /\ handle[b].lock = "free"
        /\ handle' = [handle EXCEPT ![b].lock = "run"]
        /\ GoExec(b, "locked")
     \/ /\ handle[b].closed \/ handle[b].closing \/ handle[b].lock # "free"
        /\ GoExec(b, "finally")
        /\ UNCHANGED handle
  /\ UNCHANGED <<brokerVars, child, kill>>

(* Faulty variant: a run that ends leaves the run lock taken.              *)
LeaveRunLocked(b) ==
  /\ UNCHANGED handle
  /\ GoExec(b, "finally")

\* Leave run: its finally frees the run lock.
LeaveRun(b) ==
  /\ handle' = [handle EXCEPT ![b].lock = "free"]
  /\ GoExec(b, "finally")

\* Create the suspended child with the broker's token and package.
Launch(b) ==
  /\ AtExec(b, "locked")
  /\ \/ /\ MayLaunch(b)
        /\ child' = [child EXCEPT ![b].state = "suspended"]
        /\ GoExec(b, "launched")
        /\ UNCHANGED handle
     \/ LeaveRun(b) /\ UNCHANGED child
  /\ UNCHANGED <<brokerVars, kill>>

(* Faulty variant: the child is resumed before it is put into the job.     *)
AssignLate(b) ==
  /\ AtExec(b, "launched")
  /\ \/ /\ child' = [child EXCEPT ![b].state = "running"]
        /\ GoExec(b, "wait")
        /\ UNCHANGED <<broker, handle>>
     \/ /\ child' = [child EXCEPT ![b].state = "dead"]
        /\ handle' = [handle EXCEPT ![b].job = "closed", ![b].closed = TRUE,
                                    ![b].held = FALSE, ![b].lock = "free"]
        /\ IF handle[b].held THEN Release(b) ELSE UNCHANGED broker
        /\ GoExec(b, "finally")
  /\ UNCHANGED <<dacl, exists, kill>>

\* Assign the child to the job, verify its token, resume it; on an error
\* kill it, close the job and give the broker's pin back.
Assign(b) ==
  /\ AtExec(b, "launched")
  /\ \/ /\ child' = [child EXCEPT ![b] = [state |-> "running",
                                          contained |-> TRUE]]
        /\ GoExec(b, "wait")
        /\ UNCHANGED <<broker, handle>>
     \/ /\ child' = [child EXCEPT ![b].state = "dead"]
        /\ handle' = [handle EXCEPT ![b].job = "closed", ![b].closed = TRUE,
                                    ![b].held = FALSE, ![b].lock = "free"]
        /\ IF handle[b].held THEN Release(b) ELSE UNCHANGED broker
        /\ GoExec(b, "finally")
  /\ UNCHANGED <<dacl, exists, kill>>

\* The wait ends: the child has exited, or the timeout, a cancellation or an
\* error terminates the job (which may fail) and waits a little longer.
Wait(b) ==
  /\ AtExec(b, "wait")
  /\ \/ child[b].state = "dead" /\ UNCHANGED child
     \/ child' = Slain(b)
     \/ UNCHANGED child
  /\ GoExec(b, "drain")
  /\ UNCHANGED <<brokerVars, handle, kill>>

\* Join the output readers, close streams and native handles, free the lock.
Drain(b) ==
  /\ AtExec(b, "drain")
  /\ LeaveRun(b)
  /\ UNCHANGED <<brokerVars, child, kill>>

-----------------------------------------------------------------------------
(* kill_tree.                                                              *)

\* Under _lock: nothing to do for a closed handle, else mark it closing.
KillMark(b, c) ==
  /\ AtKill(b, c, "idle")
  /\ handle[b].job # "none"
  /\ IF c = "owner" THEN AtExec(b, "finally") /\ GoExec(b, "killing")
     ELSE UNCHANGED exec
  /\ \/ handle[b].closed /\ GoKill(b, c, "over") /\ UNCHANGED handle
     \/ /\ ~handle[b].closed
        /\ handle' = [handle EXCEPT ![b].closing = TRUE]
        /\ GoKill(b, c, "marked")
  /\ UNCHANGED <<brokerVars, child>>

\* Terminate the job before waiting for the run lock; an error is swallowed.
KillTerminate(b, c) ==
  /\ AtKill(b, c, "marked")
  /\ child' = IF handle[b].closed THEN child ELSE Slain(b)
  /\ GoKill(b, c, "waiting")
  /\ UNCHANGED <<brokerVars, handle, exec>>

KillAcquire(b, c) ==
  /\ AtKill(b, c, "waiting")
  /\ handle[b].lock = "free"
  /\ handle' = [handle EXCEPT ![b].lock = c]
  /\ GoKill(b, c, "holding")
  /\ UNCHANGED <<brokerVars, child, exec>>

(* Faulty variant: a second kill_tree gives the pin back a second time.    *)
KillCloseAgain(b, c) ==
  /\ AtKill(b, c, "holding")
  /\ child' = Slain(b)
  /\ handle' = [handle EXCEPT ![b] = [job |-> "closed", closed |-> TRUE,
                                      closing |-> FALSE, held |-> FALSE,
                                      lock |-> "free"]]
  /\ Release(b)
  /\ GoKill(b, c, "over")
  /\ UNCHANGED <<dacl, exists, exec>>

\* With both locks: close the job and give the pin back, once.
KillClose(b, c) ==
  /\ AtKill(b, c, "holding")
  /\ \/ /\ handle[b].closed
        /\ handle' = [handle EXCEPT ![b].closing = FALSE, ![b].lock = "free"]
        /\ UNCHANGED <<broker, child>>
     \/ /\ ~handle[b].closed
        /\ child' = Slain(b)
        /\ handle' = [handle EXCEPT ![b] = [job |-> "closed", closed |-> TRUE,
                                            closing |-> FALSE, held |-> FALSE,
                                            lock |-> "free"]]
        /\ IF handle[b].held THEN Release(b) ELSE UNCHANGED broker
  /\ GoKill(b, c, "over")
  /\ UNCHANGED <<dacl, exists, exec>>

\* The caller is cancelled while a worker thread waits for the run lock: the
\* thread goes on to take it, and nobody will free it.
KillCancelled(b, c) ==
  /\ AtKill(b, c, "waiting")
  /\ GoKill(b, c, "orphan")
  /\ UNCHANGED <<brokerVars, handle, child, exec>>

OrphanAcquire(b, c) ==
  /\ AtKill(b, c, "orphan")
  /\ handle[b].lock = "free"
  /\ handle' = [handle EXCEPT ![b].lock = "lost"]
  /\ UNCHANGED <<brokerVars, child, exec, kill>>

-----------------------------------------------------------------------------
(* The rest of execute(), the child, and the broker's other callers.       *)

KillReturned(b) ==
  /\ AtExec(b, "killing")
  /\ kill[b]["owner"] \in {"over", "orphan"}
  /\ GoExec(b, "close")
  /\ UNCHANGED <<brokerVars, handle, child, kill>>

\* broker.close() of the finally: it succeeds, leaves a cleanup pending, is
\* refused, or has nothing to do.
End(b) ==
  /\ AtExec(b, "close")
  /\ \/ \E bad \in SUBSET (Part \cup {"profile"}) : Close(b, bad)
     \/ CloseRefused(b)
  /\ GoExec(b, "done")
  /\ UNCHANGED <<handle, child, kill>>

ChildExits(b) ==
  /\ child[b].state = "running"
  /\ child' = [child EXCEPT ![b].state = "dead"]
  /\ UNCHANGED <<brokerVars, handle, exec, kill>>

\* A child with access to the workspace deletes or renames the file.
ChildDeletes(b) ==
  LET w == WorkspaceOf[b]
  IN  /\ child[b].state = "running"
      /\ exists[w] /\ b \in dacl[w]["root"] \cup dacl[w]["file"]
      /\ exists' = [exists EXCEPT ![w] = FALSE]
      /\ UNCHANGED <<broker, dacl, handle, child, exec, kill>>

\* The child's tool asks for a secret while execute() runs.
Secret(b) ==
  /\ exec[b] \notin {"start", "done"}
  /\ IssueSecret(b) \/ ConsumeSecret(b)
  /\ UNCHANGED <<handle, child, exec, kill>>

Run(b) == Enter(b) \/ Launch(b) \/ Assign(b) \/ Wait(b) \/ Drain(b)

Execute(b) ==
  \/ Begin(b) \/ Create(b) \/ Run(b)
  \/ KillMark(b, "owner") \/ KillReturned(b) \/ End(b)

KillTree(b, c) ==
  KillTerminate(b, c) \/ KillAcquire(b, c) \/ KillClose(b, c)
    \/ OrphanAcquire(b, c)

Next ==
  \E b \in Broker :
    \/ Execute(b)
    \/ KillMark(b, "other")
    \/ \E c \in Caller : KillTree(b, c) \/ KillCancelled(b, c)
    \/ ChildExits(b) \/ ChildDeletes(b) \/ Secret(b)

Spec == Init /\ [][Next]_vars

(* execute() and kill_tree go on as long as they can: run waits for its    *)
(* child no longer than the timeout, and kill_tree waits in a blocking     *)
(* acquire of the run lock, which is asked for a bounded number of times.  *)
FairSpec ==
  /\ Spec
  /\ \A b \in Broker :
       /\ WF_vars(Execute(b))
       /\ \A c \in Caller : WF_vars(KillTree(b, c))

-----------------------------------------------------------------------------
(* Properties                                                              *)

(* A child runs only inside a boundary that is complete: it is in an open  *)
(* job, its launch pins the broker, and the broker keeps its token, its    *)
(* profile and the snapshots of the access lists until the child is dead   *)
(* (_run_claimed, kill_tree, close).                                       *)
RunsInsideBoundary ==
  \A b \in Broker :
    child[b].state = "running" =>
      /\ child[b].contained
      /\ handle[b].job = "open"
      /\ handle[b].held
      /\ broker[b].verified /\ broker[b].token /\ broker[b].profile = "held"
      /\ "root" \in DOMAIN broker[b].saved

(* A closed broker has given everything back: no snapshot, profile, token, *)
(* secret or launch is left and its child is dead, whoever else killed the *)
(* tree or failed to (close, release_launch, kill_tree).                   *)
ClosedMeansClean ==
  \A b \in Broker :
    broker[b].closed =>
      /\ broker[b] = [NewBroker EXCEPT !.closed = TRUE]
      /\ child[b].state \in {"none", "dead"}

GrantedIn(b, p) ==
  Present(WorkspaceOf[b], p) /\ b \in dacl[WorkspaceOf[b]][p]

(* A package that is in an access list can still be taken out of it: its   *)
(* broker keeps the snapshot from before the grant through failing         *)
(* initializations and cleanups (_cleanup_native_state, close).            *)
GrantsAreRemembered ==
  \A b \in Broker, p \in Part :
    GrantedIn(b, p) => p \in DOMAIN broker[b].saved

(* Every execution comes to its end although kill_tree and run wait for    *)
(* each other's lock and another caller may kill the tree at any moment;   *)
(* the one exception is the lock that a cancelled kill_tree leaves behind. *)
EveryExecutionEnds ==
  \A b \in Broker :
    AtExec(b, "create") ~> (AtExec(b, "done") \/ handle[b].lock = "lost")
=============================================================================
