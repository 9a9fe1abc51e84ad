---------------------------- MODULE StepExecution ----------------------------
(***************************************************************************)
(* The execution of single steps: the executor's retry policy, the         *)
(* orchestrator's grant path (policy, grant, lease, gateway), the effect   *)
(* journal and the operator's reconcile route, over one SQLite file.       *)
(*                                                                         *)
(* All of it runs as coroutines on one event loop.  An attempt writes its  *)
(* grant, lease, effect and dispatch rows, awaits the tool with that       *)
(* transaction open, writes the receipt and commits.  SQLite has a single  *)
(* write lock, which the attempt holds from its first INSERT to its        *)
(* commit; a coroutine that meets the lock waits inside the SQLite call,   *)
(* so the whole loop waits with it, until the busy timeout raises.         *)
(*                                                                         *)
(* Between two awaits nothing interleaves: such a stretch is one action.   *)
(* The lease is not modelled here: in this path its owner is always the    *)
(* step's own executor, and acquire and is_valid run in one stretch.       *)
(***************************************************************************)
EXTENDS Integers

CONSTANTS
  Step,      \* step rows, of any number of tasks
  NoStep,    \* nobody
  Operator   \* the reconcile route

ASSUME StepAssumption ==
  /\ NoStep \notin Step
  /\ Operator \notin Step \cup {NoStep}

VARIABLES
  kind,     \* the class of each step, fixed: its tool's risk and who runs it
  pc,       \* where the coroutine of each step stands
  attempt,  \* calls of execute_step_async or its resume so far
  result,   \* the status the step ended with
  loop,     \* who keeps the event loop waiting for the write lock
  writer,   \* the attempt whose transaction holds the write lock
  work,     \* the uncommitted rows of that transaction
  db,       \* the committed rows of each attempt
  requests, \* steps with a committed approval request
  live,     \* attempts whose tool may still act on the world
  acted,    \* attempts whose tool has acted on the world
  outcome,  \* history: what the tool of each attempt reported
  lost      \* history: attempts whose transaction was rolled back

stepVars == <<kind, pc, attempt, result>>
dbVars == <<writer, work, db, requests>>
toolVars == <<live, acted, outcome>>
vars == <<stepVars, loop, dbVars, toolVars, lost>>

Attempt == Step \X {1, 2}
NoAttempt == <<NoStep, 0>>
Kind == {"read_only", \* risk level "low": EffectClass READ_ONLY
         "change",    \* side effects, run by the plan
         "approved"}  \* side effects, run by the resume of its approval
PC == {"idle", "dispatched", "auditRetry", "auditUnknown", "retry", "done",
       "raised", "killed"}
Ended == {"done", "raised", "killed"}
Result == {"none", "completed", "failed", "rejected", "awaiting_approval"}
Receipt == {"SUCCEEDED", "FAILED", "UNKNOWN"}
EffectStatus == {"none", "PREPARED", "DISPATCHING", "CONFIRMED", "FAILED",
                 "UNKNOWN_OUTCOME"}
Row == [grant: {"none", "ISSUED", "CONSUMED"}, effect: EffectStatus,
        receipt: Receipt \cup {"none"}]
NoRow == [grant |-> "none", effect |-> "none", receipt |-> "none"]

TypeOK ==
  /\ kind \in [Step -> Kind]
  /\ pc \in [Step -> PC]
  /\ attempt \in [Step -> 0..2]
  /\ result \in [Step -> Result]
  /\ loop \in Step \cup {NoStep, Operator}
  /\ writer \in Attempt \cup {NoAttempt}
  /\ work \in Row
  /\ db \in [Attempt -> Row]
  /\ requests \subseteq Step
  /\ live \subseteq Attempt
  /\ acted \in [Attempt -> BOOLEAN]
  /\ outcome \in [Attempt -> Receipt \cup {"none"}]
  /\ lost \subseteq Attempt

ReadOnly == {s \in Step : kind[s] = "read_only"}
Approved == {s \in Step : kind[s] = "approved"}

-----------------------------------------------------------------------------
(* The writes of one attempt, as functions on its rows. *)

Issue == [NoRow EXCEPT !.grant = "ISSUED"]
Prepare(row) == [row EXCEPT !.effect = "PREPARED"]
Consume(row) == [row EXCEPT !.grant = "CONSUMED"]
RecordDispatch(row) == [row EXCEPT !.effect = "DISPATCHING"]

EffectOf(receipt) ==
  CASE receipt = "SUCCEEDED" -> "CONFIRMED"
    [] receipt = "FAILED"    -> "FAILED"
    [] receipt = "UNKNOWN"   -> "UNKNOWN_OUTCOME"

\* Faulty variant: the receipt is written and the effect row is forgotten.
FinalizeReceipt(row, receipt) == [row EXCEPT !.receipt = receipt]

Finalize(row, receipt) ==
  [row EXCEPT !.receipt = receipt, !.effect = EffectOf(receipt)]

Current(s) == <<s, attempt[s]>>
Following(s) == <<s, attempt[s] + 1>>

\* A coroutine can go on only while no SQLite call keeps the loop.
LoopRuns == loop = NoStep
LockFree == writer = NoAttempt

\* The step is at the call of the orchestrator.
Entering(s) == LoopRuns /\ pc[s] \in {"idle", "retry"}

\* Faulty variants: a timed-out call is retried like any failed one; a failing
\* step is retried for ever.
RetryUnknown(s, n, receipt) == s \notin Approved /\ n = 1
RetryAgain(s, n, receipt) ==
  s \notin Approved /\ ~(receipt = "UNKNOWN" /\ s \notin ReadOnly)

\* The one retry of _execute_via_orchestrator.  receipt is "none" when the
\* gateway raised and the orchestrator has no receipt to report.
MayRetry(s, n, receipt) ==
  /\ s \notin Approved
  /\ n = 1
  /\ ~(receipt = "UNKNOWN" /\ s \notin ReadOnly)

\* What the executor does with a failed n-th attempt: it writes an audit row
\* before a retry and before it gives up on an unknown outcome.
AfterFailure(s, n, receipt) ==
  IF MayRetry(s, n, receipt)
    THEN pc' = [pc EXCEPT ![s] = "auditRetry"] /\ UNCHANGED result
  ELSE IF s \notin Approved /\ n = 1
    THEN pc' = [pc EXCEPT ![s] = "auditUnknown"] /\ UNCHANGED result
  ELSE /\ pc' = [pc EXCEPT ![s] = "done"]
       /\ result' = [result EXCEPT ![s] = "failed"]

\* Faulty variant: only a reported error counts as a failure.
AfterAttemptHoping(s, n, receipt) ==
  IF receipt # "FAILED"
    THEN /\ pc' = [pc EXCEPT ![s] = "done"]
         /\ result' = [result EXCEPT ![s] = "completed"]
    ELSE AfterFailure(s, n, receipt)

AfterAttempt(s, n, receipt) ==
  IF receipt = "SUCCEEDED"
    THEN /\ pc' = [pc EXCEPT ![s] = "done"]
         /\ result' = [result EXCEPT ![s] = "completed"]
    ELSE AfterFailure(s, n, receipt)

\* The transaction ends; a failed commit is swallowed and rolled back.
Commit(a, row) == db' = [db EXCEPT ![a] = row] /\ UNCHANGED lost
RollBack(a) == lost' = lost \cup {a} /\ UNCHANGED db
ReleaseLock == writer' = NoAttempt /\ work' = NoRow

-----------------------------------------------------------------------------
(* Entering an attempt *)

\* The policy engine denies, or the approval no longer matches the step.
Reject(s) ==
  /\ Entering(s)
  /\ attempt' = [attempt EXCEPT ![s] = @ + 1]
  /\ pc' = [pc EXCEPT ![s] = "done"]
  /\ result' = [result EXCEPT ![s] = "rejected"]
  /\ UNCHANGED <<kind, loop, dbVars, toolVars, lost>>

\* _handle_wait_approval: the request row and its commit, in one stretch.
Suspend(s) ==
  /\ Entering(s)
  /\ s \notin Approved
  /\ pc[s] = "idle"
  /\ LockFree
  /\ \/ requests' = requests \cup {s} /\ UNCHANGED lost
     \/ lost' = lost \cup {Following(s)} /\ UNCHANGED requests
  /\ attempt' = [attempt EXCEPT ![s] = @ + 1]
  /\ pc' = [pc EXCEPT ![s] = "done"]
  /\ result' = [result EXCEPT ![s] = "awaiting_approval"]
  /\ UNCHANGED <<kind, loop, writer, work, db, toolVars>>

\* The tool is not in the registry: the grant is committed unused and the
\* gateway reports FAILED.
MissTool(s) ==
  /\ Entering(s)
  /\ LockFree
  /\ \/ Commit(Following(s), Issue)
     \/ RollBack(Following(s))
  /\ attempt' = [attempt EXCEPT ![s] = @ + 1]
  /\ outcome' = [outcome EXCEPT ![Following(s)] = "FAILED"]
  /\ AfterAttempt(s, attempt[s] + 1, "FAILED")
  /\ UNCHANGED <<kind, loop, writer, work, requests, live, acted>>

\* issue, acquire, verify, prepare, consume, record_dispatch and the call of
\* the adapter: no await before the tool's own.
Dispatch(s) ==
  /\ Entering(s)
  /\ LockFree
  /\ attempt' = [attempt EXCEPT ![s] = @ + 1]
  /\ pc' = [pc EXCEPT ![s] = "dispatched"]
  /\ writer' = Following(s)
  /\ work' = RecordDispatch(Consume(Prepare(Issue)))
  /\ live' = live \cup {Following(s)}
  /\ UNCHANGED <<kind, result, loop, db, requests, acted, outcome, lost>>

\* The first INSERT meets the lock of another attempt: SQLite's busy handler
\* sleeps on the loop's own thread.
BlockOnLock(s) ==
  /\ Entering(s)
  /\ ~LockFree
  /\ loop' = s
  /\ UNCHANGED <<stepVars, dbVars, toolVars, lost>>

-----------------------------------------------------------------------------
(* The tool, and the end of an attempt *)

\* The tool's effect on the world.  A timed-out call may act late.
Act(a) ==
  /\ a \in live
  /\ acted' = [acted EXCEPT ![a] = TRUE]
  /\ UNCHANGED <<stepVars, loop, dbVars, live, outcome, lost>>

\* What the tool reports.  A reported success has acted; an error may come
\* from a call that acted in part; of a timeout, a cancellation or a crash
\* nothing is known, and the call may not be over.
Report(a, receipt) ==
  /\ receipt = "SUCCEEDED" => acted[a]
  /\ outcome' = [outcome EXCEPT ![a] = receipt]
  /\ live' = IF receipt = "UNKNOWN" THEN live ELSE live \ {a}
  /\ UNCHANGED acted

\* The rest of invoke after the adapter, the commit in the orchestrator's
\* finally block, and what the executor makes of the result.
Return(s, receipt) ==
  /\ LoopRuns
  /\ pc[s] = "dispatched"
  /\ Report(Current(s), receipt)
  /\ \/ Commit(Current(s), Finalize(work, receipt))
     \/ RollBack(Current(s))
  /\ ReleaseLock
  /\ AfterAttempt(s, attempt[s], receipt)
  /\ UNCHANGED <<kind, attempt, loop, requests>>

\* A write of finalize raises.  The plan path turns the exception into a
\* failed result without a receipt; the resume path lets it through.  What the
\* tool had reported is forgotten.
FailJournal(s) ==
  /\ LoopRuns
  /\ pc[s] = "dispatched"
  /\ RollBack(Current(s))
  /\ ReleaseLock
  /\ IF s \in Approved
       THEN pc' = [pc EXCEPT ![s] = "raised"] /\ UNCHANGED result
       ELSE AfterFailure(s, attempt[s], "none")
  /\ UNCHANGED <<kind, attempt, loop, requests, toolVars>>

\* The audit row, written by a thread in a session of its own.
Audit(s) ==
  /\ LoopRuns
  /\ LockFree
  /\ \/ /\ pc[s] = "auditRetry"
        /\ pc' = [pc EXCEPT ![s] = "retry"]
        /\ UNCHANGED result
     \/ /\ pc[s] = "auditUnknown"
        /\ pc' = [pc EXCEPT ![s] = "done"]
        /\ result' = [result EXCEPT ![s] = "failed"]
  /\ UNCHANGED <<kind, attempt, loop, dbVars, toolVars, lost>>

\* The thread waits for the lock longer than the busy timeout.
FailAudit(s) ==
  /\ LoopRuns
  /\ ~LockFree
  /\ pc[s] \in {"auditRetry", "auditUnknown"}
  /\ pc' = [pc EXCEPT ![s] = "raised"]
  /\ UNCHANGED <<kind, attempt, result, loop, dbVars, toolVars, lost>>

\* Faulty variant: SQLite waits for the lock without a limit.
BusyForever == ~LoopRuns /\ LockFree /\ loop' = NoStep /\ UNCHANGED <<stepVars, dbVars, toolVars, lost>>

\* "database is locked" leaves the SQLite call that kept the loop.  In a step
\* nothing catches it; the reconcile route answers 409.
BusyTimeout ==
  /\ ~LoopRuns
  /\ loop' = NoStep
  /\ pc' = [s \in Step |-> IF s = loop THEN "raised" ELSE pc[s]]
  /\ UNCHANGED <<kind, attempt, result, dbVars, toolVars, lost>>

-----------------------------------------------------------------------------
(* The operator and the process *)

Unknown(a) == db[a].effect = "UNKNOWN_OUTCOME"

\* Faulty variant: any recorded effect may be settled.
ReconcileAny(a, status) ==
  /\ LoopRuns
  /\ LockFree
  /\ db[a].effect # "none"
  /\ db' = [db EXCEPT ![a].effect = status]
  /\ UNCHANGED <<stepVars, loop, writer, work, requests, toolVars, lost>>

\* reconcile: only out of UNKNOWN_OUTCOME.
Reconcile(a, status) ==
  /\ LoopRuns
  /\ LockFree
  /\ Unknown(a)
  /\ db' = [db EXCEPT ![a].effect = status]
  /\ UNCHANGED <<stepVars, loop, writer, work, requests, toolVars, lost>>

\* Its UPDATE, too, waits for the lock on the loop's thread.
BlockReconcile ==
  /\ LoopRuns
  /\ ~LockFree
  /\ \E a \in Attempt : Unknown(a)
  /\ loop' = Operator
  /\ UNCHANGED <<stepVars, dbVars, toolVars, lost>>

\* The process dies.  The open transaction is gone; no code resumes a step,
\* and a command the tool had started may outlive the process.
Crash ==
  /\ pc' = [s \in Step |-> IF pc[s] \in Ended \cup {"idle"} THEN pc[s]
                           ELSE "killed"]
  /\ pc' # pc
  /\ loop' = NoStep
  /\ ReleaseLock
  /\ lost' = IF LockFree THEN lost ELSE lost \cup {writer}
  /\ UNCHANGED <<kind, attempt, result, db, requests, toolVars>>

Init ==
  /\ kind \in [Step -> Kind]
  /\ pc = [s \in Step |-> "idle"]
  /\ attempt = [s \in Step |-> 0]
  /\ result = [s \in Step |-> "none"]
  /\ loop = NoStep
  /\ writer = NoAttempt
  /\ work = NoRow
  /\ db = [a \in Attempt |-> NoRow]
  /\ requests = {}
  /\ live = {}
  /\ acted = [a \in Attempt |-> FALSE]
  /\ outcome = [a \in Attempt |-> "none"]
  /\ lost = {}

Enter(s) == Reject(s) \/ Suspend(s) \/ MissTool(s) \/ Dispatch(s) \/ BlockOnLock(s)
Finish(s) == FailJournal(s) \/ \E receipt \in Receipt : Return(s, receipt)

Next ==
  \/ \E s \in Step : Enter(s) \/ Finish(s) \/ Audit(s) \/ FailAudit(s)
  \/ \E a \in Attempt : Act(a)
  \/ BusyTimeout
  \/ \E a \in Attempt, status \in {"CONFIRMED", "FAILED"} : Reconcile(a, status)
  \/ BlockReconcile
  \/ Crash

Spec == Init /\ [][Next]_vars

\* A step that has begun and is not waiting for the loop goes on.
Progress == \E s \in Step : \/ pc[s] = "retry" /\ Enter(s)
                           \/ Finish(s) \/ Audit(s) \/ FailAudit(s)

\* The busy timeout is finite, so a blocked loop goes on.  The tool timeout is
\* finite and asyncio serves its ready queue in order, so of the coroutines
\* that can go on again and again one does.
Fairness == WF_vars(BusyTimeout) /\ SF_vars(Progress)

FairSpec == Spec /\ Fairness
-----------------------------------------------------------------------------
(* Properties *)

\* Whatever another session can read of an attempt is whole: an effect comes
\* with its consumed grant and its receipt, never as PREPARED or DISPATCHING,
\* and a receipt of success is true of the world and of the effect's status.
CommittedRecordIsWhole ==
  \A a \in Attempt :
    LET row == db[a] IN
    /\ row.effect \notin {"PREPARED", "DISPATCHING"}
    /\ row.effect # "none" <=> row.receipt # "none"
    /\ row.receipt # "none" => row.grant = "CONSUMED" /\ row.receipt = outcome[a]
    /\ row.receipt = "SUCCEEDED" => acted[a] /\ row.effect = "CONFIRMED"
    /\ row.receipt = "FAILED" => row.effect = "FAILED"

\* The executor never repeats a call with side effects whose outcome is in
\* doubt: there is a second call only after the tool itself reported an error
\* ("UNKNOWN_OUTCOME on non-idempotent effects: no retry"), save where the
\* journal failed to write what the tool had reported.
NoBlindRepeat ==
  \A s \in Step \ ReadOnly :
    attempt[s] = 2 => outcome[<<s, 1>>] = "FAILED" \/ <<s, 1>> \in lost

\* What the executor goes on with is what the tables say: a step counts as
\* completed exactly if its last attempt has a receipt of success, and is
\* suspended only on a request an approver can find.  The exception is a
\* commit that failed, which the orchestrator swallows.
ResultMatchesRecord ==
  \A s \in Step :
    pc[s] = "done" /\ Current(s) \notin lost =>
      /\ result[s] = "completed" <=> db[Current(s)].receipt = "SUCCEEDED"
      /\ result[s] = "awaiting_approval" <=> s \in requests

\* The committed tables implement the effect protocol as its reader sees it.
Ledger == INSTANCE EffectLedger WITH ledger <- [a \in Attempt |-> db[a].effect]
ImplementsLedger == Ledger!LedgerSpec

\* No step hangs: not on the write lock, whose holder needs the very loop that
\* waits for it, and not on its tool.
EveryStepEnds ==
  <>[](\A s \in Step : pc[s] \in Ended \cup {"idle"})

\* EffectJournal: "EffectRecord must be persisted (PREPARED) BEFORE adapter
\* invocation", so that "there is a durable record proving we INTENDED to
\* dispatch".  The record is written but not committed before the tool acts.
DurableIntent ==
  \A a \in Attempt : acted[a] => db[a].effect # "none"
=============================================================================
