---------------------------- MODULE TaskLifecycle ----------------------------
(***************************************************************************)
(* One task from its creation to its end: the execute, cancel and retry    *)
(* routes, the resolve route that resumes an approved step, the agent      *)
(* orchestrator (plan, transitions) and the executor's loop over the plan. *)
(*                                                                         *)
(* Every request runs as a coroutine that reads and writes the task and    *)
(* step rows through run_async, one short transaction in a thread per      *)
(* call, so requests interleave at each of those calls.  One action is one *)
(* call with the code up to the next one; reads whose outcome no other     *)
(* call can change before it is used are merged with the write after them. *)
(*                                                                         *)
(* The approval request of a step is kept with the step's row: a row has   *)
(* at most one.  What a run of the step does is in StepExecution, how its  *)
(* request is decided in ApprovalService.                                  *)
(***************************************************************************)
EXTENDS Integers, Sequences

CONSTANTS
  Proc,       \* requests that can be under way at one time
  PlanSize,   \* number of steps of the plan, numbered from 1
  Risky,      \* the plan steps whose tool requires approval
  MaxRetries, \* bound on the calls of the retry route
  MaxCrashes, \* bound on the restarts of the server
  MaxRows     \* bound on the step rows

ASSUME TaskAssumption ==
  /\ PlanSize \in Nat \ {0}
  /\ Risky \subseteq 1..PlanSize
  /\ MaxRetries \in Nat
  /\ MaxCrashes \in Nat
  /\ MaxRows \in Nat

VARIABLES
  status,  \* the task row's status
  rows,    \* the task's step rows, in creation order
  proc,    \* the requests under way
  retries, \* calls of the retry route so far
  crashes  \* restarts so far

vars == <<status, rows, proc, retries, crashes>>

TaskStatus == {"PENDING", "PLANNING", "AWAITING_APPROVAL", "EXECUTING",
               "COMPLETED", "FAILED", "CANCELLED"}
Terminal == {"COMPLETED", "FAILED", "CANCELLED"}
StepStatus == {"PENDING", "AWAITING_APPROVAL", "REJECTED", "COMPLETED",
               "FAILED", "SKIPPED"}
RequestStatus == {"none", "PENDING", "APPROVED", "REJECTED"}

StepRow == [order: 1..PlanSize, status: StepStatus, request: RequestStatus,
            bound: BOOLEAN,  \* approval_request_id is set
            runs: Nat]       \* history: times the orchestrator has run it

PC == {"idle", "planning", "check", "add", "enter", "mark", "park", "parkCas",
       "parkSet", "running", "record", "skip", "finalize",
       "load", "loadTask", "claim", "claimed", "refuse"}

Process == [pc: PC,
            path: {"execute", "resume"}, \* which caller of the plan loop
            order: 1..(PlanSize + 1),     \* the plan step it is at
            row: Nat,                    \* the row it works on
            fate: {"ok", "fail", "cancel"},
            seen: BOOLEAN]               \* the row was AWAITING_APPROVAL

TypeOK ==
  /\ status \in TaskStatus
  /\ rows \in Seq(StepRow)
  /\ proc \in [Proc -> Process]
  /\ retries \in 0..MaxRetries
  /\ crashes \in 0..MaxCrashes
  /\ \A p \in Proc : proc[p].row \in 0..Len(rows)

-----------------------------------------------------------------------------
IdleProc == [pc |-> "idle", path |-> "execute", order |-> 1, row |-> 0,
             fate |-> "ok", seen |-> FALSE]

At(p, pc) == proc[p].pc = pc
Go(p, pc) == proc' = [proc EXCEPT ![p].pc = pc]
GoWith(p, pc, fate) == proc' = [proc EXCEPT ![p].pc = pc, ![p].fate = fate]
Leave(p) == proc' = [proc EXCEPT ![p] = IdleProc]

Row(p) == rows[proc[p].row]
SetRow(p, row) == rows' = [rows EXCEPT ![proc[p].row] = row]
NewRow(order, st) == [order |-> order, status |-> st, request |-> "none",
                      bound |-> FALSE, runs |-> 0]

\* atomic_status_transition: UPDATE ... WHERE status = from.
Cas(from, to) == status = from /\ status' = to

Counters == <<retries, crashes>>

-----------------------------------------------------------------------------
(* The routes of the task *)

\* The execute route and execute_existing up to the claim: the status is read
\* as PENDING and swapped for PLANNING; every other case ends the request.
Execute(p) ==
  /\ At(p, "idle")
  /\ Cas("PENDING", "PLANNING")
  /\ Go(p, "planning")
  /\ UNCHANGED <<rows, Counters>>

\* The planner raises: the task row is updated whatever its status is.
FailPlanning(p) ==
  /\ At(p, "planning")
  /\ status' = "FAILED"
  /\ Leave(p)
  /\ UNCHANGED <<rows, Counters>>

\* The planner returns; InvalidTransition ends the request when the task was
\* cancelled meanwhile.
FinishPlanning(p) ==
  /\ At(p, "planning")
  /\ \/ Cas("PLANNING", "EXECUTING") /\ Go(p, "check")
     \/ status # "PLANNING" /\ Leave(p) /\ UNCHANGED status
  /\ UNCHANGED <<rows, Counters>>

\* cancel_task: a swap from one of three statuses.
Cancel ==
  /\ \E from \in {"PENDING", "PLANNING", "AWAITING_APPROVAL"} : Cas(from, "CANCELLED")
  /\ UNCHANGED <<rows, proc, Counters>>

\* retry_task.
Retry ==
  /\ retries < MaxRetries
  /\ \E from \in {"FAILED", "COMPLETED"} : Cas(from, "PENDING")
  /\ retries' = retries + 1
  /\ UNCHANGED <<rows, proc, crashes>>

-----------------------------------------------------------------------------
(* The loop over the plan: _execute_plan_inner and the end of              *)
(* resume_after_approval                                                   *)

\* Faulty variant: one step too far.
AtEndLate(p) == proc[p].order > PlanSize + 1

AtEnd(p) == proc[p].order > PlanSize

\* The top of the execute loop.  A cancelled task gets no row for this step.
Check(p) ==
  /\ At(p, "check")
  /\ \/ AtEnd(p) /\ GoWith(p, "finalize", "ok")
     \/ /\ ~AtEnd(p)
        /\ status = "CANCELLED"
        /\ proc' = [proc EXCEPT ![p].pc = "skip", ![p].fate = "cancel",
                                ![p].order = @ + 1]
     \/ ~AtEnd(p) /\ status # "CANCELLED" /\ Go(p, "add")
  /\ UNCHANGED <<status, rows, Counters>>

\* add_step.  The resume loop comes here without a look at the task.
AddStep(p) ==
  /\ At(p, "add")
  /\ ~AtEnd(p)
  /\ Len(rows) < MaxRows
  /\ rows' = Append(rows, NewRow(proc[p].order, "PENDING"))
  /\ proc' = [proc EXCEPT ![p].pc = "enter", ![p].row = Len(rows) + 1]
  /\ UNCHANGED <<status, Counters>>

FinishLoop(p) ==
  /\ At(p, "add")
  /\ AtEnd(p)
  /\ GoWith(p, "finalize", "ok")
  /\ UNCHANGED <<status, rows, Counters>>

AfterGoodStep(p) ==
  proc' = [proc EXCEPT ![p].pc = IF proc[p].path = "execute" THEN "check" ELSE "add",
                       ![p].order = @ + 1]

\* Faulty variant: the loop goes on after a failure.
AfterFailedStepOnward(p) == AfterGoodStep(p)

\* After the first failed step: the execute loop adds a SKIPPED row for each
\* step that is left, the resume loop breaks off.
AfterFailedStep(p) ==
  IF proc[p].path = "execute"
    THEN proc' = [proc EXCEPT ![p].pc = "skip", ![p].fate = "fail",
                              ![p].order = @ + 1]
    ELSE GoWith(p, "finalize", "fail")

Skip(p) ==
  /\ At(p, "skip")
  /\ \/ AtEnd(p) /\ Go(p, "finalize") /\ UNCHANGED rows
     \/ /\ ~AtEnd(p)
        /\ Len(rows) < MaxRows
        /\ rows' = Append(rows, NewRow(proc[p].order, "SKIPPED"))
        /\ proc' = [proc EXCEPT ![p].order = @ + 1]
  /\ UNCHANGED <<status, Counters>>

\* The policy denies the step: no run, and the row is REJECTED.
Deny(p) ==
  /\ At(p, "enter")
  /\ SetRow(p, [Row(p) EXCEPT !.status = "REJECTED"])
  /\ AfterFailedStep(p)
  /\ UNCHANGED <<status, Counters>>

StartRun(p) ==
  /\ At(p, "enter")
  /\ Row(p).order \notin Risky
  /\ SetRow(p, [Row(p) EXCEPT !.runs = @ + 1])
  /\ Go(p, "running")
  /\ UNCHANGED <<status, Counters>>

\* The orchestrator returns a result.
Return(p) ==
  /\ At(p, "running")
  /\ \E fate \in {"ok", "fail"} : GoWith(p, "record", fate)
  /\ UNCHANGED <<status, rows, Counters>>

\* update_step with the result.
Record(p) ==
  /\ At(p, "record")
  /\ \/ /\ proc[p].fate = "ok"
        /\ SetRow(p, [Row(p) EXCEPT !.status = "COMPLETED"])
        /\ AfterGoodStep(p)
     \/ /\ proc[p].fate = "fail"
        /\ SetRow(p, [Row(p) EXCEPT !.status = "FAILED"])
        /\ AfterFailedStep(p)
  /\ UNCHANGED <<status, Counters>>

\* A database error (the write lock is held too long) leaves the request at
\* any of its calls: nothing more is recorded.
Raise(p) ==
  /\ ~At(p, "idle")
  /\ Leave(p)
  /\ UNCHANGED <<status, rows, Counters>>

\* execute_plan is cancelled between two calls: the task becomes CANCELLED.
\* (A cancelled tool call is a failed run instead.)
Interrupt(p) ==
  /\ proc[p].path = "execute"
  /\ proc[p].pc \in {"check", "add", "enter", "mark", "park", "parkCas",
                     "parkSet", "record", "skip", "finalize"}
  /\ status' = "CANCELLED"
  /\ Leave(p)
  /\ UNCHANGED <<rows, Counters>>

\* _finalize_task: unconditional updates of the task row.
Finalize(p) ==
  /\ At(p, "finalize")
  /\ status' = CASE proc[p].fate = "ok"     -> "COMPLETED"
                 [] proc[p].fate = "fail"   -> "FAILED"
                 [] proc[p].fate = "cancel" -> "CANCELLED"
  /\ Leave(p)
  /\ UNCHANGED <<rows, Counters>>

-----------------------------------------------------------------------------
(* Suspending a step and resuming it *)

\* The approval request is committed; the resolve route can find it from here.
Suspend(p) ==
  /\ At(p, "enter")
  /\ Row(p).order \in Risky
  /\ SetRow(p, [Row(p) EXCEPT !.request = "PENDING"])
  /\ Go(p, "mark")
  /\ UNCHANGED <<status, Counters>>

\* update_step: the row is suspended and names its request.
MarkStep(p) ==
  /\ At(p, "mark")
  /\ SetRow(p, [Row(p) EXCEPT !.status = "AWAITING_APPROVAL", !.bound = TRUE])
  /\ Go(p, "park")
  /\ UNCHANGED <<status, Counters>>

\* _mark_task_awaiting_approval, the read.
Park(p) ==
  /\ At(p, "park")
  /\ \/ status = "EXECUTING" /\ Go(p, "parkCas")
     \/ status = "AWAITING_APPROVAL" /\ Leave(p)
     \/ status \notin {"EXECUTING", "AWAITING_APPROVAL"} /\ Go(p, "parkSet")
  /\ UNCHANGED <<status, rows, Counters>>

ParkCas(p) ==
  /\ At(p, "parkCas")
  /\ \/ Cas("EXECUTING", "AWAITING_APPROVAL")
     \/ status # "EXECUTING" /\ UNCHANGED status
  /\ Leave(p)
  /\ UNCHANGED <<rows, Counters>>

ParkSet(p) ==
  /\ At(p, "parkSet")
  /\ status' = "AWAITING_APPROVAL"
  /\ Leave(p)
  /\ UNCHANGED <<rows, Counters>>

\* The resolve route: it decides a pending request, or finds it decided, and
\* goes on to resume the step.
Resolve(p, i) ==
  /\ At(p, "idle")
  /\ \/ /\ rows[i].request = "PENDING"
        /\ \E decision \in {"APPROVED", "REJECTED"} :
             rows' = [rows EXCEPT ![i].request = decision]
     \/ rows[i].request \in {"APPROVED", "REJECTED"} /\ UNCHANGED rows
  /\ proc' = [proc EXCEPT ![p].pc = "load", ![p].path = "resume", ![p].row = i]
  /\ UNCHANGED <<status, Counters>>

\* resume_after_approval reads the step ...
LoadStep(p) ==
  /\ At(p, "load")
  /\ proc' = [proc EXCEPT ![p].pc = "loadTask",
                ![p].seen = Row(p).status = "AWAITING_APPROVAL" /\ Row(p).bound]
  /\ UNCHANGED <<status, rows, Counters>>

\* Faulty variant: a rejected request is resumed like an approved one.
LoadTaskAny(p) ==
  /\ At(p, "loadTask")
  /\ IF status = "AWAITING_APPROVAL" /\ proc[p].seen
       THEN Go(p, "claim")
       ELSE Leave(p)
  /\ UNCHANGED <<status, rows, Counters>>

\* ... and then the task; without both suspended it returns already_resumed.
LoadTask(p) ==
  /\ At(p, "loadTask")
  /\ IF status = "AWAITING_APPROVAL" /\ proc[p].seen
       THEN Go(p, IF Row(p).request = "APPROVED" THEN "claim" ELSE "refuse")
       ELSE Leave(p)
  /\ UNCHANGED <<status, rows, Counters>>

\* Faulty variant: the transition does not look at the present status.
ClaimBlindly(p) ==
  /\ At(p, "claim")
  /\ status' = "EXECUTING"
  /\ Go(p, "claimed")
  /\ UNCHANGED <<rows, Counters>>

\* _transition to EXECUTING: one resume wins the swap.
Claim(p) ==
  /\ At(p, "claim")
  /\ \/ Cas("AWAITING_APPROVAL", "EXECUTING") /\ Go(p, "claimed")
     \/ status # "AWAITING_APPROVAL" /\ Leave(p) /\ UNCHANGED status
  /\ UNCHANGED <<rows, Counters>>

\* resume_after_approval_async runs the approved step.
StartApprovedRun(p) ==
  /\ At(p, "claimed")
  /\ SetRow(p, [Row(p) EXCEPT !.runs = @ + 1])
  /\ proc' = [proc EXCEPT ![p].pc = "running", ![p].order = Row(p).order]
  /\ UNCHANGED <<status, Counters>>

\* The binding or the policy no longer allows it.
DenyApproved(p) ==
  /\ At(p, "claimed")
  /\ SetRow(p, [Row(p) EXCEPT !.status = "REJECTED"])
  /\ GoWith(p, "finalize", "fail")
  /\ UNCHANGED <<status, Counters>>

\* Faulty variant: the task of a rejected step ends as a success.
RefuseAsDone(p) ==
  /\ At(p, "refuse")
  /\ SetRow(p, [Row(p) EXCEPT !.status = "REJECTED"])
  /\ GoWith(p, "finalize", "ok")
  /\ UNCHANGED <<status, Counters>>

\* A rejected request: the row is REJECTED and the task is to fail; the task
\* row is not claimed first.
Refuse(p) ==
  /\ At(p, "refuse")
  /\ SetRow(p, [Row(p) EXCEPT !.status = "REJECTED"])
  /\ GoWith(p, "finalize", "fail")
  /\ UNCHANGED <<status, Counters>>

\* The server restarts; nothing picks up the tasks it left.
Crash ==
  /\ crashes < MaxCrashes
  /\ \E p \in Proc : ~At(p, "idle")
  /\ proc' = [p \in Proc |-> IdleProc]
  /\ crashes' = crashes + 1
  /\ UNCHANGED <<status, rows, retries>>

Init ==
  /\ status = "PENDING"
  /\ rows = <<>>
  /\ proc = [p \in Proc |-> IdleProc]
  /\ retries = 0
  /\ crashes = 0

Planning(p) == FailPlanning(p) \/ FinishPlanning(p)
PlanLoop(p) == Check(p) \/ AddStep(p) \/ FinishLoop(p) \/ Skip(p) \/ Finalize(p)
OneStep(p) == Deny(p) \/ StartRun(p) \/ Return(p) \/ Record(p)
Suspension(p) == Suspend(p) \/ MarkStep(p) \/ Park(p) \/ ParkCas(p) \/ ParkSet(p)
Resumption(p) == \/ LoadStep(p) \/ LoadTask(p) \/ Claim(p)
                 \/ StartApprovedRun(p) \/ DenyApproved(p) \/ Refuse(p)

GoOn(p) == Planning(p) \/ PlanLoop(p) \/ OneStep(p) \/ Suspension(p) \/ Resumption(p)

\* What requests do when nothing goes wrong.
Work ==
  \/ \E p \in Proc : Execute(p) \/ GoOn(p)
  \/ \E p \in Proc, i \in DOMAIN rows : Resolve(p, i)

Next ==
  \/ Work
  \/ \E p \in Proc : Raise(p) \/ Interrupt(p)
  \/ Cancel
  \/ Retry
  \/ Crash

Spec == Init /\ [][Next]_vars

\* The event loop keeps running each request; nobody is bound to call a route.
\* No request fails, no task is cancelled and the server does not restart.
WorkSpec == Init /\ [][Work]_vars /\ \A p \in Proc : WF_vars(GoOn(p))

-----------------------------------------------------------------------------
(* Properties *)

\* No order of execute, resolve, cancel, retry, errors and restarts runs a
\* step that needs approval unless its own request has been approved.
RunsAreApproved ==
  \A i \in DOMAIN rows :
    rows[i].runs > 0 /\ rows[i].order \in Risky => rows[i].request = "APPROVED"

\* However often its approval is resolved, a step is run at most once: "A stale
\* duplicate call must never execute a second time".
ApprovedRunsOnce == \A i \in DOMAIN rows : rows[i].runs <= 1

\* A step runs only after the one before it in the plan has completed, also
\* when the plan is picked up again after an approval.
StepsInOrder ==
  \A i \in DOMAIN rows :
    rows[i].runs > 0 /\ rows[i].order > 1 =>
      \E j \in 1..(i - 1) : /\ rows[j].order = rows[i].order - 1
                            /\ rows[j].status = "COMPLETED"

\* task_state: "Terminal states - no outgoing transitions", of CANCELLED, which
\* retry_task does not reset either.
CancelledIsFinal == [][status = "CANCELLED" => status' = "CANCELLED"]_vars

\* The header of the execution orchestrator: "When WAIT_APPROVAL is resolved
\* externally, resume_after_approval() re-enters the GRANT path".  A parked
\* step whose request is approved does not stay parked.
ParkedThoughApproved(i) ==
  /\ i \in DOMAIN rows
  /\ rows[i].status = "AWAITING_APPROVAL"
  /\ rows[i].request = "APPROVED"
  /\ status = "AWAITING_APPROVAL"

ApprovalWakesTask ==
  \A i \in 1..MaxRows : ParkedThoughApproved(i) ~> ~ParkedThoughApproved(i)
=============================================================================
