----------------------------- MODULE PlanRunner -----------------------------
(* One plan run without the execution orchestrator: ExecutorService with    *)
(* the policy engine, the capability tokens and ToolRunner.  A step has a   *)
(* row, a token and one run of its tool; a failed one is tried again with a *)
(* row and a token of its own, and then replaced by a recovery plan.  Two   *)
(* timeouts lie around a run: that of the tool inside ToolRunner.run, and   *)
(* that of the step around the whole of run, which can strike while a       *)
(* thread writes the row.  A call on the database that was abandoned goes   *)
(* on in its thread (asyncio.to_thread).                                    *)
EXTENDS Naturals, Sequences, FiniteSets

CONSTANTS
  Length, MaxRecovery,   \* steps of the plan and of a recovery plan
  MaxOverdue             \* the bound on runs that the step's timeout cuts off

Index == 1..Length

\* The parts of a step: its two tries and the steps of its recovery plan.
FirstTry == 1
SecondTry == 2
RecoveryPart(k) == 2 + k
Part == 1..(2 + MaxRecovery)
Row == Index \X Part
Status ==
  {"none", "PENDING", "EXECUTING", "COMPLETED", "FAILED", "REJECTED",
   "SKIPPED"}

VARIABLES
  task,       \* the status of the task
  outcome,    \* the loop's failed and cancelled
  pc, at,     \* where the loop stands, and the row it is at
  recovery,   \* the recovery plan: its steps, how many were begun, any failed
  rows,       \* task_steps
  token,      \* of each row: not issued, issued, or its nonce marked
  begun,      \* rows whose tool was started
  acted,      \* rows whose tool has had its effect
  result,     \* ToolResult.success of the last run
  writing,    \* writes abandoned by their coroutine, still under way
  overdue     \* history: rows whose run the step's timeout has cut off

vars ==
  <<task, outcome, pc, at, recovery, rows, token, begun, acted, result, writing,
    overdue>>

NoRecovery == [steps |-> 0, begun |-> 0, failed |-> FALSE]

Init ==
  /\ task = "EXECUTING" /\ outcome = "ok"
  /\ pc = "next" /\ at = <<1, FirstTry>>
  /\ recovery = NoRecovery
  /\ rows = [r \in Row |-> "none"]
  /\ token = [r \in Row |-> "none"]
  /\ begun = {} /\ acted = {} /\ result = FALSE /\ writing = {} /\ overdue = {}

NextIndex == <<at[1] + 1, FirstTry>>
Recovering == at[2] \notin {FirstTry, SecondTry}

-----------------------------------------------------------------------------
(* The loop over the plan.                                                  *)

\* After a failure every later step gets a row that is skipped.
SkipStep ==
  /\ pc = "next" /\ at[1] \in Index /\ outcome # "ok"
  /\ rows' = [rows EXCEPT ![at] = "SKIPPED"]
  /\ at' = NextIndex
  /\ UNCHANGED <<task, outcome, pc, recovery, token, begun, acted, result,
                 writing, overdue>>

\* The step at which the cancellation is seen gets no row.
SeeCancelled ==
  /\ pc = "next" /\ at[1] \in Index /\ outcome = "ok" /\ task = "CANCELLED"
  /\ outcome' = "cancelled" /\ at' = NextIndex
  /\ UNCHANGED <<task, pc, recovery, rows, token, begun, acted, result, writing,
                 overdue>>

BeginStep ==
  /\ pc = "next" /\ at[1] \in Index /\ outcome = "ok" /\ task # "CANCELLED"
  /\ rows' = [rows EXCEPT ![at] = "PENDING"]
  /\ pc' = "policy"
  /\ UNCHANGED <<task, outcome, at, recovery, token, begun, acted, result,
                 writing, overdue>>

\* policy_engine.check issues the token of what it allows.
Allow ==
  /\ pc = "policy"
  /\ token' = [token EXCEPT ![at] = "issued"]
  /\ pc' = "verify"
  /\ UNCHANGED <<task, outcome, at, recovery, rows, begun, acted, result,
                 writing, overdue>>

\* A step that needs an approval stays PENDING and fails the plan like one
\* that is denied.
Refuse ==
  /\ pc = "policy" /\ ~Recovering
  /\ \E status \in {"PENDING", "REJECTED"} :
       rows' = [rows EXCEPT ![at] = status]
  /\ outcome' = "failed" /\ pc' = "next" /\ at' = NextIndex
  /\ UNCHANGED <<task, recovery, token, begun, acted, result, writing, overdue>>

-----------------------------------------------------------------------------
(* ToolRunner.run.                                                          *)

\* The token is of this row and its nonce unseen, but it may have expired while
\* the executor wrote its hash; or the tool is gone.
Reject ==
  /\ pc = "verify"
  /\ rows' = [rows EXCEPT ![at] = "FAILED"]
  /\ result' = FALSE /\ pc' = "result"
  /\ UNCHANGED <<task, outcome, at, recovery, token, begun, acted, writing,
                 overdue>>

Verify ==
  /\ pc = "verify" /\ token[at] = "issued"
  /\ token' = [token EXCEPT ![at] = "used"]
  /\ pc' = "mark"
  /\ UNCHANGED <<task, outcome, at, recovery, rows, begun, acted, result,
                 writing, overdue>>

StartTool ==
  /\ pc = "mark"
  /\ rows' = [rows EXCEPT ![at] = "EXECUTING"]
  /\ begun' = begun \cup {at}
  /\ pc' = "tool"
  /\ UNCHANGED <<task, outcome, at, recovery, token, acted, result, writing,
                 overdue>>

Act ==
  /\ pc = "tool" /\ acted' = acted \cup {at}
  /\ UNCHANGED <<task, outcome, pc, at, recovery, rows, token, begun, result,
                 writing, overdue>>

\* It returns, raises, or runs into its own timeout.  What a thread of a tool
\* that was cut off does later is not followed.
Return(ok) ==
  /\ pc = "tool" /\ (ok => at \in acted)
  /\ result' = ok /\ pc' = "record"
  /\ UNCHANGED <<task, outcome, at, recovery, rows, token, begun, acted, writing,
                 overdue>>

Recorded == IF result THEN "COMPLETED" ELSE "FAILED"

\* Faulty variant: the row says that the run is over, not what came out.
RecordRun ==
  /\ pc = "record"
  /\ rows' = [rows EXCEPT ![at] = "COMPLETED"]
  /\ pc' = "result"
  /\ UNCHANGED <<task, outcome, at, recovery, token, begun, acted, result,
                 writing, overdue>>

Record ==
  /\ pc = "record"
  /\ rows' = [rows EXCEPT ![at] = Recorded]
  /\ pc' = "result"
  /\ UNCHANGED <<task, outcome, at, recovery, token, begun, acted, result,
                 writing, overdue>>

-----------------------------------------------------------------------------
(* _run_with_timeout: the run is cancelled where it waits.                  *)

MayCut == Cardinality(overdue) < MaxOverdue

\* Before the try: the handler of the cancellation is not reached, and the row
\* becomes EXECUTING when the thread gets to it.
CutMark ==
  /\ pc = "mark" /\ MayCut
  /\ writing' = writing \cup {<<at, "EXECUTING">>}
  /\ overdue' = overdue \cup {at}
  /\ result' = FALSE /\ pc' = "result"
  /\ UNCHANGED <<task, outcome, at, recovery, rows, token, begun, acted>>

CutTool ==
  /\ pc = "tool" /\ MayCut
  /\ rows' = [rows EXCEPT ![at] = "FAILED"]
  /\ overdue' = overdue \cup {at}
  /\ result' = FALSE /\ pc' = "result"
  /\ UNCHANGED <<task, outcome, at, recovery, token, begun, acted, writing>>

\* The handler writes FAILED beside the thread that writes what came out.
CutRecord ==
  /\ pc = "record" /\ MayCut
  /\ rows' = [rows EXCEPT ![at] = "FAILED"]
  /\ writing' \in {writing, writing \cup {<<at, Recorded>>}}
  /\ overdue' = overdue \cup {at}
  /\ result' = FALSE /\ pc' = "result"
  /\ UNCHANGED <<task, outcome, at, recovery, token, begun, acted>>

LateWrite ==
  /\ \E w \in writing :
       /\ rows' = [rows EXCEPT ![w[1]] = w[2]]
       /\ writing' = writing \ {w}
  /\ UNCHANGED <<task, outcome, pc, at, recovery, token, begun, acted, result,
                 overdue>>

-----------------------------------------------------------------------------
(* What the executor makes of a result.                                     *)

\* Faulty variant: a step is done when its run is over, whatever came out.
DoneAnyway ==
  /\ pc = "result" /\ ~Recovering
  /\ pc' = "next" /\ at' = NextIndex
  /\ UNCHANGED <<task, outcome, recovery, rows, token, begun, acted, result,
                 writing, overdue>>

Done ==
  /\ pc = "result" /\ ~Recovering /\ result
  /\ pc' = "next" /\ at' = NextIndex
  /\ UNCHANGED <<task, outcome, recovery, rows, token, begun, acted, result,
                 writing, overdue>>

\* The second row has the first one's tool and arguments, so the policy allows
\* it as well.
Retry ==
  /\ pc = "result" /\ at[2] = FirstTry /\ ~result
  /\ LET r == <<at[1], SecondTry>>
     IN  /\ at' = r
         /\ rows' = [rows EXCEPT ![r] = "PENDING"]
         /\ token' = [token EXCEPT ![r] = "issued"]
  /\ pc' = "verify"
  /\ UNCHANGED <<task, outcome, recovery, begun, acted, result, writing, overdue>>

\* No planner, no task, or the planner raises.
GiveUp ==
  /\ pc = "result" /\ at[2] = SecondTry /\ ~result
  /\ outcome' = "failed" /\ pc' = "next" /\ at' = NextIndex
  /\ UNCHANGED <<task, recovery, rows, token, begun, acted, result, writing,
                 overdue>>

TryReplan ==
  /\ pc = "result" /\ at[2] = SecondTry /\ ~result
  /\ \E n \in 0..MaxRecovery :
       recovery' = [steps |-> n, begun |-> 0, failed |-> FALSE]
  /\ pc' = "recover"
  /\ UNCHANGED <<task, outcome, at, rows, token, begun, acted, result, writing,
                 overdue>>

BeginRecovery ==
  /\ pc = "recover" /\ recovery.begun < recovery.steps
  /\ LET r == <<at[1], RecoveryPart(recovery.begun + 1)>>
     IN  at' = r /\ rows' = [rows EXCEPT ![r] = "PENDING"]
  /\ recovery' = [recovery EXCEPT !.begun = @ + 1]
  /\ pc' = "policy"
  /\ UNCHANGED <<task, outcome, token, begun, acted, result, writing, overdue>>

\* A rejected step of a recovery plan does not fail it.
RejectRecovery ==
  /\ pc = "policy" /\ Recovering
  /\ rows' = [rows EXCEPT ![at] = "REJECTED"]
  /\ pc' = "recover"
  /\ UNCHANGED <<task, outcome, at, recovery, token, begun, acted, result,
                 writing, overdue>>

RecoveryResult ==
  /\ pc = "result" /\ Recovering
  /\ recovery' = [recovery EXCEPT !.failed = @ \/ ~result]
  /\ pc' = "recover"
  /\ UNCHANGED <<task, outcome, at, rows, token, begun, acted, result, writing,
                 overdue>>

EndRecovery ==
  /\ pc = "recover" /\ recovery.begun = recovery.steps
  /\ outcome' = IF recovery.failed THEN "failed" ELSE outcome
  /\ pc' = "next" /\ at' = NextIndex /\ recovery' = NoRecovery
  /\ UNCHANGED <<task, rows, token, begun, acted, result, writing, overdue>>

Finalize ==
  /\ pc = "next" /\ at[1] = Length + 1
  /\ task' = CASE outcome = "cancelled" -> "CANCELLED"
               [] outcome = "failed" -> "FAILED"
               [] outcome = "ok" -> "COMPLETED"
  /\ pc' = "end"
  /\ UNCHANGED <<outcome, at, recovery, rows, token, begun, acted, result,
                 writing, overdue>>

\* The task's state machine has this transition and the loop looks for it; the
\* cancel route does not make it of a task that is EXECUTING.
Cancel ==
  /\ task = "EXECUTING" /\ task' = "CANCELLED"
  /\ UNCHANGED <<outcome, pc, at, recovery, rows, token, begun, acted, result,
                 writing, overdue>>

Next ==
  \/ SkipStep \/ SeeCancelled \/ BeginStep \/ Allow \/ Refuse
  \/ Reject \/ Verify \/ StartTool \/ Record
  \/ Act
  \/ \E ok \in BOOLEAN : Return(ok)
  \/ CutMark \/ CutTool \/ CutRecord \/ LateWrite
  \/ Done \/ Retry \/ GiveUp
  \/ TryReplan \/ BeginRecovery \/ RejectRecovery \/ RecoveryResult
  \/ EndRecovery
  \/ Finalize \/ Cancel

Spec == Init /\ [][Next]_vars

-----------------------------------------------------------------------------
(* Properties.                                                              *)

(* The tables, the loop and the runs of tools stay in their ranges.         *)
TypeOK ==
  /\ task \in {"EXECUTING", "CANCELLED", "COMPLETED", "FAILED"}
  /\ outcome \in {"ok", "failed", "cancelled"}
  /\ at \in (1..(Length + 1)) \X Part
  /\ rows \in [Row -> Status]
  /\ token \in [Row -> {"none", "issued", "used"}]
  /\ acted \subseteq begun /\ begun \subseteq {r \in Row : token[r] = "used"}
  /\ overdue \subseteq Row

\* Done at the first try or the second, or replaced by a recovery plan each
\* step of which has acted or was rejected.
Settled(i) ==
  \/ <<i, FirstTry>> \in acted \/ <<i, SecondTry>> \in acted
  \/ /\ rows[<<i, SecondTry>>] # "none"
     /\ \A k \in 1..MaxRecovery :
          LET r == <<i, RecoveryPart(k)>>
          IN  rows[r] \in {"none", "REJECTED"} \/ r \in acted

(* No tool runs for a step, and no task is COMPLETED, before each earlier   *)
(* step was done or replaced by a recovery plan; but a recovery plan that   *)
(* is empty or rejected counts (_execute_plan_inner, _execute_recovery).    *)
EarlierIsSettled ==
  \A i \in Index :
    (task = "COMPLETED" \/ \E j \in i + 1..Length : <<j, FirstTry>> \in begun)
      => Settled(i)

(* A row says COMPLETED only if its tool has acted; and a step whose first  *)
(* row says so is tried again only if the step's timeout cut its run off    *)
(* while the row was written (run, _execute_step_with_retry).               *)
RowsAreTrue ==
  \A i \in Index :
    /\ \A p \in Part : rows[<<i, p>>] = "COMPLETED" => <<i, p>> \in acted
    /\ rows[<<i, FirstTry>>] = "COMPLETED" /\ rows[<<i, SecondTry>>] # "none"
         => <<i, FirstTry>> \in overdue
=============================================================================
