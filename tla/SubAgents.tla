----------------------------- MODULE SubAgents -----------------------------
(* Sub-agents: SubAgentRunner of packages/executor/tools/delegate_tool.py  *)
(* and the tool delegate.task of agent_core/sub_agent.py.  Each run is a   *)
(* coroutine of one event loop: it plans its goal and executes the steps   *)
(* of the plan one after the other, also after a step that failed.  The    *)
(* runs of one run_parallel pass a semaphore of their own first.  A run    *)
(* may be cancelled wherever it awaits, as a tool's timeout does.          *)
EXTENDS Naturals, Sequences, FiniteSets, Functions

CONSTANTS
  Run,
  Together,       \* the runs of one call of run_parallel
  DepthOf,        \* the depth each run is called with
  Plans,          \* plans: sequences of "tool", "blocked" and "missing"
  MaxDepth,       \* max_depth
  MaxConcurrent   \* max_concurrent

Status == {"success", "failed", "error", "blocked", "not_found"}

VARIABLES
  active,  \* self._active_count
  run      \* what each run does: its place, the rest of its plan, its results

vars == <<active, run>>

\* others: history, the other runs that were active when this one was refused.
Idle == [pc |-> "idle", plan |-> <<>>, left |-> <<>>, results |-> <<>>,
         acted |-> 0, others |-> 0]

Init ==
  /\ active = 0
  /\ run = [r \in Run |-> Idle]

\* Runs that hold the runner's count, and a permit of run_parallel.
InBody == {r \in Run : run[r].pc \in {"planning", "tool"}}
Permits == Cardinality(InBody \intersect Together)

Ends(r, pc) ==
  /\ run' = [run EXCEPT ![r].pc = pc]
  /\ active' = active - 1

-----------------------------------------------------------------------------
\* run, as far as the planner's first await; a run of run_parallel begins
\* when the semaphore lets it.
Enter(r) ==
  /\ run[r].pc = "idle" /\ DepthOf[r] < MaxDepth
  /\ r \in Together => Permits < MaxConcurrent
  /\ active < MaxConcurrent
  /\ run' = [run EXCEPT ![r].pc = "planning"]
  /\ active' = active + 1

\* The runner is full, or the run too deep.
Refuse(r) ==
  /\ run[r].pc = "idle"
  /\ r \in Together => Permits < MaxConcurrent
  /\ DepthOf[r] >= MaxDepth \/ active >= MaxConcurrent
  /\ run' = [run EXCEPT ![r].pc = "refused",
                        ![r].others = Cardinality(InBody \ Together)]
  /\ UNCHANGED active

ResultOf(kind) == IF kind = "blocked" THEN "blocked" ELSE "not_found"

(* Faulty variant: a blocked step does not spoil the run.                  *)
OutcomeDespiteBlocked(results) ==
  IF Range(results) \subseteq {"success", "blocked"} THEN "succeeded" ELSE "failed"

\* It succeeded if each of its steps did.
Outcome(results) ==
  IF Range(results) \subseteq {"success"} THEN "succeeded" ELSE "failed"

\* The steps whose tool is in BLOCKED_TOOLS, or unknown to the registry, are
\* noted and passed over, up to the next tool or to the end of the plan.
Proceed(r, plan, left, results) ==
  \E skipped \in 0 .. Len(left) :
    /\ \A i \in 1 .. skipped : left[i] # "tool"
    /\ skipped < Len(left) => left[skipped + 1] = "tool"
    /\ LET noted == results \o [i \in 1 .. skipped |-> ResultOf(left[i])]
           rest == SubSeq(left, skipped + 1, Len(left))
       IN  /\ run' = [run EXCEPT
                ![r].plan = plan, ![r].left = rest, ![r].results = noted,
                ![r].pc = IF rest = <<>> THEN Outcome(noted) ELSE "tool",
                ![r].acted = IF rest = <<>> THEN @ ELSE @ + 1]
           /\ active' = IF rest = <<>> THEN active - 1 ELSE active

\* The planner answers with a plan, or raises.
Planned(r) ==
  /\ run[r].pc = "planning"
  /\ \/ \E p \in Plans : Proceed(r, p, p, <<>>)
     \/ Ends(r, "failed")

\* The tool returns or raises.
Executed(r) ==
  /\ run[r].pc = "tool"
  /\ \E s \in {"success", "failed", "error"} :
       Proceed(r, run[r].plan, Tail(run[r].left), Append(run[r].results, s))

(* Faulty variant: only an end and an error give the count back.           *)
CancelForgets(r) ==
  /\ run[r].pc \in {"planning", "tool"}
  /\ run' = [run EXCEPT ![r].pc = "cancelled"]
  /\ UNCHANGED active

\* CancelledError passes `except Exception`; `finally` gives the count back.
Cancel(r) ==
  /\ run[r].pc \in {"planning", "tool"}
  /\ Ends(r, "cancelled")

\* The caller of run_parallel is cancelled: so are those it gathers.
CancelAll ==
  /\ \E r \in Together : run[r].pc \in {"planning", "tool"}
  /\ LET hit == {r \in Together : run[r].pc \in {"idle", "planning", "tool"}}
     IN  /\ run' = [r \in Run |-> IF r \in hit THEN [run[r] EXCEPT !.pc = "cancelled"]
                                               ELSE run[r]]
         /\ active' = active - Cardinality(hit \intersect InBody)

\* A new call of the same kind.
Again(r) ==
  /\ r \notin Together
  /\ run[r].pc \in {"succeeded", "failed", "refused", "cancelled"}
  /\ run' = [run EXCEPT ![r] = Idle]
  /\ UNCHANGED active

Next ==
  \/ \E r \in Run :
       \/ Enter(r) \/ Refuse(r) \/ Planned(r) \/ Executed(r) \/ Cancel(r) \/ Again(r)
  \/ CancelAll

Spec == Init /\ [][Next]_vars

-----------------------------------------------------------------------------
(* Properties                                                              *)

(* The runs keep their ranges.                                             *)
TypeOK ==
  /\ active \in 0 .. MaxConcurrent
  /\ \A r \in Run :
       /\ run[r].pc \in {"idle", "planning", "tool", "succeeded",
                         "failed", "refused", "cancelled"}
       /\ Range(run[r].results) \subseteq Status
       /\ run[r].acted \in Nat /\ run[r].others \in Nat

(* The count is the number of runs that are under way, however each of the *)
(* others ended, and never above the limit (run of delegate_tool.py).      *)
CountIsTrue ==
  /\ active = Cardinality(InBody)
  /\ active <= MaxConcurrent

(* A run that reports success has executed every step of its plan, and a   *)
(* run that was refused none; no blocked step is ever executed (run).      *)
SuccessIsTrue ==
  \A r \in Run :
    /\ run[r].pc = "succeeded" =>
         /\ \A i \in DOMAIN run[r].plan : run[r].plan[i] = "tool"
         /\ run[r].acted = Len(run[r].plan)
    /\ run[r].pc = "refused" => run[r].acted = 0
    /\ run[r].acted <=
         Cardinality({i \in DOMAIN run[r].plan : run[r].plan[i] = "tool"})

(* The runs of run_parallel do not take the limit from each other: one is  *)
(* refused only if runs of other callers were under way (run_parallel).    *)
TogetherFits ==
  \A r \in Together :
    run[r].pc = "refused" /\ DepthOf[r] < MaxDepth => run[r].others > 0
=============================================================================
