----------------------------- MODULE MCTaskPlans -----------------------------
(* TaskLifecycle on two small instances: two requests on a plan of two     *)
(* risky steps with a retry, and three requests on a plan of three steps   *)
(* whose second one needs approval.  plan tells them apart.                *)
EXTENDS TaskLifecycle_proofs, TLC

CONSTANTS p1, p2, p3

VARIABLE plan

Three ==
  INSTANCE TaskLifecycle_proofs
    WITH Proc <- {p1, p2, p3}, PlanSize <- 3, Risky <- {2}, MaxRetries <- 0,
         MaxCrashes <- 1, MaxRows <- 3

\* The plan of the configuration.  (As TaskLifecycle is instantiated here too,
\* TLC evaluates its definitions where they are used, with the constants they
\* have there; else those of Three would be the ones of the configuration.)
One == INSTANCE TaskLifecycle

PlansInit == (plan = 2 /\ Init) \/ (plan = 3 /\ Three!Init)

PlansNext ==
  /\ UNCHANGED plan
  /\ (plan = 2 /\ Next) \/ (plan = 3 /\ Three!Next)

PlansSpec == PlansInit /\ [][PlansNext]_<<plan, vars>>

\* The two requests alone, on the plan of the configuration.
OnePlanSpec == plan = 2 /\ One!Init /\ [][One!Next /\ UNCHANGED plan]_<<plan, vars>>

\* The same, with requests that go on and do not fail.
OnePlanWorkSpec ==
  /\ plan = 2 /\ One!Init /\ [][One!Work /\ UNCHANGED plan]_<<plan, vars>>
  /\ \A p \in Proc : WF_vars(One!GoOn(p))

\* Requests are interchangeable: no definition tells them apart.
Symmetry == Permutations({p1, p2})

-----------------------------------------------------------------------------
(* The properties of TaskLifecycle, of one plan or of both.                 *)

(* Both plans keep the rows and the requests in their ranges.               *)
PlansTypeOK == IF plan = 2 THEN TypeOK ELSE Three!TypeOK

(* No step that needs approval runs without its own (execute_plan and       *)
(* resume_after_approval of executor_service.py).                          *)
PlansAreApproved == IF plan = 2 THEN RunsAreApproved ELSE Three!RunsAreApproved

(* With one approval in the plan a step is run at most once, however often  *)
(* it is resolved, and only after the one before it in the plan.            *)
ApprovedOnceInOrder == plan = 3 => ApprovedRunsOnce /\ Three!StepsInOrder

(* With one approval in the plan a task becomes COMPLETED only when a step  *)
(* of each plan position has (_finalize_task of executor_service.py).       *)
PlanIsComplete ==
  [][plan = 3 /\ status # "COMPLETED" /\ status' = "COMPLETED" =>
       \A k \in 1..3 :
         \E i \in DOMAIN rows :
           rows[i].order = k /\ rows[i].status = "COMPLETED"]_<<plan, vars>>

-----------------------------------------------------------------------------
(* The properties hold for every first plan: what TaskLifecycle_proofs      *)
(* shows of a plan carries over to the pair.                                *)

\* The inductive invariant: of the plan of the constants the one of approvals,
\* of the plan of three, which has one step to approve, the one of order.
PlansInv == (plan = 2 /\ IInv) \/ (plan = 3 /\ Three!OrderInv)

\* The plan of three meets the assumptions of TaskLifecycle and of the order.
LEMMA ThreeAssumptions == Three!TaskAssumption /\ Three!OneApproval
BY DEF Three!TaskAssumption, Three!OneApproval

\* A step of the plan of three is a step of its TaskLifecycle.
LEMMA ThreeSteps ==
  ASSUME plan = 3, [PlansNext]_<<plan, vars>>
  PROVE  [Three!Next]_Three!vars
<1>1. UNCHANGED vars => UNCHANGED Three!vars
  BY DEF vars, Three!vars
<1>2. Three!Next \/ UNCHANGED vars
  BY DEF PlansNext, vars
<1> QED
  BY <1>1, <1>2

\* The inductive invariant holds in every state of every behaviour.
LEMMA PlansInductive == PlansSpec => []PlansInv
<1>1. PlansInit => PlansInv
  BY InitIInv, ThreeAssumptions, Three!InitOrder DEF PlansInit, PlansInv
<1>2. ASSUME PlansInv, [PlansNext]_<<plan, vars>>
      PROVE  PlansInv'
  <2>1. UNCHANGED plan
    BY <1>2 DEF PlansNext
  <2>2. CASE plan = 2
    <3>1. [Next]_vars
      BY <1>2, <2>2 DEF PlansNext
    <3>2. IInv
      BY <1>2, <2>2 DEF PlansInv
    <3> QED
      BY <2>1, <2>2, <3>1, <3>2, NextIInv DEF PlansInv
  <2>3. CASE plan = 3
    <3>1. [Three!Next]_Three!vars
      BY <1>2, <2>3, ThreeSteps
    <3>2. Three!OrderInv
      BY <1>2, <2>3 DEF PlansInv
    <3> QED
      BY <2>1, <2>3, <3>1, <3>2, ThreeAssumptions, Three!NextOrder DEF PlansInv
  <2> QED
    BY <1>2, <2>2, <2>3 DEF PlansInv
<1> QED
  BY <1>1, <1>2, PTL DEF PlansSpec

\* The rows and the requests of both plans stay in their ranges.
THEOREM PlansTypeCorrect == PlansSpec => []PlansTypeOK
<1>1. PlansInv => PlansTypeOK
  BY DEF PlansInv, PlansTypeOK, IInv, Three!OrderInv, Three!IInv
<1> QED
  BY <1>1, PlansInductive, PTL

\* No step of either plan that needs approval runs without its own.
THEOREM PlansNeedApproval == PlansSpec => []PlansAreApproved
<1>1. PlansInv => PlansAreApproved
  BY DEF PlansInv, PlansAreApproved, IInv, Three!OrderInv, Three!IInv
<1> QED
  BY <1>1, PlansInductive, PTL

\* With one approval in the plan no step is run twice, whatever is resolved and
\* however often, and none before the one ahead of it has completed.
THEOREM ApprovedPlanInOrder == PlansSpec => []ApprovedOnceInOrder
<1>1. ASSUME PlansInv
      PROVE  ApprovedOnceInOrder
  <2> SUFFICES ASSUME plan = 3
               PROVE  ApprovedRunsOnce /\ Three!StepsInOrder
    BY DEF ApprovedOnceInOrder
  <2>1. Three!OrderInv
    BY <1>1 DEF PlansInv
  <2>2. ApprovedRunsOnce
    BY <2>1 DEF Three!OrderInv, Three!HistoryOK, Three!RowFine, ApprovedRunsOnce
  <2> QED
    BY <2>1, <2>2, Three!OrderedSteps
<1> QED
  BY <1>1, PlansInductive, PTL

\* With one approval in the plan a task becomes COMPLETED only when a step of
\* each position of the plan has.
THEOREM ApprovedPlanIsComplete == PlansSpec => PlanIsComplete
<1> DEFINE Whole == plan = 3 /\ status # "COMPLETED" /\ status' = "COMPLETED" =>
                      \A k \in 1..3 :
                        \E i \in DOMAIN rows :
                          rows[i].order = k /\ rows[i].status = "COMPLETED"
<1>1. ASSUME PlansInv, [PlansNext]_<<plan, vars>>
      PROVE  Whole
  <2> SUFFICES ASSUME plan = 3, status # "COMPLETED", status' = "COMPLETED"
               PROVE  Three!AllStepsCompleted
    BY DEF Three!AllStepsCompleted
  <2>1. Three!OrderInv
    BY <1>1 DEF PlansInv
  <2>2. [Three!Next]_Three!vars
    BY <1>1, ThreeSteps
  <2> QED
    BY <2>1, <2>2, Three!CompletingStep
<1>2. PlansInv /\ [PlansNext]_<<plan, vars>> => [Whole]_<<plan, vars>>
  BY <1>1
<1> QED
  BY <1>2, PlansInductive, PTL DEF PlansSpec, PlanIsComplete
=============================================================================
