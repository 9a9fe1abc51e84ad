------------------------ MODULE StepExecution_proofs ------------------------
(***************************************************************************)
(* The safety properties of StepExecution hold for any number of steps of  *)
(* any kinds, and the committed tables implement EffectLedger.             *)
(*                                                                         *)
(* The inductive invariant says who holds the write lock and with what     *)
(* rows (LockOK), that a coroutine waiting for it has not begun its        *)
(* attempt (LoopOK), how far the attempts of a step have come (AttemptOK), *)
(* that nothing is committed of an attempt before its end (FreshOK), and   *)
(* why a step with side effects is about to be retried (RetryOK).          *)
(***************************************************************************)
EXTENDS StepExecution, TLAPS

\* The rows of an attempt whose tool is running.
Dispatched == [grant |-> "CONSUMED", effect |-> "DISPATCHING", receipt |-> "none"]

LockOK ==
  /\ \A s \in Step : pc[s] = "dispatched" => writer = Current(s)
  /\ writer # NoAttempt =>
       /\ work = Dispatched
       /\ \E s \in Step : pc[s] = "dispatched" /\ writer = Current(s)

LoopOK == \A s \in Step : loop = s => pc[s] \in {"idle", "retry"}

AttemptOK ==
  \A s \in Step :
    /\ pc[s] = "idle" => attempt[s] = 0
    /\ pc[s] \in {"auditRetry", "retry"} => attempt[s] = 1
    /\ pc[s] = "dispatched" => attempt[s] \in {1, 2}

FreshOK ==
  \A s \in Step :
    /\ \A n \in {1, 2} : n > attempt[s] => db[<<s, n>>] = NoRow
    /\ pc[s] = "dispatched" => db[<<s, attempt[s]>>] = NoRow

RetryOK ==
  \A s \in Step \ ReadOnly :
    pc[s] \in {"auditRetry", "retry"} =>
      outcome[<<s, 1>>] = "FAILED" \/ <<s, 1>> \in lost

IInv ==
  /\ TypeOK
  /\ LockOK
  /\ LoopOK
  /\ AttemptOK
  /\ FreshOK
  /\ RetryOK
  /\ CommittedRecordIsWhole
  /\ NoBlindRepeat

-----------------------------------------------------------------------------
(* Lemmas *)

\* An attempt is a step and an ordinal, and is told apart by both.
LEMMA AttemptIsPair ==
  /\ \A s \in Step, n \in {1, 2} : <<s, n>> \in Attempt
  /\ \A a \in Attempt : \E s \in Step, n \in {1, 2} : a = <<s, n>>
  /\ \A s, t \in Step, m, n \in Int : <<s, m>> = <<t, n>> => s = t /\ m = n
  /\ NoAttempt \notin Attempt
<1>1. \A s \in Step, n \in {1, 2} : <<s, n>> \in Attempt
  BY DEF Attempt
<1>2. \A a \in Attempt : \E s \in Step, n \in {1, 2} : a = <<s, n>>
  BY DEF Attempt
<1>3. \A s, t \in Step, m, n \in Int : <<s, m>> = <<t, n>> => s = t /\ m = n
  OBVIOUS
<1>4. NoAttempt \notin Attempt
  <2>1. \A s \in Step, n \in {1, 2} : <<s, n>> # <<NoStep, 0>>
    OBVIOUS
  <2> QED
    BY <1>2, <2>1 DEF NoAttempt
<1> QED
  BY <1>1, <1>2, <1>3, <1>4

\* Each write of an attempt makes a row of it.
LEMMA RowTypes ==
  /\ NoRow \in Row
  /\ Issue \in Row
  /\ Dispatched \in Row
  /\ RecordDispatch(Consume(Prepare(Issue))) = Dispatched
  /\ Issue = [grant |-> "ISSUED", effect |-> "none", receipt |-> "none"]
<1> DEFINE issued == [grant |-> "ISSUED", effect |-> "none", receipt |-> "none"]
           prepared == [grant |-> "ISSUED", effect |-> "PREPARED", receipt |-> "none"]
           consumed == [grant |-> "CONSUMED", effect |-> "PREPARED", receipt |-> "none"]
<1>1. NoRow \in Row /\ issued \in Row /\ Dispatched \in Row
  BY DEF NoRow, Dispatched, Row, EffectStatus, Receipt
<1>2. Issue = issued
  BY DEF Issue, NoRow
<1>3. Prepare(issued) = prepared
  BY DEF Prepare
<1>4. Consume(prepared) = consumed
  BY DEF Consume
<1>5. RecordDispatch(consumed) = Dispatched
  BY DEF RecordDispatch, Dispatched
<1> QED
  BY <1>1, <1>2, <1>3, <1>4, <1>5

\* What finalize makes of a dispatched attempt.
LEMMA FinalizeDispatched ==
  ASSUME NEW receipt \in Receipt
  PROVE  /\ Finalize(Dispatched, receipt) \in Row
         /\ Finalize(Dispatched, receipt).grant = "CONSUMED"
         /\ Finalize(Dispatched, receipt).receipt = receipt
         /\ Finalize(Dispatched, receipt).effect = EffectOf(receipt)
         /\ receipt = "SUCCEEDED" => EffectOf(receipt) = "CONFIRMED"
         /\ receipt = "FAILED" => EffectOf(receipt) = "FAILED"
         /\ receipt = "UNKNOWN" => EffectOf(receipt) = "UNKNOWN_OUTCOME"
BY DEF Finalize, EffectOf, Dispatched, Row, EffectStatus, Receipt

LEMMA InitIInv == Init => IInv
<1> SUFFICES ASSUME Init PROVE IInv
  OBVIOUS
<1> USE DEF Init
<1>1. TypeOK
  BY RowTypes DEF TypeOK, PC, Result
<1>2. LockOK /\ LoopOK /\ AttemptOK /\ RetryOK
  BY StepAssumption DEF LockOK, LoopOK, AttemptOK, RetryOK
<1>3. FreshOK
  BY AttemptIsPair DEF FreshOK
<1>4. CommittedRecordIsWhole
  BY DEF CommittedRecordIsWhole, NoRow
<1>5. NoBlindRepeat
  BY DEF NoBlindRepeat
<1> QED
  BY <1>1, <1>2, <1>3, <1>4, <1>5 DEF IInv

-----------------------------------------------------------------------------
(* Steps that leave the attempts and the tables alone *)

Quiet ==
  /\ UNCHANGED <<kind, attempt, db, outcome>>
  /\ lost \subseteq lost'
  /\ \A a \in Attempt : acted[a] => acted'[a]
  /\ \A s \in Step : \/ pc'[s] = pc[s]
                     \/ pc'[s] \in Ended
                     \/ pc[s] = "auditRetry" /\ pc'[s] = "retry"

\* Such a step disturbs at most the types and who has or wants the lock.
LEMMA QuietLemma ==
  ASSUME IInv, Quiet
  PROVE  AttemptOK' /\ FreshOK' /\ RetryOK' /\ CommittedRecordIsWhole' /\ NoBlindRepeat'
<1> USE DEF Quiet, Ended
<1>1. AttemptOK'
  BY DEF IInv, AttemptOK
<1>2. FreshOK'
  BY DEF IInv, FreshOK
<1>3. RetryOK'
  BY DEF IInv, RetryOK, ReadOnly
<1>4. CommittedRecordIsWhole'
  BY DEF IInv, CommittedRecordIsWhole
<1>5. NoBlindRepeat'
  BY DEF IInv, NoBlindRepeat, ReadOnly
<1> QED
  BY <1>1, <1>2, <1>3, <1>4, <1>5

LEMMA BlockOnLockStep ==
  ASSUME IInv, NEW s \in Step, BlockOnLock(s)
  PROVE  IInv'
<1> USE DEF IInv, BlockOnLock, stepVars, dbVars, toolVars
<1>1. TypeOK'
  BY DEF TypeOK
<1>2. LockOK'
  BY DEF LockOK, Current
<1>3. LoopOK'
  BY DEF LoopOK, Entering
<1>4. Quiet
  BY DEF Quiet
<1> QED
  BY <1>1, <1>2, <1>3, <1>4, QuietLemma

LEMMA AuditStep ==
  ASSUME IInv, NEW s \in Step, Audit(s)
  PROVE  IInv'
<1> USE DEF IInv, Audit, dbVars, toolVars
<1>1. TypeOK'
  BY DEF TypeOK, PC, Result
<1>2. LockOK'
  BY DEF LockOK, LockFree, Current, TypeOK
<1>3. LoopOK'
  BY StepAssumption DEF LoopOK, LoopRuns
<1>4. Quiet
  BY DEF Quiet, Ended, TypeOK
<1> QED
  BY <1>1, <1>2, <1>3, <1>4, QuietLemma

LEMMA FailAuditStep ==
  ASSUME IInv, NEW s \in Step, FailAudit(s)
  PROVE  IInv'
<1> USE DEF IInv, FailAudit, dbVars, toolVars
<1>1. TypeOK'
  BY DEF TypeOK, PC
<1>2. LockOK'
  BY DEF LockOK, Current, TypeOK
<1>3. LoopOK'
  BY StepAssumption DEF LoopOK, LoopRuns
<1>4. Quiet
  BY DEF Quiet, Ended, TypeOK
<1> QED
  BY <1>1, <1>2, <1>3, <1>4, QuietLemma

LEMMA ActStep ==
  ASSUME IInv, NEW a \in Attempt, Act(a)
  PROVE  IInv'
<1> USE DEF IInv, Act, stepVars, dbVars
<1>1. TypeOK'
  BY DEF TypeOK
<1>2. LockOK'
  BY DEF LockOK, Current
<1>3. LoopOK'
  BY DEF LoopOK
<1>4. Quiet
  BY DEF Quiet, TypeOK
<1> QED
  BY <1>1, <1>2, <1>3, <1>4, QuietLemma

LEMMA BusyTimeoutStep ==
  ASSUME IInv, BusyTimeout
  PROVE  IInv'
<1> USE DEF IInv, BusyTimeout, dbVars, toolVars
<1>1. TypeOK'
  BY DEF TypeOK, PC
<1>2. LockOK'
  BY DEF LockOK, LoopOK, Current
<1>3. LoopOK'
  BY StepAssumption DEF LoopOK
<1>4. Quiet
  BY DEF Quiet, Ended
<1> QED
  BY <1>1, <1>2, <1>3, <1>4, QuietLemma

LEMMA BlockReconcileStep ==
  ASSUME IInv, BlockReconcile
  PROVE  IInv'
<1> USE DEF IInv, BlockReconcile, stepVars, dbVars, toolVars
<1>1. TypeOK'
  BY DEF TypeOK
<1>2. LockOK'
  BY DEF LockOK, Current
<1>3. LoopOK'
  BY StepAssumption DEF LoopOK
<1>4. Quiet
  BY DEF Quiet
<1> QED
  BY <1>1, <1>2, <1>3, <1>4, QuietLemma

LEMMA CrashStep ==
  ASSUME IInv, Crash
  PROVE  IInv'
<1> USE DEF IInv, Crash, ReleaseLock, toolVars
<1>1. TypeOK'
  BY RowTypes DEF TypeOK, PC, Ended, LockFree
<1>2. LockOK'
  BY DEF LockOK, Ended
<1>3. LoopOK'
  BY StepAssumption DEF LoopOK
<1>4. Quiet
  BY DEF Quiet, Ended
<1> QED
  BY <1>1, <1>2, <1>3, <1>4, QuietLemma

LEMMA StutterStep ==
  ASSUME IInv, UNCHANGED vars
  PROVE  IInv'
<1> USE DEF IInv, vars, stepVars, dbVars, toolVars
<1>1. TypeOK' /\ LockOK' /\ LoopOK'
  BY DEF TypeOK, LockOK, LoopOK, Current
<1>2. Quiet
  BY DEF Quiet
<1> QED
  BY <1>1, <1>2, QuietLemma

\* A step whose tool is running holds the lock, with the rows of its attempt and
\* nothing committed of it.
LEMMA DispatchedLemma ==
  ASSUME IInv, NEW s \in Step, pc[s] = "dispatched"
  PROVE  /\ writer = Current(s)
         /\ ~LockFree
         /\ work = Dispatched
         /\ attempt[s] \in {1, 2}
         /\ Current(s) = <<s, attempt[s]>>
         /\ Current(s) \in Attempt
         /\ db[Current(s)] = NoRow
         /\ \A t \in Step : pc[t] = "dispatched" => t = s
<1>1. attempt[s] \in {1, 2}
  BY DEF IInv, AttemptOK
<1>2. Current(s) = <<s, attempt[s]>>
  BY DEF Current
<1>3. Current(s) \in Attempt
  BY <1>1, <1>2 DEF Attempt
<1>4. writer = Current(s)
  BY DEF IInv, LockOK
<1>5. writer # NoAttempt
  BY <1>3, <1>4, AttemptIsPair
<1>6. work = Dispatched
  BY <1>5 DEF IInv, LockOK
<1>7. db[Current(s)] = NoRow
  BY <1>2 DEF IInv, FreshOK
<1>8. ASSUME NEW t \in Step, pc[t] = "dispatched"
      PROVE  t = s
  <2>1. Current(t) = Current(s)
    BY <1>4, <1>8 DEF IInv, LockOK
  <2> QED
    BY <2>1 DEF Current
<1> QED
  BY <1>1, <1>2, <1>3, <1>4, <1>5, <1>6, <1>7, <1>8 DEF LockFree

-----------------------------------------------------------------------------
(* Steps that begin an attempt *)

\* A step that enters has made one attempt less than it may, nothing is
\* committed of the next one, and if it is a retry it was allowed.
LEMMA EnteringLemma ==
  ASSUME IInv, NEW s \in Step, Entering(s)
  PROVE  /\ attempt[s] + 1 \in {1, 2}
         /\ pc[s] = "idle" => attempt[s] = 0
         /\ Following(s) = <<s, attempt[s] + 1>>
         /\ Following(s) \in Attempt
         /\ db[Following(s)] = NoRow
         /\ loop = NoStep
         /\ attempt[s] + 1 = 2 /\ s \notin ReadOnly =>
              outcome[<<s, 1>>] = "FAILED" \/ <<s, 1>> \in lost
<1>1. pc[s] \in {"idle", "retry"} /\ loop = NoStep
  BY DEF Entering, LoopRuns
<1>2. /\ pc[s] = "idle" => attempt[s] = 0
      /\ pc[s] = "retry" => attempt[s] = 1
  BY <1>1 DEF IInv, AttemptOK
<1>3. attempt[s] + 1 \in {1, 2} /\ attempt[s] + 1 > attempt[s]
  BY <1>1, <1>2
<1>4. Following(s) \in Attempt
  BY <1>3, AttemptIsPair DEF Following
<1>5. db[Following(s)] = NoRow
  BY <1>3 DEF Following, IInv, FreshOK
<1>6. attempt[s] + 1 = 2 /\ s \notin ReadOnly =>
        outcome[<<s, 1>>] = "FAILED" \/ <<s, 1>> \in lost
  BY <1>1, <1>2 DEF IInv, RetryOK
<1> QED
  BY <1>1, <1>2, <1>3, <1>4, <1>5, <1>6 DEF Following

\* Nothing is committed too early when an attempt begins and only rows of that
\* attempt are written.
LEMMA FreshLemma ==
  ASSUME IInv, NEW s \in Step, Entering(s),
         attempt' = [attempt EXCEPT ![s] = @ + 1],
         \A a \in Attempt : a # Following(s) => db'[a] = db[a],
         \A t \in Step : t # s => pc'[t] = pc[t],
         pc'[s] = "dispatched" => db' = db
  PROVE  FreshOK'
<1>0. /\ attempt[s] + 1 \in {1, 2}
      /\ Following(s) = <<s, attempt[s] + 1>>
      /\ db[Following(s)] = NoRow
  BY EnteringLemma
<1>1. attempt \in [Step -> 0..2]
  BY DEF IInv, TypeOK
<1>2. ASSUME NEW t \in Step, NEW n \in {1, 2}, n > attempt'[t]
      PROVE  db'[<<t, n>>] = NoRow
  <2>1. n > attempt[t]
    BY <1>0, <1>1, <1>2
  <2>2. <<t, n>> # Following(s)
    BY <1>0, <1>1, <1>2
  <2> QED
    BY <2>1, <2>2, AttemptIsPair DEF IInv, FreshOK
<1>3. ASSUME NEW t \in Step, pc'[t] = "dispatched"
      PROVE  db'[<<t, attempt'[t]>>] = NoRow
  <2>1. CASE t = s
    BY <1>0, <1>1, <1>3, <2>1
  <2>2. CASE t # s
    <3>1. attempt'[t] = attempt[t] /\ attempt[t] \in {1, 2}
      BY <1>1, <1>3, <2>2 DEF IInv, AttemptOK
    <3>2. <<t, attempt[t]>> # Following(s)
      BY <1>0, <2>2
    <3>3. db[<<t, attempt[t]>>] = NoRow
      BY <1>3, <2>2 DEF IInv, FreshOK
    <3> QED
      BY <3>1, <3>2, <3>3, AttemptIsPair
  <2> QED
    BY <2>1, <2>2
<1> QED
  BY <1>2, <1>3 DEF FreshOK

LEMMA RejectStep ==
  ASSUME IInv, NEW s \in Step, Reject(s)
  PROVE  IInv'
<1> USE DEF IInv, Reject, dbVars, toolVars
<1>0. /\ attempt[s] + 1 \in {1, 2}
      /\ Following(s) = <<s, attempt[s] + 1>>
      /\ Following(s) \in Attempt
      /\ db[Following(s)] = NoRow
      /\ loop = NoStep
      /\ attempt[s] + 1 = 2 /\ s \notin ReadOnly =>
           outcome[<<s, 1>>] = "FAILED" \/ <<s, 1>> \in lost
  BY EnteringLemma DEF Reject
<1>1. TypeOK'
  BY <1>0 DEF TypeOK, PC, Result
<1>2. LockOK'
  BY <1>0 DEF LockOK, Entering, Current, TypeOK
<1>3. LoopOK'
  BY <1>0, StepAssumption DEF LoopOK
<1>4. AttemptOK'
  BY <1>0 DEF AttemptOK, TypeOK
<1>5. FreshOK'
  BY FreshLemma DEF TypeOK
<1>6. RetryOK'
  BY <1>0 DEF RetryOK, ReadOnly, TypeOK
<1>7. CommittedRecordIsWhole'
  BY DEF CommittedRecordIsWhole
<1>8. NoBlindRepeat'
  BY <1>0 DEF NoBlindRepeat, ReadOnly, TypeOK
<1> QED
  BY <1>1, <1>2, <1>3, <1>4, <1>5, <1>6, <1>7, <1>8

LEMMA SuspendStep ==
  ASSUME IInv, NEW s \in Step, Suspend(s)
  PROVE  IInv'
<1> USE DEF IInv, Suspend, toolVars
<1>0. /\ attempt[s] + 1 \in {1, 2}
      /\ Following(s) = <<s, attempt[s] + 1>>
      /\ Following(s) \in Attempt
      /\ db[Following(s)] = NoRow
      /\ loop = NoStep
      /\ attempt[s] + 1 = 2 /\ s \notin ReadOnly =>
           outcome[<<s, 1>>] = "FAILED" \/ <<s, 1>> \in lost
  BY EnteringLemma DEF Suspend
<1>1. TypeOK'
  BY <1>0 DEF TypeOK, PC, Result
<1>2. LockOK'
  BY <1>0 DEF LockOK, Entering, Current, TypeOK
<1>3. LoopOK'
  BY <1>0, StepAssumption DEF LoopOK
<1>4. AttemptOK'
  BY <1>0 DEF AttemptOK, TypeOK
<1>5. FreshOK'
  BY FreshLemma DEF TypeOK
<1>6. RetryOK'
  BY <1>0 DEF RetryOK, ReadOnly, TypeOK
<1>7. CommittedRecordIsWhole'
  BY DEF CommittedRecordIsWhole
<1>8. NoBlindRepeat'
  BY <1>0 DEF NoBlindRepeat, ReadOnly, TypeOK
<1> QED
  BY <1>1, <1>2, <1>3, <1>4, <1>5, <1>6, <1>7, <1>8

LEMMA DispatchStep ==
  ASSUME IInv, NEW s \in Step, Dispatch(s)
  PROVE  IInv'
<1> USE DEF IInv, Dispatch
<1>0. /\ attempt[s] + 1 \in {1, 2}
      /\ Following(s) = <<s, attempt[s] + 1>>
      /\ Following(s) \in Attempt
      /\ db[Following(s)] = NoRow
      /\ loop = NoStep
      /\ attempt[s] + 1 = 2 /\ s \notin ReadOnly =>
           outcome[<<s, 1>>] = "FAILED" \/ <<s, 1>> \in lost
  BY EnteringLemma DEF Dispatch
<1>1. TypeOK'
  BY <1>0, RowTypes DEF TypeOK, PC, Result
<1>2. LockOK'
  <2>1. Current(s)' = Following(s)
    BY DEF Current, Following, TypeOK
  <2>2. \A t \in Step : pc'[t] = "dispatched" => t = s
    <3>1. ASSUME NEW t \in Step, pc[t] = "dispatched"
          PROVE  FALSE
      BY <3>1, DispatchedLemma
    <3> QED
      BY <3>1 DEF TypeOK
  <2> QED
    BY <1>0, <2>1, <2>2, RowTypes DEF LockOK, TypeOK
<1>3. LoopOK'
  BY <1>0, StepAssumption DEF LoopOK
<1>4. AttemptOK'
  BY <1>0 DEF AttemptOK, TypeOK
<1>5. FreshOK'
  BY FreshLemma DEF TypeOK
<1>6. RetryOK'
  BY <1>0 DEF RetryOK, ReadOnly, TypeOK
<1>7. CommittedRecordIsWhole'
  BY DEF CommittedRecordIsWhole
<1>8. NoBlindRepeat'
  BY <1>0 DEF NoBlindRepeat, ReadOnly, TypeOK
<1> QED
  BY <1>1, <1>2, <1>3, <1>4, <1>5, <1>6, <1>7, <1>8

\* The grant of a call without a tool is committed alone, or rolled back.
LEMMA MissToolStep ==
  ASSUME IInv, NEW s \in Step, MissTool(s)
  PROVE  IInv'
<1> DEFINE a == <<s, attempt[s] + 1>>
<1>0. /\ attempt[s] + 1 \in {1, 2}
      /\ Following(s) = a
      /\ a \in Attempt
      /\ db[a] = NoRow
      /\ loop = NoStep
      /\ Entering(s)
      /\ attempt[s] + 1 = 2 /\ s \notin ReadOnly =>
           outcome[<<s, 1>>] = "FAILED" \/ <<s, 1>> \in lost
  BY EnteringLemma DEF MissTool
<1>1. /\ UNCHANGED <<kind, loop, writer, work, requests, live, acted>>
      /\ attempt' = [attempt EXCEPT ![s] = @ + 1]
      /\ outcome' = [outcome EXCEPT ![a] = "FAILED"]
      /\ \/ db' = [db EXCEPT ![a] = Issue] /\ lost' = lost
         \/ lost' = lost \cup {a} /\ db' = db
  BY <1>0 DEF MissTool, Commit, RollBack
<1>2. \/ /\ pc' = [pc EXCEPT ![s] = "auditRetry"]
         /\ result' = result
         /\ attempt[s] + 1 = 1
      \/ pc' = [pc EXCEPT ![s] = "auditUnknown"] /\ result' = result
      \/ pc' = [pc EXCEPT ![s] = "done"] /\ result' = [result EXCEPT ![s] = "failed"]
  BY DEF MissTool, AfterAttempt, AfterFailure, MayRetry
<1>3. TypeOK /\ LockOK /\ LoopOK /\ AttemptOK /\ RetryOK
  BY DEF IInv
<1> HIDE DEF a
<1>4. TypeOK'
  BY <1>0, <1>1, <1>2, <1>3, RowTypes DEF TypeOK, PC, Result, Receipt
<1>5. LockOK'
  BY <1>0, <1>1, <1>2, <1>3 DEF LockOK, Entering, Current, TypeOK
<1>6. LoopOK'
  BY <1>0, <1>1, StepAssumption DEF LoopOK
<1>7. AttemptOK'
  BY <1>0, <1>1, <1>2, <1>3 DEF AttemptOK, TypeOK
<1>8. FreshOK'
  BY <1>0, <1>1, <1>2, <1>3, FreshLemma DEF TypeOK
<1>9. RetryOK'
  <2> SUFFICES ASSUME NEW t \in Step \ ReadOnly, pc'[t] \in {"auditRetry", "retry"}
               PROVE  outcome'[<<t, 1>>] = "FAILED" \/ <<t, 1>> \in lost'
    BY <1>1 DEF RetryOK, ReadOnly
  <2>1. CASE t = s
    <3>1. a = <<t, 1>>
      BY <1>2, <1>3, <2>1 DEF TypeOK, a
    <3> QED
      BY <1>0, <1>1, <1>3, <3>1 DEF TypeOK
  <2>2. CASE t # s
    <3>1. <<t, 1>> # a
      BY <2>2 DEF a
    <3>2. pc[t] \in {"auditRetry", "retry"}
      BY <1>2, <1>3, <2>2 DEF TypeOK
    <3> QED
      BY <1>1, <1>3, <3>1, <3>2 DEF RetryOK, TypeOK
  <2> QED
    BY <2>1, <2>2
<1>10. CommittedRecordIsWhole'
  BY <1>0, <1>1, RowTypes DEF IInv, CommittedRecordIsWhole, NoRow, TypeOK
<1>11. NoBlindRepeat'
  BY <1>0, <1>1, <1>3, AttemptIsPair DEF IInv, NoBlindRepeat, ReadOnly, TypeOK, a
<1> QED
  BY <1>4, <1>5, <1>6, <1>7, <1>8, <1>9, <1>10, <1>11 DEF IInv

-----------------------------------------------------------------------------
(* Steps that end an attempt, and the operator *)

\* A step with side effects is retried after its first attempt only, and only
\* if the tool reported an error or its report was lost.
LEMMA AfterFailureLemma ==
  ASSUME NEW s \in Step, NEW receipt, AfterFailure(s, attempt[s], receipt)
  PROVE  \/ /\ pc' = [pc EXCEPT ![s] = "auditRetry"]
            /\ result' = result
            /\ attempt[s] = 1
            /\ receipt = "UNKNOWN" => s \in ReadOnly
         \/ pc' = [pc EXCEPT ![s] = "auditUnknown"] /\ result' = result
         \/ pc' = [pc EXCEPT ![s] = "done"] /\ result' = [result EXCEPT ![s] = "failed"]
BY DEF AfterFailure, MayRetry

LEMMA FailJournalStep ==
  ASSUME IInv, NEW s \in Step, FailJournal(s)
  PROVE  IInv'
<1>0. /\ Current(s) = <<s, attempt[s]>>
      /\ Current(s) \in Attempt
      /\ loop = NoStep
      /\ \A t \in Step : pc[t] = "dispatched" => t = s
  BY DispatchedLemma DEF FailJournal, LoopRuns
<1>1. /\ UNCHANGED <<kind, attempt, loop, requests, live, acted, outcome, db>>
      /\ lost' = lost \cup {Current(s)}
      /\ writer' = NoAttempt
      /\ work' = NoRow
  BY DEF FailJournal, RollBack, ReleaseLock, toolVars
<1>2. \/ /\ pc' = [pc EXCEPT ![s] = "auditRetry"]
         /\ result' = result
         /\ attempt[s] = 1
      \/ pc' = [pc EXCEPT ![s] = "auditUnknown"] /\ result' = result
      \/ pc' = [pc EXCEPT ![s] = "done"] /\ result' = [result EXCEPT ![s] = "failed"]
      \/ pc' = [pc EXCEPT ![s] = "raised"] /\ result' = result
  BY AfterFailureLemma DEF FailJournal
<1>3. TypeOK /\ AttemptOK /\ FreshOK /\ RetryOK
  BY DEF IInv
<1>4. TypeOK'
  BY <1>0, <1>1, <1>2, <1>3, RowTypes DEF TypeOK, PC, Result
<1>5. LockOK'
  BY <1>0, <1>1, <1>2, <1>3 DEF LockOK, TypeOK
<1>6. LoopOK'
  BY <1>0, <1>1, StepAssumption DEF LoopOK
<1>7. AttemptOK'
  BY <1>1, <1>2, <1>3 DEF AttemptOK, TypeOK
<1>8. FreshOK'
  BY <1>1, <1>2, <1>3 DEF FreshOK, TypeOK
<1>9. RetryOK'
  BY <1>0, <1>1, <1>2, <1>3 DEF RetryOK, ReadOnly, TypeOK
<1>10. CommittedRecordIsWhole'
  BY <1>1 DEF IInv, CommittedRecordIsWhole
<1>11. NoBlindRepeat'
  BY <1>1 DEF IInv, NoBlindRepeat, ReadOnly
<1> QED
  BY <1>4, <1>5, <1>6, <1>7, <1>8, <1>9, <1>10, <1>11 DEF IInv

LEMMA ReturnStep ==
  ASSUME IInv, NEW s \in Step, NEW receipt \in Receipt, Return(s, receipt)
  PROVE  IInv'
<1> DEFINE a == <<s, attempt[s]>>
<1>0. /\ Current(s) = a
      /\ a \in Attempt
      /\ db[a] = NoRow
      /\ work = Dispatched
      /\ loop = NoStep
      /\ attempt[s] \in {1, 2}
      /\ \A t \in Step : pc[t] = "dispatched" => t = s
  BY DispatchedLemma DEF Return, LoopRuns
<1>1. /\ UNCHANGED <<kind, attempt, loop, requests, acted>>
      /\ live' \subseteq live
      /\ receipt = "SUCCEEDED" => acted[a]
      /\ outcome' = [outcome EXCEPT ![a] = receipt]
      /\ writer' = NoAttempt
      /\ work' = NoRow
      /\ \/ db' = [db EXCEPT ![a] = Finalize(Dispatched, receipt)] /\ lost' = lost
         \/ lost' = lost \cup {a} /\ db' = db
  BY <1>0 DEF Return, Report, Commit, RollBack, ReleaseLock
<1>2. \/ /\ pc' = [pc EXCEPT ![s] = "auditRetry"]
         /\ result' = result
         /\ attempt[s] = 1
         /\ s \notin ReadOnly => receipt = "FAILED"
      \/ pc' = [pc EXCEPT ![s] = "auditUnknown"] /\ result' = result
      \/ pc' = [pc EXCEPT ![s] = "done"] /\ result' = [result EXCEPT ![s] = "failed"]
      \/ pc' = [pc EXCEPT ![s] = "done"] /\ result' = [result EXCEPT ![s] = "completed"]
  BY AfterFailureLemma DEF Return, AfterAttempt, Receipt
<1>3. TypeOK /\ AttemptOK /\ FreshOK /\ RetryOK
  BY DEF IInv
<1> DEFINE row == Finalize(Dispatched, receipt)
<1>4. /\ row \in Row
      /\ row.grant = "CONSUMED"
      /\ row.receipt = receipt
      /\ receipt = "SUCCEEDED" => row.effect = "CONFIRMED"
      /\ receipt = "FAILED" => row.effect = "FAILED"
      /\ receipt = "UNKNOWN" => row.effect = "UNKNOWN_OUTCOME"
  BY FinalizeDispatched
<1> HIDE DEF row
<1>5. \A b \in Attempt : b # a => db'[b] = db[b] /\ outcome'[b] = outcome[b]
  BY <1>1, <1>3 DEF TypeOK
<1>6. \/ db'[a] = row /\ outcome'[a] = receipt
      \/ db'[a] = NoRow /\ a \in lost'
  BY <1>0, <1>1, <1>3 DEF TypeOK, row
<1>7. TypeOK'
  BY <1>0, <1>1, <1>2, <1>3, <1>4, RowTypes DEF TypeOK, PC, Result, Receipt, row
<1>8. LockOK'
  BY <1>0, <1>1, <1>2, <1>3 DEF LockOK, TypeOK
<1>9. LoopOK'
  BY <1>0, <1>1, StepAssumption DEF LoopOK
<1>10. AttemptOK'
  BY <1>1, <1>2, <1>3 DEF AttemptOK, TypeOK
<1>11. FreshOK'
  <2>1. ASSUME NEW t \in Step, NEW n \in {1, 2}, n > attempt[t]
        PROVE  <<t, n>> \in Attempt /\ <<t, n>> # a
    BY <1>0, <2>1 DEF Attempt
  <2>2. \A t \in Step : pc'[t] # "dispatched"
    BY <1>0, <1>2, <1>3 DEF TypeOK
  <2> QED
    BY <1>1, <1>3, <1>5, <2>1, <2>2 DEF FreshOK
<1>12. RetryOK'
  <2> SUFFICES ASSUME NEW t \in Step \ ReadOnly, pc'[t] \in {"auditRetry", "retry"}
               PROVE  outcome'[<<t, 1>>] = "FAILED" \/ <<t, 1>> \in lost'
    BY <1>1 DEF RetryOK, ReadOnly
  <2>1. CASE t = s
    <3>1. a = <<t, 1>> /\ receipt = "FAILED"
      BY <1>2, <1>3, <2>1 DEF TypeOK
    <3> QED
      BY <1>0, <1>1, <1>3, <3>1 DEF TypeOK
  <2>2. CASE t # s
    <3>1. <<t, 1>> # a /\ <<t, 1>> \in Attempt
      BY <2>2 DEF Attempt
    <3>2. pc[t] \in {"auditRetry", "retry"}
      BY <1>2, <1>3, <2>2 DEF TypeOK
    <3> QED
      BY <1>1, <1>3, <1>5, <3>1, <3>2 DEF RetryOK
  <2> QED
    BY <2>1, <2>2
<1>13. CommittedRecordIsWhole'
  <2>1. CASE db'[a] = row /\ outcome'[a] = receipt
    BY <1>0, <1>1, <1>4, <1>5, <2>1 DEF IInv, CommittedRecordIsWhole, Receipt
  <2>2. CASE db'[a] = NoRow
    BY <1>0, <1>1, <1>5, <2>2 DEF IInv, CommittedRecordIsWhole, NoRow
  <2> QED
    BY <1>6, <2>1, <2>2
<1>14. NoBlindRepeat'
  <2> SUFFICES ASSUME NEW t \in Step \ ReadOnly, attempt[t] = 2
               PROVE  outcome'[<<t, 1>>] = "FAILED" \/ <<t, 1>> \in lost'
    BY <1>1 DEF NoBlindRepeat, ReadOnly
  <2>1. <<t, 1>> # a /\ <<t, 1>> \in Attempt
    BY DEF Attempt
  <2> QED
    BY <1>1, <1>5, <2>1 DEF IInv, NoBlindRepeat
<1> QED
  BY <1>7, <1>8, <1>9, <1>10, <1>11, <1>12, <1>13, <1>14 DEF IInv

LEMMA ReconcileStep ==
  ASSUME IInv, NEW a \in Attempt, NEW status \in {"CONFIRMED", "FAILED"},
         Reconcile(a, status)
  PROVE  IInv'
<1> DEFINE row == [db[a] EXCEPT !.effect = status]
<1>0. /\ UNCHANGED <<stepVars, loop, writer, work, requests, toolVars, lost>>
      /\ db' = [db EXCEPT ![a] = row]
      /\ db[a].effect = "UNKNOWN_OUTCOME"
      /\ writer = NoAttempt
  BY DEF Reconcile, Unknown, LockFree
<1>1. TypeOK /\ LockOK /\ AttemptOK /\ FreshOK /\ CommittedRecordIsWhole
  BY DEF IInv
<1>2. /\ row \in Row
      /\ row.effect = status
      /\ row.grant = db[a].grant
      /\ row.receipt = db[a].receipt
  BY <1>1 DEF TypeOK, Row, EffectStatus
<1>3. db[a].receipt = "UNKNOWN"
  BY <1>0, <1>1 DEF TypeOK, Row, Receipt, CommittedRecordIsWhole
<1> HIDE DEF row
<1>4. TypeOK'
  BY <1>0, <1>1, <1>2 DEF TypeOK, stepVars, toolVars
<1>5. LockOK' /\ LoopOK' /\ AttemptOK' /\ RetryOK' /\ NoBlindRepeat'
  BY <1>0 DEF IInv, LockOK, LoopOK, AttemptOK, RetryOK, NoBlindRepeat, ReadOnly,
              Current, stepVars, toolVars
<1>6. FreshOK'
  <2>1. db[a] # NoRow
    BY <1>0 DEF NoRow
  <2>2. \A b \in Attempt : db[b] = NoRow => db'[b] = NoRow
    BY <1>0, <1>1, <2>1 DEF TypeOK
  <2>3. \A s \in Step : \A n \in {1, 2} : <<s, n>> \in Attempt
    BY DEF Attempt
  <2> QED
    BY <1>0, <1>1, <2>2, <2>3 DEF FreshOK, AttemptOK, stepVars
<1>7. CommittedRecordIsWhole'
  BY <1>0, <1>1, <1>2, <1>3 DEF CommittedRecordIsWhole, TypeOK, toolVars
<1> QED
  BY <1>4, <1>5, <1>6, <1>7 DEF IInv

-----------------------------------------------------------------------------
(* The theorems *)

\* Every action keeps the inductive invariant.
LEMMA NextIInv == IInv /\ [Next]_vars => IInv'
<1> SUFFICES ASSUME IInv, [Next]_vars PROVE IInv'
  OBVIOUS
<1>1. ASSUME NEW s \in Step, Enter(s) PROVE IInv'
  BY <1>1, RejectStep, SuspendStep, MissToolStep, DispatchStep, BlockOnLockStep DEF Enter
<1>2. ASSUME NEW s \in Step, Finish(s) PROVE IInv'
  BY <1>2, FailJournalStep, ReturnStep DEF Finish
<1>3. ASSUME NEW s \in Step, Audit(s) \/ FailAudit(s) PROVE IInv'
  BY <1>3, AuditStep, FailAuditStep
<1>4. ASSUME NEW a \in Attempt, Act(a) PROVE IInv'
  BY <1>4, ActStep
<1>5. ASSUME NEW a \in Attempt, NEW status \in {"CONFIRMED", "FAILED"},
             Reconcile(a, status)
      PROVE  IInv'
  BY <1>5, ReconcileStep
<1>6. CASE BusyTimeout \/ BlockReconcile \/ Crash \/ UNCHANGED vars
  BY <1>6, BusyTimeoutStep, BlockReconcileStep, CrashStep, StutterStep
<1> QED
  BY <1>1, <1>2, <1>3, <1>4, <1>5, <1>6 DEF Next

LEMMA IInvAlways == Spec => []IInv
BY InitIInv, NextIInv, PTL DEF Spec

\* The rows, the coroutines and the lock keep their types.
THEOREM TypeCorrect == Spec => []TypeOK
<1>1. IInv => TypeOK
  BY DEF IInv
<1> QED
  BY <1>1, IInvAlways, PTL

\* No session ever reads half a record of an attempt, or a success that did not
\* happen.
THEOREM RecordsAreWhole == Spec => []CommittedRecordIsWhole
<1>1. IInv => CommittedRecordIsWhole
  BY DEF IInv
<1> QED
  BY <1>1, IInvAlways, PTL

\* The executor repeats a call with side effects only after a reported error, or
\* after its journal lost the report.
THEOREM RepeatsAreSafe == Spec => []NoBlindRepeat
<1>1. IInv => NoBlindRepeat
  BY DEF IInv
<1> QED
  BY <1>1, IInvAlways, PTL

\* A step that commits an attempt's rows is a Record of the ledger or leaves it.
LEMMA CommitLedger ==
  ASSUME IInv, NEW a \in Attempt, NEW row \in Row, db[a] = NoRow,
         db' = [db EXCEPT ![a] = row], acted' = acted,
         row.effect \in {"none", "CONFIRMED", "FAILED", "UNKNOWN_OUTCOME"},
         row.effect = "CONFIRMED" => acted[a]
  PROVE  [Ledger!LedgerNext]_Ledger!ledgerVars
<1> DEFINE old == [b \in Attempt |-> db[b].effect]
           new == [b \in Attempt |-> db'[b].effect]
<1>1. db \in [Attempt -> Row]
  BY DEF IInv, TypeOK
<1>2. new = [old EXCEPT ![a] = row.effect] /\ old[a] = "none"
  <2>1. old[a] = "none"
    BY DEF NoRow
  <2>2. \A b \in Attempt : db'[b] = IF b = a THEN row ELSE db[b]
    BY <1>1
  <2>3. [old EXCEPT ![a] = row.effect] =
          [b \in Attempt |-> IF b = a THEN row.effect ELSE old[b]]
    OBVIOUS
  <2>4. new = [b \in Attempt |-> IF b = a THEN row.effect ELSE old[b]]
    BY <2>2
  <2> QED
    BY <2>1, <2>3, <2>4
<1>3. CASE row.effect = "none"
  <2>1. new = old
    BY <1>2, <1>3
  <2> QED
    BY <2>1 DEF Ledger!ledgerVars
<1>4. CASE row.effect # "none"
  <2>1. row.effect \in Ledger!LedgerStatus \ {"none"}
    BY <1>4 DEF Ledger!LedgerStatus, Ledger!Final
  <2>2. Ledger!Record(a, row.effect)
    BY <1>2 DEF Ledger!Record
  <2> QED
    BY <2>1, <2>2 DEF Ledger!LedgerNext
<1> QED
  BY <1>3, <1>4

\* What a step may do to what the ledger shows of the tables.
LEMMA QuietLedger ==
  ASSUME db' = db, acted' = acted
  PROVE  [Ledger!LedgerNext]_Ledger!ledgerVars
BY DEF Ledger!ledgerVars

LEMMA ActLedger ==
  ASSUME NEW a \in Attempt, Act(a)
  PROVE  [Ledger!LedgerNext]_Ledger!ledgerVars
<1>1. Ledger!Act(a)
  BY DEF Act, Ledger!Act, dbVars, toolVars
<1> QED
  BY <1>1 DEF Ledger!LedgerNext

\* The operator's reconcile is a Settle.
LEMMA ReconcileLedger ==
  ASSUME IInv, NEW a \in Attempt, NEW status \in {"CONFIRMED", "FAILED"},
         Reconcile(a, status)
  PROVE  [Ledger!LedgerNext]_Ledger!ledgerVars
<1> DEFINE old == [b \in Attempt |-> db[b].effect]
           new == [b \in Attempt |-> db'[b].effect]
<1>1. db \in [Attempt -> Row]
  BY DEF IInv, TypeOK
<1>2. /\ old[a] = "UNKNOWN_OUTCOME"
      /\ db' = [db EXCEPT ![a] = [db[a] EXCEPT !.effect = status]]
      /\ acted' = acted
  BY DEF Reconcile, Unknown, toolVars
<1>3. new = [old EXCEPT ![a] = status]
  <2>1. [db[a] EXCEPT !.effect = status].effect = status
    BY <1>1 DEF Row
  <2>2. \A b \in Attempt : db'[b].effect = IF b = a THEN status ELSE db[b].effect
    BY <1>1, <1>2, <2>1
  <2>3. [old EXCEPT ![a] = status] =
          [b \in Attempt |-> IF b = a THEN status ELSE old[b]]
    OBVIOUS
  <2>4. new = [b \in Attempt |-> IF b = a THEN status ELSE old[b]]
    BY <2>2
  <2> QED
    BY <2>3, <2>4
<1>4. Ledger!Settle(a, status)
  BY <1>2, <1>3 DEF Ledger!Settle, Ledger!Final
<1> QED
  BY <1>4 DEF Ledger!LedgerNext, Ledger!LedgerStatus, Ledger!Final

\* Ending an attempt is a Record, if it commits.
LEMMA ReturnLedger ==
  ASSUME IInv, NEW s \in Step, NEW receipt \in Receipt, Return(s, receipt)
  PROVE  [Ledger!LedgerNext]_Ledger!ledgerVars
<1> DEFINE row == Finalize(Dispatched, receipt)
<1>1. Current(s) \in Attempt /\ db[Current(s)] = NoRow /\ work = Dispatched
  BY DispatchedLemma DEF Return
<1>2. /\ acted' = acted
      /\ receipt = "SUCCEEDED" => acted[Current(s)]
      /\ db' = [db EXCEPT ![Current(s)] = row] \/ db' = db
  BY <1>1 DEF Return, Report, Commit, RollBack
<1>3. /\ row \in Row
      /\ row.effect \in {"CONFIRMED", "FAILED", "UNKNOWN_OUTCOME"}
      /\ row.effect = "CONFIRMED" => receipt = "SUCCEEDED"
  BY FinalizeDispatched DEF Receipt
<1> HIDE DEF row
<1> QED
  BY <1>1, <1>2, <1>3, CommitLedger, QuietLedger

LEMMA MissToolLedger ==
  ASSUME IInv, NEW s \in Step, MissTool(s)
  PROVE  [Ledger!LedgerNext]_Ledger!ledgerVars
<1>1. Following(s) \in Attempt /\ db[Following(s)] = NoRow
  BY EnteringLemma DEF MissTool
<1>2. acted' = acted /\ (db' = [db EXCEPT ![Following(s)] = Issue] \/ db' = db)
  BY DEF MissTool, Commit, RollBack
<1>3. Issue \in Row /\ Issue.effect = "none"
  BY RowTypes
<1> QED
  BY <1>1, <1>2, <1>3, CommitLedger, QuietLedger

LEMMA NextLedger ==
  ASSUME IInv, [Next]_vars
  PROVE  [Ledger!LedgerNext]_Ledger!ledgerVars
<1>1. ASSUME NEW s \in Step, Enter(s)
      PROVE  [Ledger!LedgerNext]_Ledger!ledgerVars
  <2>1. CASE Reject(s) \/ Suspend(s) \/ Dispatch(s) \/ BlockOnLock(s)
    BY <2>1, QuietLedger DEF Reject, Suspend, Dispatch, BlockOnLock, dbVars, toolVars
  <2> QED
    BY <1>1, <2>1, MissToolLedger DEF Enter
<1>2. ASSUME NEW s \in Step, Finish(s)
      PROVE  [Ledger!LedgerNext]_Ledger!ledgerVars
  <2>1. CASE FailJournal(s)
    BY <2>1, QuietLedger DEF FailJournal, RollBack, toolVars
  <2> QED
    BY <1>2, <2>1, ReturnLedger DEF Finish
<1>3. ASSUME NEW s \in Step, Audit(s) \/ FailAudit(s)
      PROVE  [Ledger!LedgerNext]_Ledger!ledgerVars
  BY <1>3, QuietLedger DEF Audit, FailAudit, dbVars, toolVars
<1>4. CASE BusyTimeout \/ BlockReconcile \/ Crash \/ UNCHANGED vars
  BY <1>4, QuietLedger
     DEF BusyTimeout, BlockReconcile, Crash, vars, stepVars, dbVars, toolVars
<1> QED
  BY <1>1, <1>2, <1>3, <1>4, ActLedger, ReconcileLedger DEF Next

\* The committed tables implement the effect protocol: the initial tables are an
\* empty ledger, and every step is a step of it or none.
THEOREM TablesImplementLedger == Spec => ImplementsLedger
<1>1. Init => Ledger!LedgerInit
  BY DEF Init, Ledger!LedgerInit, NoRow
<1>2. IInv /\ [Next]_vars => [Ledger!LedgerNext]_Ledger!ledgerVars
  BY NextLedger
<1> QED
  BY <1>1, <1>2, IInvAlways, PTL DEF Spec, ImplementsLedger, Ledger!LedgerSpec

-----------------------------------------------------------------------------
(* What the executor goes on with is what the tables say *)

\* A step has a result, and its request counts, only once it is done; what a
\* step that gives up on an unknown outcome has committed is no success.
ResultOf(s) ==
  /\ pc[s] # "done" => result[s] = "none" /\ s \notin requests
  /\ pc[s] \in {"done", "auditUnknown"} => attempt[s] \in {1, 2}
  /\ pc[s] = "auditUnknown" => db[Current(s)].receipt # "SUCCEEDED"
  /\ pc[s] = "done" /\ Current(s) \notin lost =>
       /\ result[s] = "completed" <=> db[Current(s)].receipt = "SUCCEEDED"
       /\ result[s] = "awaiting_approval" <=> s \in requests

ResultOK == \A s \in Step : ResultOf(s)

\* Another attempt's step leaves the result of t alone.
LEMMA OtherResult ==
  ASSUME IInv, ResultOK, NEW t \in Step,
         attempt'[t] = attempt[t], result'[t] = result[t],
         pc'[t] = pc[t] \/ (pc[t] # "done" /\ pc'[t] \notin {"done", "auditUnknown"}),
         t \in requests' <=> t \in requests, lost \subseteq lost',
         \A n \in {1, 2} : db'[<<t, n>>].receipt = db[<<t, n>>].receipt
  PROVE  ResultOf(t)'
<1>1. ResultOf(t)
  BY DEF ResultOK
<1>2. Current(t)' = Current(t) /\ Current(t) = <<t, attempt[t]>>
  BY DEF Current
<1>3. pc'[t] \in {"done", "auditUnknown"} =>
        attempt[t] \in {1, 2} /\ db'[Current(t)].receipt = db[Current(t)].receipt
  BY <1>1, <1>2 DEF ResultOf
<1> QED
  BY <1>1, <1>2, <1>3 DEF ResultOf

\* An attempt that ends in a report commits its receipt, or is lost.
LEMMA ReturnResult ==
  ASSUME IInv, ResultOK, NEW s \in Step, NEW receipt \in Receipt, Return(s, receipt)
  PROVE  ResultOK'
<1> DEFINE row == Finalize(Dispatched, receipt)
<1>1. /\ Current(s) = <<s, attempt[s]>> /\ Current(s) \in Attempt
      /\ db[Current(s)] = NoRow /\ work = Dispatched /\ attempt[s] \in {1, 2}
  BY DispatchedLemma DEF Return
<1>2. row.receipt = receipt
  BY FinalizeDispatched
<1>3. /\ UNCHANGED <<attempt, requests>>
      /\ \/ db' = [db EXCEPT ![Current(s)] = row] /\ lost' = lost
         \/ lost' = lost \cup {Current(s)} /\ db' = db
  BY <1>1 DEF Return, Commit, RollBack
<1>4. \/ /\ receipt # "SUCCEEDED"
         /\ \/ pc' = [pc EXCEPT ![s] = "auditRetry"] /\ result' = result
            \/ pc' = [pc EXCEPT ![s] = "auditUnknown"] /\ result' = result
            \/ pc' = [pc EXCEPT ![s] = "done"] /\ result' = [result EXCEPT ![s] = "failed"]
      \/ /\ receipt = "SUCCEEDED"
         /\ pc' = [pc EXCEPT ![s] = "done"]
         /\ result' = [result EXCEPT ![s] = "completed"]
  BY AfterFailureLemma DEF Return, AfterAttempt
<1> HIDE DEF row
<1>5. pc[s] = "dispatched" /\ s \notin requests /\ result[s] = "none"
  BY DEF Return, ResultOK, ResultOf
<1>6. TypeOK
  BY DEF IInv
<1>7. ResultOf(s)'
  <2>1. Current(s)' = Current(s)
    BY <1>3 DEF Current
  <2>2. db'[Current(s)].receipt = receipt \/ (db'[Current(s)] = NoRow /\ Current(s) \in lost')
    BY <1>1, <1>2, <1>3, <1>6 DEF TypeOK
  <2> QED
    BY <1>1, <1>3, <1>4, <1>5, <1>6, <2>1, <2>2 DEF ResultOf, NoRow, TypeOK
<1>8. ASSUME NEW t \in Step, t # s
      PROVE  ResultOf(t)'
  <2>1. \A n \in {1, 2} : <<t, n>> \in Attempt /\ <<t, n>> # Current(s)
    BY <1>1, <1>8 DEF Attempt
  <2>2. \A n \in {1, 2} : db'[<<t, n>>] = db[<<t, n>>]
    BY <1>3, <1>6, <2>1 DEF TypeOK
  <2>3. pc'[t] = pc[t] /\ result'[t] = result[t]
    BY <1>4, <1>6, <1>8 DEF TypeOK
  <2> QED
    BY <1>3, <2>2, <2>3, OtherResult
<1> QED
  BY <1>7, <1>8 DEF ResultOK

\* A report the journal could not write is lost with its transaction.
LEMMA FailJournalResult ==
  ASSUME IInv, ResultOK, NEW s \in Step, FailJournal(s)
  PROVE  ResultOK'
<1>1. /\ Current(s) = <<s, attempt[s]>> /\ Current(s) \in Attempt
      /\ db[Current(s)] = NoRow /\ attempt[s] \in {1, 2}
  BY DispatchedLemma DEF FailJournal
<1>2. UNCHANGED <<attempt, requests, db>> /\ lost' = lost \cup {Current(s)}
  BY DEF FailJournal, RollBack, toolVars
<1>3. \/ pc' = [pc EXCEPT ![s] = "auditRetry"] /\ result' = result
      \/ pc' = [pc EXCEPT ![s] = "auditUnknown"] /\ result' = result
      \/ pc' = [pc EXCEPT ![s] = "done"] /\ result' = [result EXCEPT ![s] = "failed"]
      \/ pc' = [pc EXCEPT ![s] = "raised"] /\ result' = result
  BY AfterFailureLemma DEF FailJournal
<1>4. pc[s] = "dispatched" /\ s \notin requests /\ result[s] = "none"
  BY DEF FailJournal, ResultOK, ResultOf
<1>5. TypeOK
  BY DEF IInv
<1>6. ResultOf(s)'
  <2>1. Current(s)' = Current(s)
    BY <1>2 DEF Current
  <2> QED
    BY <1>1, <1>2, <1>3, <1>4, <1>5, <2>1 DEF ResultOf, NoRow, TypeOK
<1>7. ASSUME NEW t \in Step, t # s
      PROVE  ResultOf(t)'
  BY <1>2, <1>3, <1>5, <1>7, OtherResult DEF TypeOK
<1> QED
  BY <1>6, <1>7 DEF ResultOK

\* The ends of a step that runs no tool, and the beginning of an attempt.
LEMMA EnterResult ==
  ASSUME IInv, ResultOK, NEW s \in Step, Enter(s)
  PROVE  ResultOK'
<1>1. CASE BlockOnLock(s)
  BY <1>1, OtherResult DEF BlockOnLock, stepVars, dbVars, ResultOK
<1>2. CASE ~BlockOnLock(s)
  <2>0. Entering(s)
    BY <1>2 DEF Enter, Reject, Suspend, MissTool, Dispatch
  <2>1. /\ attempt[s] + 1 \in {1, 2} /\ Following(s) = <<s, attempt[s] + 1>>
        /\ Following(s) \in Attempt /\ db[Following(s)] = NoRow
    BY <2>0, EnteringLemma
  <2>2. pc[s] \in {"idle", "retry"} /\ s \notin requests /\ result[s] = "none" /\ TypeOK
    BY <2>0 DEF Entering, ResultOK, ResultOf, IInv
  <2>3. /\ attempt' = [attempt EXCEPT ![s] = attempt[s] + 1]
        /\ lost \subseteq lost'
        /\ db' = db \/ db' = [db EXCEPT ![Following(s)] = Issue]
        /\ \/ /\ pc' = [pc EXCEPT ![s] = "done"] /\ UNCHANGED requests
              /\ \E r \in {"rejected", "failed"} : result' = [result EXCEPT ![s] = r]
           \/ /\ pc' = [pc EXCEPT ![s] = "done"]
              /\ result' = [result EXCEPT ![s] = "awaiting_approval"]
              /\ \/ requests' = requests \cup {s}
                 \/ requests' = requests /\ lost' = lost \cup {Following(s)}
           \/ /\ \E c \in {"dispatched", "auditRetry", "auditUnknown"} :
                   pc' = [pc EXCEPT ![s] = c]
              /\ UNCHANGED <<requests, result>>
    <3>1. CASE Reject(s)
      BY <3>1 DEF Reject, dbVars
    <3>2. CASE Suspend(s)
      BY <3>2 DEF Suspend
    <3>3. CASE MissTool(s)
      BY <3>3 DEF MissTool, Commit, RollBack, AfterAttempt, AfterFailure
    <3>4. CASE Dispatch(s)
      BY <3>4 DEF Dispatch
    <3> QED
      BY <1>2, <3>1, <3>2, <3>3, <3>4 DEF Enter
  <2>4. ResultOf(s)'
    <3>1. Current(s)' = Following(s) /\ attempt'[s] \in {1, 2}
      BY <2>1, <2>2, <2>3 DEF Current, TypeOK
    <3>2. db'[Following(s)].receipt = "none"
      BY <2>1, <2>2, <2>3, RowTypes DEF TypeOK, NoRow
    <3> QED
      BY <2>2, <2>3, <3>1, <3>2 DEF ResultOf, TypeOK
  <2>5. ASSUME NEW t \in Step, t # s
        PROVE  ResultOf(t)'
    <3>1. \A n \in {1, 2} : <<t, n>> \in Attempt /\ <<t, n>> # Following(s)
      BY <2>1, <2>5 DEF Attempt
    <3>2. \A n \in {1, 2} : db'[<<t, n>>] = db[<<t, n>>]
      BY <2>2, <2>3, <3>1 DEF TypeOK
    <3> QED
      BY <2>2, <2>3, <2>5, <3>2, OtherResult DEF TypeOK
  <2> QED
    BY <2>4, <2>5 DEF ResultOK
<1> QED
  BY <1>1, <1>2

\* The audit rows: giving up on an unknown outcome.
LEMMA AuditResult ==
  ASSUME IInv, ResultOK, NEW s \in Step, Audit(s) \/ FailAudit(s)
  PROVE  ResultOK'
<1>1. UNCHANGED <<attempt, requests, db, lost>> /\ TypeOK
  BY DEF Audit, FailAudit, dbVars, IInv
<1>2. \/ pc' = [pc EXCEPT ![s] = "retry"] /\ result' = result
      \/ pc' = [pc EXCEPT ![s] = "raised"] /\ result' = result
      \/ /\ pc[s] = "auditUnknown" /\ pc' = [pc EXCEPT ![s] = "done"]
         /\ result' = [result EXCEPT ![s] = "failed"]
  BY DEF Audit, FailAudit
<1>3. pc[s] \in {"auditRetry", "auditUnknown"} /\ ResultOf(s)
  BY DEF Audit, FailAudit, ResultOK
<1>4. ResultOf(s)'
  BY <1>1, <1>2, <1>3 DEF ResultOf, Current, TypeOK
<1>5. ASSUME NEW t \in Step, t # s
      PROVE  ResultOf(t)'
  BY <1>1, <1>2, <1>5, OtherResult DEF TypeOK
<1> QED
  BY <1>4, <1>5 DEF ResultOK

\* An operator's verdict changes no receipt.
LEMMA ReconcileResult ==
  ASSUME IInv, ResultOK, NEW a \in Attempt, NEW status \in {"CONFIRMED", "FAILED"},
         Reconcile(a, status)
  PROVE  ResultOK'
<1>1. /\ UNCHANGED <<pc, attempt, result, requests, lost>>
      /\ db' = [db EXCEPT ![a] = [db[a] EXCEPT !.effect = status]]
  BY DEF Reconcile, stepVars
<1>2. db \in [Attempt -> Row] /\ [db[a] EXCEPT !.effect = status].receipt = db[a].receipt
  BY DEF IInv, TypeOK, Row
<1>3. \A b \in Attempt : db'[b].receipt = db[b].receipt
  BY <1>1, <1>2
<1>4. \A t \in Step, n \in {1, 2} : <<t, n>> \in Attempt
  BY DEF Attempt
<1> QED
  BY <1>1, <1>3, <1>4, OtherResult DEF ResultOK

LEMMA NextResult == IInv /\ ResultOK /\ [Next]_vars => ResultOK'
<1> SUFFICES ASSUME IInv, ResultOK, [Next]_vars PROVE ResultOK'
  OBVIOUS
<1>1. ASSUME NEW a \in Attempt, Act(a) PROVE ResultOK'
  BY <1>1, OtherResult DEF Act, stepVars, dbVars, ResultOK
<1>2. CASE BlockReconcile \/ UNCHANGED vars
  BY <1>2, OtherResult DEF BlockReconcile, vars, stepVars, dbVars, ResultOK
<1>3. CASE BusyTimeout
  BY <1>3, OtherResult DEF BusyTimeout, dbVars, ResultOK, IInv, LoopOK
<1>4. CASE Crash
  <2>1. UNCHANGED <<attempt, result, requests, db>> /\ lost \subseteq lost'
    BY <1>4 DEF Crash
  <2>2. \A t \in Step : pc'[t] = pc[t] \/ (pc[t] # "done" /\ pc'[t] = "killed")
    BY <1>4 DEF Crash, Ended
  <2> QED
    BY <2>1, <2>2, OtherResult DEF ResultOK
<1>5. ASSUME NEW s \in Step, Finish(s) PROVE ResultOK'
  BY <1>5, ReturnResult, FailJournalResult DEF Finish
<1> QED
  BY <1>1, <1>2, <1>3, <1>4, <1>5, EnterResult, AuditResult, ReconcileResult DEF Next

\* A step counts as completed exactly if its last attempt has a receipt of
\* success, and is suspended only on a request in the table, unless a commit
\* was swallowed.
THEOREM ResultsAreTrue == Spec => []ResultMatchesRecord
<1>1. Init => ResultOK
  BY DEF Init, ResultOK, ResultOf
<1>2. ResultOK => ResultMatchesRecord
  BY DEF ResultOK, ResultOf, ResultMatchesRecord
<1> QED
  BY <1>1, <1>2, IInvAlways, NextResult, PTL DEF Spec
=============================================================================
