------------------------ MODULE TaskLifecycle_proofs ------------------------
(***************************************************************************)
(* No run without its approval, for any plan, any requests under way and   *)
(* any retries and restarts; and, for a plan with one step to approve, no  *)
(* second run of a step.                                                   *)
(*                                                                         *)
(* The inductive invariant of the first says that a request works on a row *)
(* that exists and on a plan step of the plan (PlaceOK), that the row of a *)
(* step which is about to be entered is new and its own (EnterOK), and     *)
(* that a resume that claims the task works on an approved row (ClaimOK).  *)
(***************************************************************************)
EXTENDS TaskLifecycle, SequenceTheorems, TLAPS

\* Where a request has a row of its own or of the step it resumes.
OnRow == {"enter", "mark", "park", "parkCas", "parkSet", "running", "record",
          "load", "loadTask", "claim", "claimed", "refuse"}

PlaceOK ==
  \A p \in Proc :
    /\ proc[p].row \in 0..Len(rows)
    /\ proc[p].pc \in OnRow => proc[p].row \in 1..Len(rows)
    /\ proc[p].pc \in {"enter", "running", "record"} => proc[p].order <= PlanSize

EnterOK ==
  \A p \in Proc :
    At(p, "enter") =>
      /\ Row(p).runs = 0 /\ Row(p).request = "none"
      /\ \A q \in Proc : q # p => proc[q].row # proc[p].row

ClaimOK ==
  \A p \in Proc : proc[p].pc \in {"claim", "claimed"} => Row(p).request = "APPROVED"

IInv == TypeOK /\ PlaceOK /\ EnterOK /\ ClaimOK /\ RunsAreApproved

-----------------------------------------------------------------------------
\* The table as a function: how its rows are typed.
LEMMA Table ==
  ASSUME rows \in Seq(StepRow)
  PROVE  /\ Len(rows) \in Nat
         /\ DOMAIN rows = 1..Len(rows)
         /\ rows \in [1..Len(rows) -> StepRow]
         /\ \A i \in DOMAIN rows : rows[i] \in StepRow
BY LenProperties

\* A rewritten row of the same type leaves a table.
LEMMA RewriteRow ==
  ASSUME rows \in Seq(StepRow), NEW i \in DOMAIN rows, NEW row \in StepRow,
         rows' = [rows EXCEPT ![i] = row]
  PROVE  /\ rows' \in Seq(StepRow)
         /\ Len(rows') = Len(rows)
         /\ DOMAIN rows' = DOMAIN rows
         /\ rows'[i] = row
         /\ \A j \in DOMAIN rows : j # i => rows'[j] = rows[j]
<1>1. i \in 1..Len(rows) /\ DOMAIN rows = 1..Len(rows)
  BY Table
<1>2. rows' \in Seq(StepRow) /\ Len(rows') = Len(rows)
  BY <1>1, ExceptSeq
<1> QED
  BY <1>1, <1>2, LenProperties

\* So does an appended one.
LEMMA AppendRow ==
  ASSUME rows \in Seq(StepRow), NEW row \in StepRow, rows' = Append(rows, row)
  PROVE  /\ rows' \in Seq(StepRow)
         /\ Len(rows') = Len(rows) + 1
         /\ Len(rows) \in Nat
         /\ DOMAIN rows = 1..Len(rows)
         /\ DOMAIN rows' = 1..(Len(rows) + 1)
         /\ rows'[Len(rows) + 1] = row
         /\ \A j \in DOMAIN rows : rows'[j] = rows[j]
BY AppendProperties, LenProperties

\* What IInv says of one request once it is in the state new, given the table t.
Placed(new, t) ==
  /\ new \in Process
  /\ new.row \in 0..Len(t)
  /\ new.pc \in OnRow => new.row \in 1..Len(t)
  /\ new.pc \in {"enter", "running", "record"} => new.order <= PlanSize
  /\ new.pc \in {"claim", "claimed"} => t[new.row].request = "APPROVED"

\* What every step does to the rest of the state.
CountersOK == status' \in TaskStatus /\ retries' \in 0..MaxRetries /\ crashes' \in 0..MaxCrashes

-----------------------------------------------------------------------------
\* A step of one request that leaves the rows alone and enters no step.
LEMMA QuietStep ==
  ASSUME IInv, CountersOK, UNCHANGED rows,
         NEW p \in Proc, NEW new, proc' = [proc EXCEPT ![p] = new],
         Placed(new, rows), new.pc # "enter",
         new.row \in {0, proc[p].row} \/ (new.row \in DOMAIN rows /\ rows[new.row].request # "none")
  PROVE  IInv'
<1> USE DEF IInv, CountersOK, Placed
<1>0. /\ proc \in [Proc -> Process]
      /\ proc'[p] = new
      /\ \A q \in Proc : q # p => proc'[q] = proc[q]
      /\ rows \in Seq(StepRow) /\ Len(rows) \in Nat
  BY Table DEF TypeOK
<1>1. TypeOK'
  BY <1>0 DEF TypeOK
<1>2. PlaceOK'
  BY <1>0 DEF PlaceOK, OnRow
<1>3. EnterOK'
  BY <1>0 DEF EnterOK, At, Row, PlaceOK, OnRow
<1>4. ClaimOK'
  BY <1>0 DEF ClaimOK, Row
<1>5. RunsAreApproved'
  BY DEF RunsAreApproved
<1> QED
  BY <1>1, <1>2, <1>3, <1>4, <1>5

\* A step of one request that rewrites a row which no request is about to enter,
\* save the acting one.
LEMMA RewriteStep ==
  ASSUME IInv, CountersOK,
         NEW p \in Proc, NEW new, proc' = [proc EXCEPT ![p] = new],
         NEW i \in DOMAIN rows, NEW row \in StepRow, rows' = [rows EXCEPT ![i] = row],
         Placed(new, rows'), new.pc # "enter", new.row \in {0, i},
         row.order = rows[i].order,
         rows[i].request = "APPROVED" => row.request = "APPROVED",
         row.runs > 0 /\ row.order \in Risky => row.request = "APPROVED",
         proc[p].row = i \/ rows[i].request # "none"
  PROVE  IInv'
<1> USE DEF IInv, CountersOK, Placed
<1>0. /\ proc \in [Proc -> Process]
      /\ proc'[p] = new
      /\ \A q \in Proc : q # p => proc'[q] = proc[q]
      /\ rows \in Seq(StepRow) /\ Len(rows) \in Nat /\ DOMAIN rows = 1..Len(rows)
  BY Table DEF TypeOK
<1>r. /\ rows' \in Seq(StepRow)
      /\ Len(rows') = Len(rows)
      /\ DOMAIN rows' = DOMAIN rows
      /\ rows'[i] = row
      /\ \A j \in DOMAIN rows : j # i => rows'[j] = rows[j]
  BY <1>0, RewriteRow
<1>1. TypeOK'
  BY <1>0, <1>r DEF TypeOK
<1>2. PlaceOK'
  BY <1>0, <1>r DEF PlaceOK, OnRow
<1>3. EnterOK'
  <2> SUFFICES ASSUME NEW q \in Proc, proc'[q].pc = "enter"
               PROVE  /\ rows'[proc'[q].row].runs = 0
                      /\ rows'[proc'[q].row].request = "none"
                      /\ \A r \in Proc : r # q => proc'[r].row # proc'[q].row
    BY DEF EnterOK, At, Row
  <2>1. q # p /\ proc'[q] = proc[q]
    BY <1>0
  <2>2. /\ proc[q].row \in DOMAIN rows
        /\ rows[proc[q].row].runs = 0 /\ rows[proc[q].row].request = "none"
        /\ \A r \in Proc : r # q => proc[r].row # proc[q].row
    BY <2>1, <1>0 DEF EnterOK, At, Row, PlaceOK, OnRow
  <2>3. proc[q].row # i
    BY <2>1, <2>2
  <2> QED
    BY <1>0, <1>r, <2>1, <2>2, <2>3
<1>4. ClaimOK'
  <2> SUFFICES ASSUME NEW q \in Proc, proc'[q].pc \in {"claim", "claimed"}
               PROVE  rows'[proc'[q].row].request = "APPROVED"
    BY DEF ClaimOK, Row
  <2>1. CASE q = p
    BY <2>1, <1>0
  <2>2. CASE q # p
    BY <2>2, <1>0, <1>r DEF ClaimOK, Row, PlaceOK, OnRow
  <2> QED
    BY <2>1, <2>2
<1>5. RunsAreApproved'
  BY <1>r DEF RunsAreApproved
<1> QED
  BY <1>1, <1>2, <1>3, <1>4, <1>5

\* A step of one request that appends a row no run has touched.
LEMMA AppendStep ==
  ASSUME IInv, CountersOK,
         NEW p \in Proc, NEW new, proc' = [proc EXCEPT ![p] = new],
         NEW k \in 1..PlanSize, NEW st \in StepStatus, rows' = Append(rows, NewRow(k, st)),
         Placed(new, rows'), new.pc \notin {"claim", "claimed"},
         new.row \in {proc[p].row, Len(rows) + 1},
         new.pc = "enter" => new.row = Len(rows) + 1
  PROVE  IInv'
<1> USE DEF IInv, CountersOK, Placed
<1>0. /\ proc \in [Proc -> Process]
      /\ proc'[p] = new
      /\ \A q \in Proc : q # p => proc'[q] = proc[q]
      /\ rows \in Seq(StepRow)
  BY DEF TypeOK
<1>n. /\ NewRow(k, st) \in StepRow
      /\ NewRow(k, st).runs = 0 /\ NewRow(k, st).request = "none"
  BY DEF NewRow, StepRow, RequestStatus
<1>r. /\ rows' \in Seq(StepRow)
      /\ Len(rows') = Len(rows) + 1
      /\ Len(rows) \in Nat
      /\ DOMAIN rows = 1..Len(rows)
      /\ DOMAIN rows' = 1..(Len(rows) + 1)
      /\ rows'[Len(rows) + 1] = NewRow(k, st)
      /\ \A j \in DOMAIN rows : rows'[j] = rows[j]
  BY <1>0, <1>n, AppendRow
<1> HIDE DEF Placed
<1>1. TypeOK'
  BY <1>0, <1>r DEF TypeOK, Placed
<1>2. PlaceOK'
  BY <1>0, <1>r DEF PlaceOK, OnRow, Placed
<1>3. EnterOK'
  <2> SUFFICES ASSUME NEW q \in Proc, proc'[q].pc = "enter"
               PROVE  /\ rows'[proc'[q].row].runs = 0
                      /\ rows'[proc'[q].row].request = "none"
                      /\ \A r \in Proc : r # q => proc'[r].row # proc'[q].row
    BY DEF EnterOK, At, Row
  <2>1. CASE q = p
    BY <2>1, <1>0, <1>r, <1>n DEF PlaceOK
  <2>2. CASE q # p
    <3>1. proc'[q] = proc[q]
      BY <2>2, <1>0
    <3>2. /\ proc[q].row \in DOMAIN rows
          /\ rows[proc[q].row].runs = 0 /\ rows[proc[q].row].request = "none"
          /\ \A r \in Proc : r # q => proc[r].row # proc[q].row
      BY <3>1, <1>r DEF EnterOK, At, Row, PlaceOK, OnRow
    <3> QED
      BY <3>1, <3>2, <1>0, <1>r
  <2> QED
    BY <2>1, <2>2
<1>4. ClaimOK'
  <2> SUFFICES ASSUME NEW q \in Proc, proc'[q].pc \in {"claim", "claimed"}
               PROVE  rows'[proc'[q].row].request = "APPROVED"
    BY DEF ClaimOK, Row
  <2>1. q # p
    BY <1>0
  <2> QED
    BY <2>1, <1>0, <1>r DEF ClaimOK, Row, PlaceOK, OnRow
<1>5. RunsAreApproved'
  <2> SUFFICES ASSUME NEW i \in 1..(Len(rows) + 1), rows'[i].runs > 0, rows'[i].order \in Risky
               PROVE  rows'[i].request = "APPROVED"
    BY <1>r DEF RunsAreApproved
  <2>1. i # Len(rows) + 1
    BY <1>r, <1>n
  <2>2. i \in DOMAIN rows
    BY <2>1, <1>r
  <2> QED
    BY <2>2, <1>r DEF RunsAreApproved
<1> QED
  BY <1>1, <1>2, <1>3, <1>4, <1>5

-----------------------------------------------------------------------------
\* A request leaves, or goes on without entering a step or claiming the task.
LEMMA LeaveStep ==
  ASSUME IInv, CountersOK, UNCHANGED rows, NEW p \in Proc, Leave(p)
  PROVE  IInv'
<1>1. Placed(IdleProc, rows) /\ IdleProc.pc # "enter" /\ IdleProc.row = 0
  <2>1. IdleProc \in Process
    BY TaskAssumption DEF IdleProc, Process, PC
  <2>2. Len(rows) \in Nat
    BY Table DEF IInv, TypeOK
  <2> QED
    BY <2>1, <2>2 DEF Placed, IdleProc, OnRow
<1> QED
  BY <1>1, QuietStep DEF Leave

\* A request on another row, and one at another plan step.
OnAnotherRow(r, pc, row) == [r EXCEPT !.pc = pc, !.row = row]
AtAnotherStep(r, pc, order) == [r EXCEPT !.pc = pc, !.order = order]

\* Both are requests, and change nothing else.
LEMMA RewrittenRequest ==
  ASSUME NEW r \in Process, NEW pc \in PC
  PROVE  /\ \A row \in Nat :
              /\ OnAnotherRow(r, pc, row) \in Process
              /\ OnAnotherRow(r, pc, row).pc = pc
              /\ OnAnotherRow(r, pc, row).row = row
              /\ OnAnotherRow(r, pc, row).order = r.order
         /\ \A order \in 1..(PlanSize + 1) :
              /\ AtAnotherStep(r, pc, order) \in Process
              /\ AtAnotherStep(r, pc, order).pc = pc
              /\ AtAnotherStep(r, pc, order).row = r.row
              /\ AtAnotherStep(r, pc, order).order = order
              /\ pc = r.pc => AtAnotherStep(r, pc, order) = [r EXCEPT !.order = order]
BY DEF Process, OnAnotherRow, AtAnotherStep

\* What a record of a request is made of.
LEMMA ProcessFields ==
  ASSUME IInv, NEW p \in Proc
  PROVE  /\ proc[p] \in Process
         /\ proc[p].row \in 0..Len(rows)
         /\ Len(rows) \in Nat
         /\ DOMAIN rows = 1..Len(rows)
         /\ rows \in Seq(StepRow)
         /\ \A i \in DOMAIN rows : rows[i] \in StepRow
         /\ proc[p].pc \in OnRow => proc[p].row \in DOMAIN rows /\ Row(p) \in StepRow
         /\ proc[p].pc \in {"enter", "running", "record"} => proc[p].order <= PlanSize
         /\ proc[p].pc \in {"claim", "claimed"} => Row(p).request = "APPROVED"
BY Table DEF IInv, TypeOK, PlaceOK, ClaimOK, Row

\* The request moves on with its row: every write of proc which Go, GoWith and
\* the loop make, spelled out field by field.
Move(p, pc, fate, order, seen) ==
  proc' = [proc EXCEPT ![p] = [proc[p] EXCEPT !.pc = pc, !.fate = fate,
                                              !.order = order, !.seen = seen]]

\* Those writes are moves.
LEMMA GoMoves ==
  ASSUME IInv, NEW p \in Proc, NEW pc, NEW fate
  PROVE  /\ Go(p, pc) => Move(p, pc, proc[p].fate, proc[p].order, proc[p].seen)
         /\ GoWith(p, pc, fate) => Move(p, pc, fate, proc[p].order, proc[p].seen)
         /\ \A order :
              proc' = [proc EXCEPT ![p].pc = pc, ![p].order = order]
                => Move(p, pc, proc[p].fate, order, proc[p].seen)
         /\ \A order :
              proc' = [proc EXCEPT ![p].pc = pc, ![p].fate = fate, ![p].order = order]
                => Move(p, pc, fate, order, proc[p].seen)
         /\ \A seen :
              proc' = [proc EXCEPT ![p].pc = pc, ![p].seen = seen]
                => Move(p, pc, proc[p].fate, proc[p].order, seen)
<1>1. proc[p] \in Process /\ proc \in [Proc -> Process]
  BY ProcessFields DEF IInv, TypeOK
<1>2. ASSUME NEW r \in Process, NEW order, NEW seen
      PROVE  /\ [r EXCEPT !.pc = pc]
                   = [r EXCEPT !.pc = pc, !.fate = r.fate, !.order = r.order, !.seen = r.seen]
             /\ [r EXCEPT !.pc = pc, !.fate = fate]
                   = [r EXCEPT !.pc = pc, !.fate = fate, !.order = r.order, !.seen = r.seen]
             /\ [r EXCEPT !.pc = pc, !.order = order]
                   = [r EXCEPT !.pc = pc, !.fate = r.fate, !.order = order, !.seen = r.seen]
             /\ [r EXCEPT !.pc = pc, !.fate = fate, !.order = order]
                   = [r EXCEPT !.pc = pc, !.fate = fate, !.order = order, !.seen = r.seen]
             /\ [r EXCEPT !.pc = pc, !.seen = seen]
                   = [r EXCEPT !.pc = pc, !.fate = r.fate, !.order = r.order, !.seen = seen]
  BY DEF Process
<1>3. ASSUME NEW order, NEW seen
      PROVE  /\ Go(p, pc) => Move(p, pc, proc[p].fate, proc[p].order, proc[p].seen)
             /\ GoWith(p, pc, fate) => Move(p, pc, fate, proc[p].order, proc[p].seen)
             /\ proc' = [proc EXCEPT ![p].pc = pc, ![p].order = order]
                   => Move(p, pc, proc[p].fate, order, proc[p].seen)
             /\ proc' = [proc EXCEPT ![p].pc = pc, ![p].fate = fate, ![p].order = order]
                   => Move(p, pc, fate, order, proc[p].seen)
             /\ proc' = [proc EXCEPT ![p].pc = pc, ![p].seen = seen]
                   => Move(p, pc, proc[p].fate, proc[p].order, seen)
  <2>1. Go(p, pc) => Move(p, pc, proc[p].fate, proc[p].order, proc[p].seen)
    BY <1>1, <1>2 DEF Go, Move
  <2>2. GoWith(p, pc, fate) => Move(p, pc, fate, proc[p].order, proc[p].seen)
    BY <1>1, <1>2 DEF GoWith, Move
  <2>3. proc' = [proc EXCEPT ![p].pc = pc, ![p].order = order]
          => Move(p, pc, proc[p].fate, order, proc[p].seen)
    BY <1>1, <1>2 DEF Move
  <2>4. proc' = [proc EXCEPT ![p].pc = pc, ![p].fate = fate, ![p].order = order]
          => Move(p, pc, fate, order, proc[p].seen)
    <3>1. [proc EXCEPT ![p].pc = pc, ![p].fate = fate, ![p].order = order]
            = [proc EXCEPT ![p] = [proc[p] EXCEPT !.pc = pc, !.fate = fate, !.order = order]]
      BY <1>1
    <3>2. [proc[p] EXCEPT !.pc = pc, !.fate = fate, !.order = order]
            = [proc[p] EXCEPT !.pc = pc, !.fate = fate, !.order = order, !.seen = proc[p].seen]
      BY <1>1, <1>2
    <3> QED
      BY <3>1, <3>2 DEF Move
  <2>5. proc' = [proc EXCEPT ![p].pc = pc, ![p].seen = seen]
          => Move(p, pc, proc[p].fate, proc[p].order, seen)
    BY <1>1, <1>2 DEF Move
  <2> QED
    BY <2>1, <2>2, <2>3, <2>4, <2>5
<1> QED
  BY <1>3

\* A move that leaves the rows alone and neither enters a step nor claims the task.
LEMMA GoStep ==
  ASSUME IInv, CountersOK, UNCHANGED rows, NEW p \in Proc,
         NEW pc \in PC \ {"enter", "claim", "claimed", "running"},
         NEW fate \in {"ok", "fail", "cancel"}, NEW order \in 1..(PlanSize + 1),
         NEW seen \in BOOLEAN,
         pc \in OnRow => proc[p].pc \in OnRow,
         pc = "record" => order <= PlanSize,
         Move(p, pc, fate, order, seen)
  PROVE  IInv'
<1> DEFINE new == [proc[p] EXCEPT !.pc = pc, !.fate = fate, !.order = order, !.seen = seen]
<1>1. /\ new \in Process
      /\ new.pc = pc /\ new.row = proc[p].row /\ new.order = order
  BY ProcessFields DEF Process
<1>2. Placed(new, rows) /\ new.pc # "enter"
  BY <1>1, ProcessFields DEF Placed, OnRow
<1>3. proc' = [proc EXCEPT ![p] = new]
  BY DEF Move
<1> HIDE DEF new
<1> QED
  BY <1>1, <1>2, <1>3, QuietStep

\* A move that rewrites the request's own row and keeps its plan step, its
\* approval and the rule about runs.
LEMMA RowStep ==
  ASSUME IInv, CountersOK, NEW p \in Proc, NEW row \in StepRow, SetRow(p, row),
         NEW pc \in PC \ {"enter", "claim", "claimed"},
         NEW fate \in {"ok", "fail", "cancel"}, NEW order \in 1..(PlanSize + 1),
         NEW seen \in BOOLEAN,
         proc[p].pc \in OnRow,
         pc \in {"running", "record"} => order <= PlanSize,
         Move(p, pc, fate, order, seen),
         row.order = Row(p).order,
         Row(p).request = "APPROVED" => row.request = "APPROVED",
         row.runs > 0 /\ row.order \in Risky => row.request = "APPROVED"
  PROVE  IInv'
<1> DEFINE new == [proc[p] EXCEPT !.pc = pc, !.fate = fate, !.order = order, !.seen = seen]
           i == proc[p].row
<1>1. /\ new \in Process
      /\ new.pc = pc /\ new.row = i /\ new.order = order
  BY ProcessFields DEF Process
<1>2. /\ i \in DOMAIN rows /\ i \in 1..Len(rows)
      /\ rows' = [rows EXCEPT ![i] = row]
      /\ Len(rows) \in Nat
  BY ProcessFields DEF SetRow
<1>3. Len(rows') = Len(rows)
  BY <1>2, ProcessFields, RewriteRow
<1>4. Placed(new, rows') /\ new.pc # "enter"
  BY <1>1, <1>2, <1>3 DEF Placed
<1>5. proc' = [proc EXCEPT ![p] = new]
  BY DEF Move
<1> HIDE DEF new
<1> QED
  BY <1>1, <1>2, <1>4, <1>5, RewriteStep DEF Row

\* A row with another status is a row, and keeps what is proved about it.
LEMMA StatusRow ==
  ASSUME NEW r \in StepRow, NEW st \in StepStatus
  PROVE  /\ [r EXCEPT !.status = st] \in StepRow
         /\ [r EXCEPT !.status = st].status = st
         /\ [r EXCEPT !.status = st].order = r.order
         /\ [r EXCEPT !.status = st].request = r.request
         /\ [r EXCEPT !.status = st].runs = r.runs
         /\ [r EXCEPT !.status = st, !.bound = TRUE] \in StepRow
         /\ [r EXCEPT !.status = st, !.bound = TRUE].status = st
         /\ [r EXCEPT !.status = st, !.bound = TRUE].order = r.order
         /\ [r EXCEPT !.status = st, !.bound = TRUE].request = r.request
         /\ [r EXCEPT !.status = st, !.bound = TRUE].runs = r.runs
BY DEF StepRow

\* So does one with its request in another status.
LEMMA RequestRow ==
  ASSUME NEW r \in StepRow, NEW rs \in RequestStatus
  PROVE  /\ [r EXCEPT !.request = rs] \in StepRow
         /\ [r EXCEPT !.request = rs].order = r.order
         /\ [r EXCEPT !.request = rs].request = rs
         /\ [r EXCEPT !.request = rs].runs = r.runs
         /\ [r EXCEPT !.request = rs].status = r.status
BY DEF StepRow

\* So does one whose step has been run once more.
LEMMA RunRow ==
  ASSUME NEW r \in StepRow
  PROVE  /\ [r EXCEPT !.runs = @ + 1] \in StepRow
         /\ [r EXCEPT !.runs = @ + 1].order = r.order
         /\ [r EXCEPT !.runs = @ + 1].request = r.request
         /\ [r EXCEPT !.runs = @ + 1].status = r.status
         /\ [r EXCEPT !.runs = @ + 1].runs = r.runs + 1
<1>1. r.runs + 1 \in Nat
  BY DEF StepRow
<1>2. ASSUME NEW n \in Nat
      PROVE  [r EXCEPT !.runs = n] \in StepRow
  BY DEF StepRow
<1>3. [r EXCEPT !.runs = @ + 1] \in StepRow
  BY <1>1, <1>2
<1> QED
  BY <1>3 DEF StepRow

-----------------------------------------------------------------------------
(* One lemma per group of actions *)

\* Every step but a restart and a retry leaves the counters alone.
LEMMA KeptCounters ==
  ASSUME IInv, status' \in TaskStatus, UNCHANGED Counters
  PROVE  CountersOK
BY DEF IInv, TypeOK, CountersOK, Counters

\* The execute route and the end of planning.
LEMMA PlanningKeeps ==
  ASSUME IInv, NEW p \in Proc, Execute(p) \/ Planning(p)
  PROVE  IInv'
<1>f. proc[p] \in Process
  BY ProcessFields
<1>1. CASE Execute(p)
  <2>1. CountersOK
    BY <1>1, KeptCounters DEF Execute, Cas, TaskStatus
  <2>2. Move(p, "planning", proc[p].fate, proc[p].order, proc[p].seen)
    BY <1>1, GoMoves DEF Execute
  <2> QED
    BY <1>1, <1>f, <2>1, <2>2, GoStep DEF Execute, Process, PC, OnRow
<1>2. CASE FailPlanning(p) \/ (FinishPlanning(p) /\ Leave(p))
  <2>1. CountersOK
    BY <1>2, KeptCounters DEF FailPlanning, FinishPlanning, Cas, TaskStatus, IInv, TypeOK
  <2> QED
    BY <1>2, <2>1, LeaveStep DEF FailPlanning, FinishPlanning
<1>3. CASE FinishPlanning(p) /\ Cas("PLANNING", "EXECUTING") /\ Go(p, "check")
  <2>1. CountersOK
    BY <1>3, KeptCounters DEF FinishPlanning, Cas, TaskStatus
  <2>2. Move(p, "check", proc[p].fate, proc[p].order, proc[p].seen)
    BY <1>3, GoMoves
  <2> QED
    BY <1>3, <1>f, <2>1, <2>2, GoStep DEF FinishPlanning, Process, PC, OnRow
<1> QED
  BY <1>1, <1>2, <1>3 DEF Planning, FinishPlanning

\* The loop's steps between two plan steps, and its end.
LEMMA PlanLoopKeeps ==
  ASSUME IInv, NEW p \in Proc, PlanLoop(p)
  PROVE  IInv'
<1>f. /\ proc[p] \in Process /\ proc \in [Proc -> Process]
      /\ Len(rows) \in Nat /\ proc[p].row \in 0..Len(rows)
      /\ PlanSize \in Nat
  BY ProcessFields, TaskAssumption DEF IInv, TypeOK
<1>1. CASE Check(p) \/ FinishLoop(p)
  <2>1. CountersOK
    BY <1>1, KeptCounters DEF Check, FinishLoop, IInv, TypeOK
  <2>2. \/ Move(p, "finalize", "ok", proc[p].order, proc[p].seen)
        \/ Move(p, "skip", "cancel", proc[p].order + 1, proc[p].seen) /\ ~AtEnd(p)
        \/ Move(p, "add", proc[p].fate, proc[p].order, proc[p].seen)
    <3>1. proc' = [proc EXCEPT ![p].pc = "skip", ![p].fate = "cancel",
                              ![p].order = proc[p].order + 1]
            => Move(p, "skip", "cancel", proc[p].order + 1, proc[p].seen)
      BY GoMoves
    <3> QED
      BY <1>1, <1>f, <3>1, GoMoves DEF Check, FinishLoop
  <2>3. UNCHANGED rows
    BY <1>1 DEF Check, FinishLoop
  <2> QED
    BY <1>f, <2>1, <2>2, <2>3, GoStep DEF AtEnd, Process, PC, OnRow
<1>2. CASE AddStep(p)
  <2> DEFINE new == OnAnotherRow(proc[p], "enter", Len(rows) + 1)
  <2>1. CountersOK
    BY <1>2, KeptCounters DEF AddStep, IInv, TypeOK
  <2>2. /\ proc[p].order \in 1..PlanSize
        /\ rows' = Append(rows, NewRow(proc[p].order, "PENDING"))
        /\ proc' = [proc EXCEPT ![p] = new]
    <3>1. proc[p].order \in 1..PlanSize
      BY <1>2, <1>f DEF AddStep, AtEnd, Process
    <3>2. proc' = [proc EXCEPT ![p].pc = "enter", ![p].row = Len(rows) + 1]
      BY <1>2 DEF AddStep
    <3>3. proc' = [proc EXCEPT ![p] = new]
      BY <1>f, <3>2 DEF OnAnotherRow
    <3> QED
      BY <1>2, <3>1, <3>3 DEF AddStep
  <2>3. /\ new \in Process
        /\ new.pc = "enter" /\ new.row = Len(rows) + 1 /\ new.order = proc[p].order
    <3>1. Len(rows) + 1 \in Nat /\ "enter" \in PC /\ 1 \in 1..(PlanSize + 1)
      BY <1>f DEF PC
    <3> QED
      BY <1>f, <3>1, RewrittenRequest
  <2>4. Len(rows') = Len(rows) + 1
    BY <2>2, ProcessFields, AppendProperties
  <2>5. Placed(new, rows')
    BY <1>f, <2>2, <2>3, <2>4 DEF Placed
  <2> HIDE DEF new
  <2> QED
    BY <1>f, <2>1, <2>2, <2>3, <2>5, AppendStep DEF StepStatus
<1>3. CASE Skip(p) /\ AtEnd(p)
  <2>1. CountersOK
    BY <1>3, KeptCounters DEF Skip, IInv, TypeOK
  <2>2. Move(p, "finalize", proc[p].fate, proc[p].order, proc[p].seen) /\ UNCHANGED rows
    BY <1>3, GoMoves DEF Skip
  <2> QED
    BY <1>f, <2>1, <2>2, GoStep DEF Process, PC, OnRow
<1>4. CASE Skip(p) /\ ~AtEnd(p)
  <2> DEFINE new == AtAnotherStep(proc[p], "skip", proc[p].order + 1)
  <2>1. CountersOK
    BY <1>4, KeptCounters DEF Skip, IInv, TypeOK
  <2>2. /\ proc[p].order \in 1..PlanSize
        /\ rows' = Append(rows, NewRow(proc[p].order, "SKIPPED"))
        /\ proc' = [proc EXCEPT ![p] = new]
    <3>1. proc[p].order \in 1..PlanSize /\ proc[p].order + 1 \in 1..(PlanSize + 1)
          /\ proc[p].pc = "skip" /\ "skip" \in PC
      BY <1>4, <1>f DEF Skip, AtEnd, At, Process, PC
    <3>2. new = [proc[p] EXCEPT !.order = proc[p].order + 1]
      BY <1>f, <3>1, RewrittenRequest
    <3> QED
      BY <1>4, <1>f, <3>1, <3>2 DEF Skip
  <2>3. new \in Process /\ new.pc = "skip" /\ new.row = proc[p].row
    <3>1. proc[p].order + 1 \in 1..(PlanSize + 1) /\ "skip" \in PC
      BY <1>f, <2>2 DEF PC
    <3> QED
      BY <1>f, <3>1, RewrittenRequest
  <2>4. Len(rows') = Len(rows) + 1
    BY <2>2, ProcessFields, AppendProperties
  <2>5. Placed(new, rows')
    BY <1>f, <2>3, <2>4 DEF Placed, OnRow
  <2> HIDE DEF new
  <2> QED
    BY <1>f, <2>1, <2>2, <2>3, <2>5, AppendStep DEF StepStatus
<1>5. CASE Finalize(p)
  <2>1. status' \in TaskStatus
    BY <1>5, <1>f DEF Finalize, Process, TaskStatus
  <2> QED
    BY <1>5, <2>1, KeptCounters, LeaveStep DEF Finalize
<1> QED
  BY <1>1, <1>2, <1>3, <1>4, <1>5 DEF PlanLoop, Skip

\* One step of the plan: denied, run, recorded.
LEMMA OneStepKeeps ==
  ASSUME IInv, NEW p \in Proc, OneStep(p)
  PROVE  IInv'
<1>f. /\ proc[p] \in Process
      /\ proc[p].order \in 1..(PlanSize + 1)
      /\ PlanSize \in Nat
      /\ CountersOK
  BY ProcessFields, TaskAssumption, KeptCounters
     DEF Process, OneStep, Deny, StartRun, Return, Record, IInv, TypeOK
<1>m. \A pc, fate, order :
        /\ Go(p, pc) => Move(p, pc, proc[p].fate, proc[p].order, proc[p].seen)
        /\ GoWith(p, pc, fate) => Move(p, pc, fate, proc[p].order, proc[p].seen)
        /\ proc' = [proc EXCEPT ![p].pc = pc, ![p].order = order]
              => Move(p, pc, proc[p].fate, order, proc[p].seen)
        /\ proc' = [proc EXCEPT ![p].pc = pc, ![p].fate = fate, ![p].order = order]
              => Move(p, pc, fate, order, proc[p].seen)
  BY GoMoves
<1>p. /\ {"skip", "finalize", "check", "add"} \subseteq PC \ {"enter", "claim", "claimed"}
      /\ \A pc \in {"skip", "finalize", "check", "add"} : pc \notin {"running", "record"}
      /\ proc[p].seen \in BOOLEAN /\ proc[p].fate \in {"ok", "fail", "cancel"}
  BY <1>f DEF PC, Process
<1>g. ASSUME AfterFailedStep(p) \/ AfterGoodStep(p), proc[p].order <= PlanSize
      PROVE  \E pc \in {"skip", "finalize", "check", "add"},
                fate \in {"ok", "fail", "cancel"}, order \in 1..(PlanSize + 1) :
               Move(p, pc, fate, order, proc[p].seen)
  <2>1. proc[p].order + 1 \in 1..(PlanSize + 1)
    BY <1>f, <1>g
  <2>2. CASE AfterFailedStep(p) /\ proc[p].path = "execute"
    <3>1. Move(p, "skip", "fail", proc[p].order + 1, proc[p].seen)
      BY <2>2, <1>m DEF AfterFailedStep
    <3> QED
      BY <3>1, <2>1
  <2>3. CASE AfterFailedStep(p) /\ proc[p].path # "execute"
    <3>1. Move(p, "finalize", "fail", proc[p].order, proc[p].seen)
      BY <2>3, <1>m DEF AfterFailedStep
    <3> QED
      BY <3>1, <1>f
  <2>4. CASE AfterGoodStep(p)
    <3>1. \/ Move(p, "check", proc[p].fate, proc[p].order + 1, proc[p].seen)
          \/ Move(p, "add", proc[p].fate, proc[p].order + 1, proc[p].seen)
      BY <2>4, <1>m DEF AfterGoodStep
    <3> QED
      BY <3>1, <2>1, <1>p
  <2> QED
    BY <1>g, <2>2, <2>3, <2>4
<1>1. CASE Deny(p)
  <2>1. /\ proc[p].pc \in OnRow /\ proc[p].order <= PlanSize
        /\ Row(p) \in StepRow /\ Row(p).runs = 0
    BY <1>1, ProcessFields DEF Deny, At, OnRow, IInv, EnterOK
  <2> DEFINE row == [Row(p) EXCEPT !.status = "REJECTED"]
  <2>2. row \in StepRow /\ row.order = Row(p).order /\ row.request = Row(p).request /\ row.runs = 0
    BY <2>1, StatusRow DEF StepStatus
  <2>3. SetRow(p, row)
    BY <1>1 DEF Deny
  <2> HIDE DEF row
  <2>4. PICK pc \in {"skip", "finalize", "check", "add"},
             fate \in {"ok", "fail", "cancel"}, order \in 1..(PlanSize + 1) :
               Move(p, pc, fate, order, proc[p].seen)
    BY <1>1, <1>g, <2>1 DEF Deny
  <2> QED
    BY <1>f, <1>p, <2>1, <2>2, <2>3, <2>4, RowStep
<1>2. CASE StartRun(p)
  <2>1. /\ proc[p].pc \in OnRow /\ proc[p].order <= PlanSize
        /\ Row(p) \in StepRow /\ Row(p).order \notin Risky
    BY <1>2, ProcessFields DEF StartRun, At, OnRow
  <2> DEFINE row == [Row(p) EXCEPT !.runs = @ + 1]
  <2>2. row \in StepRow /\ row.order = Row(p).order /\ row.request = Row(p).request
    BY <2>1, RunRow
  <2>3. SetRow(p, row) /\ Move(p, "running", proc[p].fate, proc[p].order, proc[p].seen)
    BY <1>2, <1>m DEF StartRun
  <2> HIDE DEF row
  <2> QED
    BY <1>f, <2>1, <2>2, <2>3, RowStep DEF Process, PC
<1>3. CASE Return(p)
  <2>1. /\ proc[p].pc \in OnRow /\ proc[p].order <= PlanSize
        /\ UNCHANGED rows
    BY <1>3, ProcessFields DEF Return, At, OnRow
  <2>2. PICK fate \in {"ok", "fail"} : Move(p, "record", fate, proc[p].order, proc[p].seen)
    BY <1>3, <1>m DEF Return
  <2> QED
    BY <1>f, <2>1, <2>2, GoStep DEF Process, PC
<1>4. CASE Record(p)
  <2>1. /\ proc[p].pc \in OnRow /\ proc[p].order <= PlanSize
        /\ Row(p) \in StepRow /\ proc[p].row \in DOMAIN rows
    BY <1>4, ProcessFields DEF Record, At, OnRow
  <2>2. PICK st \in {"COMPLETED", "FAILED"} :
          /\ SetRow(p, [Row(p) EXCEPT !.status = st])
          /\ AfterGoodStep(p) \/ AfterFailedStep(p)
    BY <1>4 DEF Record
  <2> DEFINE row == [Row(p) EXCEPT !.status = st]
  <2>3. /\ row \in StepRow /\ row.order = Row(p).order /\ row.request = Row(p).request
        /\ row.runs = Row(p).runs
    <3>1. st \in StepStatus
      BY <2>2 DEF StepStatus
    <3> QED
      BY <2>1, <3>1, StatusRow
  <2>4. row.runs > 0 /\ row.order \in Risky => row.request = "APPROVED"
    BY <2>1, <2>3 DEF IInv, RunsAreApproved, Row
  <2>5. SetRow(p, row)
    BY <2>2
  <2> HIDE DEF row
  <2>6. PICK pc \in {"skip", "finalize", "check", "add"},
             fate \in {"ok", "fail", "cancel"}, order \in 1..(PlanSize + 1) :
               Move(p, pc, fate, order, proc[p].seen)
    BY <1>g, <2>1, <2>2
  <2> QED
    BY <1>f, <1>p, <2>1, <2>3, <2>4, <2>5, <2>6, RowStep
<1> QED
  BY <1>1, <1>2, <1>3, <1>4 DEF OneStep

\* A step suspended for its approval, and the task with it.
LEMMA SuspensionKeeps ==
  ASSUME IInv, NEW p \in Proc, Suspension(p)
  PROVE  IInv'
<1>f. /\ proc[p].order \in 1..(PlanSize + 1)
      /\ proc[p].seen \in BOOLEAN /\ proc[p].fate \in {"ok", "fail", "cancel"}
      /\ {"mark", "park", "parkCas", "parkSet"} \subseteq
           PC \ {"enter", "claim", "claimed", "running", "record"}
  BY ProcessFields DEF Process, PC
<1>m. \A pc : Go(p, pc) => Move(p, pc, proc[p].fate, proc[p].order, proc[p].seen)
  BY GoMoves
<1>c. CountersOK
  BY KeptCounters DEF Suspension, Suspend, MarkStep, Park, ParkCas, ParkSet, Cas,
                      TaskStatus, IInv, TypeOK
<1>1. CASE Suspend(p)
  <2>1. proc[p].pc \in OnRow /\ Row(p) \in StepRow /\ Row(p).runs = 0
        /\ Row(p).request = "none"
    BY <1>1, ProcessFields DEF Suspend, At, OnRow, IInv, EnterOK
  <2> DEFINE row == [Row(p) EXCEPT !.request = "PENDING"]
  <2>2. row \in StepRow /\ row.order = Row(p).order /\ row.runs = 0
    BY <2>1, RequestRow DEF RequestStatus
  <2>3. SetRow(p, row) /\ Move(p, "mark", proc[p].fate, proc[p].order, proc[p].seen)
    BY <1>1, <1>m DEF Suspend
  <2> HIDE DEF row
  <2> QED
    BY <1>c, <1>f, <2>1, <2>2, <2>3, RowStep
<1>2. CASE MarkStep(p)
  <2>1. proc[p].pc \in OnRow /\ Row(p) \in StepRow /\ proc[p].row \in DOMAIN rows
    BY <1>2, ProcessFields DEF MarkStep, At, OnRow
  <2> DEFINE row == [Row(p) EXCEPT !.status = "AWAITING_APPROVAL", !.bound = TRUE]
  <2>2. /\ row \in StepRow /\ row.order = Row(p).order /\ row.request = Row(p).request
        /\ row.runs = Row(p).runs
    BY <2>1, StatusRow DEF StepStatus
  <2>3. row.runs > 0 /\ row.order \in Risky => row.request = "APPROVED"
    BY <2>1, <2>2 DEF IInv, RunsAreApproved, Row
  <2>4. SetRow(p, row) /\ Move(p, "park", proc[p].fate, proc[p].order, proc[p].seen)
    BY <1>2, <1>m DEF MarkStep
  <2> HIDE DEF row
  <2> QED
    BY <1>c, <1>f, <2>1, <2>2, <2>3, <2>4, RowStep
<1>3. CASE Park(p) /\ ~Leave(p)
  <2>1. PICK pc \in {"parkCas", "parkSet"} :
          Move(p, pc, proc[p].fate, proc[p].order, proc[p].seen)
    BY <1>3, <1>m DEF Park
  <2>2. proc[p].pc \in OnRow /\ UNCHANGED rows
    BY <1>3 DEF Park, At, OnRow
  <2> QED
    BY <1>c, <1>f, <2>1, <2>2, GoStep
<1>4. CASE (Park(p) /\ Leave(p)) \/ ParkCas(p) \/ ParkSet(p)
  BY <1>4, <1>c, LeaveStep DEF Park, ParkCas, ParkSet
<1> QED
  BY <1>1, <1>2, <1>3, <1>4 DEF Suspension

\* A step resumed: claimed and run, denied or refused.
LEMMA ResumptionKeeps ==
  ASSUME IInv, NEW p \in Proc, Resumption(p)
  PROVE  IInv'
<1>f. /\ proc[p] \in Process /\ proc \in [Proc -> Process]
      /\ proc[p].order \in 1..(PlanSize + 1)
      /\ proc[p].seen \in BOOLEAN /\ proc[p].fate \in {"ok", "fail", "cancel"}
      /\ {"loadTask", "refuse", "finalize"} \subseteq
           PC \ {"enter", "claim", "claimed", "running", "record"}
      /\ {"claim", "claimed", "running"} \subseteq PC
      /\ PlanSize \in Nat
  BY ProcessFields, TaskAssumption DEF Process, PC, IInv, TypeOK
<1>m. \A pc, fate, seen, order :
        /\ Go(p, pc) => Move(p, pc, proc[p].fate, proc[p].order, proc[p].seen)
        /\ GoWith(p, pc, fate) => Move(p, pc, fate, proc[p].order, proc[p].seen)
        /\ proc' = [proc EXCEPT ![p].pc = pc, ![p].order = order]
              => Move(p, pc, proc[p].fate, order, proc[p].seen)
        /\ proc' = [proc EXCEPT ![p].pc = pc, ![p].seen = seen]
              => Move(p, pc, proc[p].fate, proc[p].order, seen)
  BY GoMoves
<1>c. CountersOK
  BY KeptCounters DEF Resumption, LoadStep, LoadTask, Claim, StartApprovedRun,
                      DenyApproved, Refuse, Cas, TaskStatus, IInv, TypeOK
<1>r. proc[p].pc \in OnRow /\ proc[p].row \in DOMAIN rows /\ Row(p) \in StepRow
  BY ProcessFields DEF Resumption, LoadStep, LoadTask, Claim, StartApprovedRun,
                       DenyApproved, Refuse, At, OnRow
\* A quiet move into or within the claim.
<1>q. ASSUME NEW pc \in {"claim", "claimed"}, UNCHANGED rows,
             Row(p).request = "APPROVED",
             Move(p, pc, proc[p].fate, proc[p].order, proc[p].seen)
      PROVE  IInv'
  <2> DEFINE new == [proc[p] EXCEPT !.pc = pc, !.fate = proc[p].fate,
                                    !.order = proc[p].order, !.seen = proc[p].seen]
  <2>1. pc \in PC /\ pc # "enter"
    BY <1>f
  <2>2. new \in Process /\ new.pc = pc /\ new.row = proc[p].row
    BY <1>f, <2>1 DEF Process
  <2>3. Placed(new, rows)
    BY <1>q, <1>r, <2>2, ProcessFields DEF Placed, Row
  <2>4. proc' = [proc EXCEPT ![p] = new]
    BY <1>q DEF Move
  <2> HIDE DEF new
  <2> QED
    BY <1>c, <1>q, <2>1, <2>2, <2>3, <2>4, QuietStep
<1>1. CASE LoadStep(p)
  <2>1. PICK seen \in BOOLEAN :
          Move(p, "loadTask", proc[p].fate, proc[p].order, seen)
    BY <1>1, <1>m, <1>r DEF LoadStep, StepRow
  <2> QED
    BY <1>1, <1>c, <1>f, <1>r, <2>1, GoStep DEF LoadStep
<1>2. CASE LoadTask(p)
  <2>1. CASE Leave(p)
    BY <1>2, <1>c, <2>1, LeaveStep DEF LoadTask
  <2>2. CASE Go(p, "claim") /\ Row(p).request = "APPROVED"
    BY <1>2, <1>m, <1>q, <2>2 DEF LoadTask
  <2>3. CASE Go(p, "refuse")
    <3>1. UNCHANGED rows /\ Move(p, "refuse", proc[p].fate, proc[p].order, proc[p].seen)
      BY <1>2, <1>m, <2>3 DEF LoadTask
    <3> QED
      BY <1>c, <1>f, <1>r, <3>1, GoStep
  <2> QED
    BY <1>2, <2>1, <2>2, <2>3 DEF LoadTask
<1>3. CASE Claim(p)
  <2>1. CASE Leave(p)
    BY <1>3, <1>c, <2>1, LeaveStep DEF Claim
  <2>2. CASE Go(p, "claimed")
    <3>1. Row(p).request = "APPROVED" /\ UNCHANGED rows
      BY <1>3, ProcessFields DEF Claim, At
    <3> QED
      BY <1>m, <1>q, <2>2, <3>1
  <2> QED
    BY <1>3, <2>1, <2>2 DEF Claim
<1>4. CASE StartApprovedRun(p)
  <2> DEFINE row == [Row(p) EXCEPT !.runs = @ + 1]
  <2>1. row \in StepRow /\ row.order = Row(p).order /\ row.request = "APPROVED"
    BY <1>4, <1>r, RunRow, ProcessFields DEF StartApprovedRun, At
  <2>2. Row(p).order \in 1..(PlanSize + 1) /\ Row(p).order <= PlanSize
    BY <1>f, <1>r DEF StepRow
  <2>3. SetRow(p, row) /\ Move(p, "running", proc[p].fate, Row(p).order, proc[p].seen)
    BY <1>4, <1>m DEF StartApprovedRun
  <2>4. "running" \in PC \ {"enter", "claim", "claimed"}
    BY DEF PC
  <2> HIDE DEF row
  <2> QED
    BY <1>c, <1>f, <1>r, <2>1, <2>2, <2>3, <2>4, RowStep
<1>5. CASE DenyApproved(p) \/ Refuse(p)
  <2> DEFINE row == [Row(p) EXCEPT !.status = "REJECTED"]
  <2>1. /\ row \in StepRow /\ row.order = Row(p).order /\ row.request = Row(p).request
        /\ row.runs = Row(p).runs
    BY <1>r, StatusRow DEF StepStatus
  <2>2. row.runs > 0 /\ row.order \in Risky => row.request = "APPROVED"
    BY <1>r, <2>1 DEF IInv, RunsAreApproved, Row
  <2>3. SetRow(p, row) /\ Move(p, "finalize", "fail", proc[p].order, proc[p].seen)
    BY <1>5, <1>m DEF DenyApproved, Refuse
  <2> HIDE DEF row
  <2> QED
    BY <1>c, <1>f, <1>r, <2>1, <2>2, <2>3, RowStep
<1> QED
  BY <1>1, <1>2, <1>3, <1>4, <1>5 DEF Resumption

\* The resolve route: a decision, or a decided request, sends a request to resume.
LEMMA ResolveKeeps ==
  ASSUME IInv, NEW p \in Proc, NEW i \in DOMAIN rows, Resolve(p, i)
  PROVE  IInv'
<1> DEFINE new == [proc[p] EXCEPT !.pc = "load", !.path = "resume", !.row = i]
<1>f. /\ proc[p] \in Process /\ proc \in [Proc -> Process]
      /\ i \in 1..Len(rows) /\ Len(rows) \in Nat /\ i \in Nat
      /\ rows[i] \in StepRow /\ rows \in Seq(StepRow)
  BY ProcessFields DEF IInv, TypeOK
<1>1. new \in Process /\ new.pc = "load" /\ new.row = i
  BY <1>f DEF Process, PC
<1>2. proc' = [proc EXCEPT ![p] = new]
  BY <1>f DEF Resolve
<1>c. CountersOK
  BY KeptCounters DEF Resolve, IInv, TypeOK
<1> HIDE DEF new
<1>3. CASE rows[i].request # "none" /\ UNCHANGED rows
  <2>1. Placed(new, rows)
    BY <1>1, <1>f DEF Placed
  <2> QED
    BY <1>1, <1>2, <1>3, <1>c, <2>1, QuietStep
<1>4. CASE rows[i].request = "PENDING"
           /\ \E d \in {"APPROVED", "REJECTED"} : rows' = [rows EXCEPT ![i].request = d]
  <2>1. PICK d \in {"APPROVED", "REJECTED"} : rows' = [rows EXCEPT ![i].request = d]
    BY <1>4
  <2> DEFINE row == [rows[i] EXCEPT !.request = d]
  <2>2. d \in RequestStatus
    BY <2>1 DEF RequestStatus
  <2>3. row \in StepRow /\ row.order = rows[i].order /\ row.runs = rows[i].runs
    BY <1>f, <2>2, RequestRow
  <2>4. row.runs > 0 /\ row.order \in Risky => row.request = "APPROVED"
    BY <1>4, <2>3 DEF IInv, RunsAreApproved
  <2>5. rows' = [rows EXCEPT ![i] = row]
    BY <1>f, <2>1
  <2> HIDE DEF row
  <2>6. Len(rows') = Len(rows)
    BY <1>f, <2>3, <2>5, RewriteRow
  <2>7. Placed(new, rows')
    BY <1>1, <1>f, <2>6 DEF Placed
  <2> QED
    BY <1>1, <1>2, <1>4, <1>c, <2>3, <2>4, <2>5, <2>7, RewriteStep
<1> QED
  BY <1>3, <1>4 DEF Resolve

-----------------------------------------------------------------------------
\* The initial state satisfies the invariant: no row, no request under way.
LEMMA InitIInv == Init => IInv
<1> SUFFICES ASSUME Init PROVE IInv
  OBVIOUS
<1>1. rows = <<>> /\ Len(rows) = 0 /\ DOMAIN rows = {} /\ rows \in Seq(StepRow)
  BY DEF Init
<1>2. IdleProc \in Process /\ IdleProc.pc = "idle" /\ IdleProc.row = 0
  BY TaskAssumption DEF IdleProc, Process, PC
<1>3. proc = [p \in Proc |-> IdleProc]
  BY DEF Init
<1>4. TypeOK
  BY <1>1, <1>2, <1>3, TaskAssumption DEF Init, TypeOK, TaskStatus
<1>5. PlaceOK /\ EnterOK /\ ClaimOK /\ RunsAreApproved
  BY <1>1, <1>2, <1>3 DEF PlaceOK, EnterOK, ClaimOK, RunsAreApproved, At, OnRow
<1> QED
  BY <1>4, <1>5 DEF IInv

\* Every step keeps it.
LEMMA NextIInv == IInv /\ [Next]_vars => IInv'
<1> SUFFICES ASSUME IInv, [Next]_vars PROVE IInv'
  OBVIOUS
<1>1. ASSUME NEW p \in Proc, Execute(p) \/ GoOn(p)
      PROVE  IInv'
  BY <1>1, PlanningKeeps, PlanLoopKeeps, OneStepKeeps, SuspensionKeeps, ResumptionKeeps
     DEF GoOn
<1>2. ASSUME NEW p \in Proc, NEW i \in DOMAIN rows, Resolve(p, i)
      PROVE  IInv'
  BY <1>2, ResolveKeeps
<1>3. ASSUME NEW p \in Proc, Raise(p) \/ Interrupt(p)
      PROVE  IInv'
  <2>1. CountersOK /\ UNCHANGED rows
    BY <1>3, KeptCounters DEF Raise, Interrupt, IInv, TypeOK, TaskStatus
  <2> QED
    BY <1>3, <2>1, LeaveStep DEF Raise, Interrupt
<1>4. CASE Cancel \/ Retry
  <2>1. UNCHANGED <<rows, proc>>
    BY <1>4 DEF Cancel, Retry
  <2>2. TypeOK'
    BY <1>4, <2>1, TaskAssumption DEF Cancel, Retry, Cas, Counters, IInv, TypeOK, TaskStatus
  <2>3. PlaceOK' /\ EnterOK' /\ ClaimOK' /\ RunsAreApproved'
    BY <2>1 DEF IInv, PlaceOK, EnterOK, ClaimOK, RunsAreApproved, At, Row
  <2> QED
    BY <2>2, <2>3 DEF IInv
<1>5. CASE Crash
  <2>1. IdleProc \in Process /\ IdleProc.pc = "idle" /\ IdleProc.row = 0
    BY TaskAssumption DEF IdleProc, Process, PC
  <2>2. UNCHANGED <<status, rows, retries>> /\ proc' = [p \in Proc |-> IdleProc]
    BY <1>5 DEF Crash
  <2>3. crashes' \in 0..MaxCrashes
    BY <1>5, TaskAssumption DEF Crash, IInv, TypeOK
  <2>4. Len(rows) \in Nat
    BY Table DEF IInv, TypeOK
  <2>5. TypeOK'
    BY <2>1, <2>2, <2>3, <2>4 DEF IInv, TypeOK
  <2>6. PlaceOK' /\ EnterOK' /\ ClaimOK'
    BY <2>1, <2>2, <2>4 DEF PlaceOK, EnterOK, ClaimOK, At, OnRow
  <2>7. RunsAreApproved'
    BY <2>2 DEF IInv, RunsAreApproved
  <2> QED
    BY <2>5, <2>6, <2>7 DEF IInv
<1>6. CASE UNCHANGED vars
  BY <1>6 DEF vars, IInv, TypeOK, PlaceOK, EnterOK, ClaimOK, RunsAreApproved, At, Row
<1> QED
  BY <1>1, <1>2, <1>3, <1>4, <1>5, <1>6 DEF Next, Work

\* The inductive invariant holds in every state of every behaviour.
LEMMA Inductive == Spec => []IInv
BY InitIInv, NextIInv, PTL DEF Spec

-----------------------------------------------------------------------------
\* The task, its step rows and the requests keep their types and their ranges,
\* however execute, resolve, cancel and retry calls, errors and restarts mix.
THEOREM TypeCorrect == Spec => []TypeOK
<1>1. IInv => TypeOK
  BY DEF IInv
<1> QED
  BY <1>1, Inductive, PTL

\* execute_plan and resume_after_approval never run a step whose tool needs
\* approval unless the request of that very step has been approved.
THEOREM RunsNeedApproval == Spec => []RunsAreApproved
<1>1. IInv => RunsAreApproved
  BY DEF IInv
<1> QED
  BY <1>1, Inductive, PTL

-----------------------------------------------------------------------------
(* One approval in the plan and no retry.  Without a retry the task is      *)
(* PENDING once, so one execute request goes through the plan; with one     *)
(* step to approve it parks the task once, so one resume claims it.  The    *)
(* invariant says which of the two drives the plan, and what the driver may *)
(* rely on.  Without these two conditions the properties are false: the run *)
(* task_double shows a second run of an approved step.                      *)

OneApproval == MaxRetries = 0 /\ \A k, l \in Risky : k = l

\* The execute request, and a resume that has claimed the task.
Executes(p) == proc[p].pc # "idle" /\ proc[p].path = "execute"
Resumes(p) ==
  proc[p].path = "resume" /\ proc[p].pc \in {"claimed", "running", "record", "add", "enter"}
Drives(p) == Executes(p) \/ Resumes(p)

\* The execute request is gone, and none follows.
ExecuteIsOver == status # "PENDING" /\ \A p \in Proc : ~Executes(p)

\* No step has been run on an approval.
NothingResumed == \A i \in DOMAIN rows : rows[i].request # "none" => rows[i].runs = 0

\* The steps before k have completed, in the first n rows.
DoneBefore(k, n) ==
  \A l \in 1..(k - 1) :
    \E j \in 1..n : rows[j].order = l /\ rows[j].status = "COMPLETED"

OneDriver ==
  /\ \A p, q \in Proc : Drives(p) /\ Drives(q) => p = q
  /\ \A p \in Proc : Resumes(p) => ExecuteIsOver /\ status # "AWAITING_APPROVAL"

\* Before execute_existing there is nothing; while the task is parked nobody
\* drives it and the approved step has not run.
PhaseOK ==
  /\ status = "PENDING" => rows = <<>> /\ \A p \in Proc : proc[p].pc = "idle"
  /\ status = "AWAITING_APPROVAL" =>
       ExecuteIsOver /\ NothingResumed /\ \A p \in Proc : ~Drives(p)
  /\ ~NothingResumed => ExecuteIsOver /\ status # "AWAITING_APPROVAL"

\* What a request may rely on.
RequestFine(p) ==
  /\ At(p, "idle") => proc[p] = IdleProc
  /\ proc[p].pc \in {"planning", "check", "skip", "mark", "park", "parkCas", "parkSet"}
       => proc[p].path = "execute"
  /\ proc[p].pc \in {"load", "loadTask", "claim", "claimed", "refuse"} =>
       proc[p].path = "resume" /\ Row(p).request \in {"APPROVED", "REJECTED"}
  /\ proc[p].pc \in {"claim", "refuse"} => ExecuteIsOver
  /\ At(p, "claimed") => NothingResumed
  /\ At(p, "refuse") => Row(p).request = "REJECTED"
  /\ proc[p].pc \in {"running", "record"} =>
       /\ Row(p).request \notin {"PENDING", "REJECTED"}
       /\ Row(p).status # "COMPLETED"
       /\ Row(p).runs > 0
  /\ proc[p].pc \in {"enter", "mark"} => Row(p).status = "PENDING"
  /\ proc[p].pc \in {"enter", "running", "record"} => Row(p).order = proc[p].order
  /\ proc[p].pc \in OnRow => Row(p).status # "SKIPPED"

RequestOK == \A p \in Proc : RequestFine(p)

\* How far the driver is.
ProgressFine(p) ==
  /\ At(p, "planning") => proc[p].order = 1
  /\ At(p, "skip") => proc[p].fate # "ok"
  /\ proc[p].pc \in {"check", "add"} => DoneBefore(proc[p].order, Len(rows))
  /\ At(p, "finalize") /\ proc[p].fate = "ok" => DoneBefore(PlanSize + 1, Len(rows))
  /\ Resumes(p) /\ proc[p].pc \in {"add", "enter"} =>
       \A k \in Risky : k < proc[p].order
  /\ Resumes(p) /\ proc[p].pc \in {"running", "record"} =>
       \A k \in Risky : k <= proc[p].order

ProgressOK == \A p \in Proc : ProgressFine(p)

\* What every row shows: a row that is not SKIPPED comes after the completed
\* rows of all the steps before it.
RowFine(i) ==
  /\ rows[i].runs <= 1
  /\ rows[i].request # "none" => rows[i].order \in Risky
  /\ rows[i].status = "COMPLETED" => rows[i].runs > 0 /\ rows[i].request # "REJECTED"
  /\ rows[i].status = "SKIPPED" => rows[i].runs = 0 /\ rows[i].request = "none"
  /\ rows[i].status # "SKIPPED" => DoneBefore(rows[i].order, i - 1)

HistoryOK == \A i \in DOMAIN rows : RowFine(i)

OrderInv == IInv /\ OneDriver /\ PhaseOK /\ RequestOK /\ ProgressOK /\ HistoryOK

-----------------------------------------------------------------------------
\* A step that has completed stays so when its row does.
LEMMA DoneKept ==
  ASSUME NEW k \in Nat, NEW n \in Nat, NEW m \in Nat, n <= m,
         \A j \in 1..n : rows[j].status = "COMPLETED" =>
           rows'[j].status = "COMPLETED" /\ rows'[j].order = rows[j].order,
         DoneBefore(k, n)
  PROVE  \A l \in 1..(k - 1) :
           \E j \in 1..m : rows'[j].order = l /\ rows'[j].status = "COMPLETED"
BY DEF DoneBefore

\* Only this request moves.
ActsAlone(p) == proc' = [proc EXCEPT ![p] = proc'[p]]

\* The request becomes the driver only where there is none, and parks the task
\* only as it leaves.
KeepsDriver(p) ==
  /\ status' # "PENDING"
  /\ Executes(p)' => Executes(p) \/ status = "PENDING"
  /\ Resumes(p)' => \/ Resumes(p) /\ status' # "AWAITING_APPROVAL"
                    \/ status = "AWAITING_APPROVAL" /\ status' = "EXECUTING"
  /\ status' = "AWAITING_APPROVAL" =>
       (status = "AWAITING_APPROVAL" \/ Executes(p)) /\ ~Drives(p)'

\* A step of one request that leaves the rows alone.
LEMMA QuietOrder ==
  ASSUME OrderInv, IInv', UNCHANGED rows, NEW p \in Proc, ActsAlone(p), KeepsDriver(p),
         RequestFine(p)', ProgressFine(p)'
  PROVE  OrderInv'
<1> USE DEF KeepsDriver, ActsAlone
<1> USE DEF OrderInv
<1>0. /\ proc \in [Proc -> Process]
      /\ \A q \in Proc : q # p => proc'[q] = proc[q]
  BY DEF IInv, TypeOK
<1>1. \A q \in Proc : q # p =>
         (Executes(q)' <=> Executes(q)) /\ (Resumes(q)' <=> Resumes(q))
  BY <1>0 DEF Executes, Resumes
<1>3. NothingResumed' <=> NothingResumed
  BY DEF NothingResumed
<1>4. status = "PENDING" => \A q \in Proc : ~Drives(q)
  BY DEF PhaseOK, Drives, Executes, Resumes
<1>2. ExecuteIsOver => ExecuteIsOver'
  BY <1>1 DEF ExecuteIsOver
<1>5. OneDriver'
  <2>1. \A q, r \in Proc : Drives(q)' /\ Drives(r)' => q = r
    BY <1>1, <1>4 DEF OneDriver, Drives, PhaseOK
  <2>2. ASSUME NEW q \in Proc, Resumes(q)'
        PROVE  ExecuteIsOver' /\ status' # "AWAITING_APPROVAL"
    BY <2>2, <1>1, <1>2 DEF OneDriver, PhaseOK, ExecuteIsOver, Drives
  <2> QED
    BY <2>1, <2>2 DEF OneDriver
<1>6. PhaseOK'
  <2>1. ASSUME status' = "AWAITING_APPROVAL"
        PROVE  ExecuteIsOver' /\ NothingResumed' /\ \A q \in Proc : ~Drives(q)'
    <3>1. CASE status = "AWAITING_APPROVAL"
      BY <2>1, <3>1, <1>1, <1>2, <1>3 DEF PhaseOK, Drives
    <3>2. CASE Executes(p)
      BY <2>1, <3>2, <1>1, <1>3 DEF PhaseOK, Drives, OneDriver, ExecuteIsOver
    <3> QED
      BY <2>1, <3>1, <3>2
  <2>2. ~NothingResumed' => ExecuteIsOver' /\ status' # "AWAITING_APPROVAL"
    BY <1>2, <1>3, <2>1 DEF PhaseOK
  <2> QED
    BY <2>1, <2>2 DEF PhaseOK
<1>7. RequestOK'
  <2> SUFFICES ASSUME NEW q \in Proc, q # p PROVE RequestFine(q)'
    BY DEF RequestOK
  <2>1. RequestFine(q)
    BY DEF RequestOK
  <2> QED
    BY <2>1, <1>0, <1>2, <1>3 DEF RequestFine, At, Row
<1>8. ProgressOK'
  <2> SUFFICES ASSUME NEW q \in Proc, q # p PROVE ProgressFine(q)'
    BY DEF ProgressOK
  <2>1. ProgressFine(q)
    BY DEF ProgressOK
  <2> QED
    BY <2>1, <1>0, <1>1 DEF ProgressFine, At, DoneBefore
<1>9. HistoryOK'
  BY DEF HistoryOK, RowFine, DoneBefore
<1> QED
  BY <1>5, <1>6, <1>7, <1>8, <1>9

\* A step of one request that rewrites one row, and leaves the task's status
\* alone.  What the row loses must not be what another request relies on.
LEMMA RewriteOrder ==
  ASSUME OrderInv, IInv', UNCHANGED status,
         NEW p \in Proc, NEW new, proc' = [proc EXCEPT ![p] = new],
         NEW i \in DOMAIN rows, NEW row \in StepRow, rows' = [rows EXCEPT ![i] = row],
         Executes(p)' => Executes(p), Resumes(p)' => Resumes(p),
         RequestFine(p)', ProgressFine(p)',
         row.order = rows[i].order, row.runs >= rows[i].runs,
         row.status # "SKIPPED", rows[i].status # "SKIPPED",
         rows[i].status = "COMPLETED" => row.status = "COMPLETED",
         row.runs <= 1,
         row.request # "none" => row.order \in Risky,
         row.status = "COMPLETED" => row.runs > 0 /\ row.request # "REJECTED",
         row.status # rows[i].status =>
           \A q \in Proc : q # p /\ proc[q].row = i =>
             proc[q].pc \notin {"enter", "mark", "running", "record"},
         row.request # rows[i].request =>
           \A q \in Proc : q # p /\ proc[q].row = i =>
             proc[q].pc \notin {"enter", "load", "loadTask", "claim", "claimed", "refuse",
                                "running", "record"},
         \/ row.request = "none" \/ row.runs = 0 \/ Resumes(p)
         \/ row.runs = rows[i].runs /\ rows[i].request # "none"
  PROVE  OrderInv'
<1> USE DEF OrderInv
<1>0. /\ proc \in [Proc -> Process]
      /\ \A q \in Proc : q # p => proc'[q] = proc[q]
      /\ rows \in Seq(StepRow) /\ Len(rows) \in Nat /\ DOMAIN rows = 1..Len(rows)
      /\ rows[i] \in StepRow
  BY Table DEF IInv, TypeOK
<1>r. /\ Len(rows') = Len(rows)
      /\ DOMAIN rows' = DOMAIN rows
      /\ rows'[i] = row
      /\ \A j \in DOMAIN rows : j # i => rows'[j] = rows[j]
  BY <1>0, RewriteRow
<1>1. \A q \in Proc : q # p =>
         (Executes(q)' <=> Executes(q)) /\ (Resumes(q)' <=> Resumes(q))
  BY <1>0 DEF Executes, Resumes
<1>2. ExecuteIsOver => ExecuteIsOver'
  BY <1>1 DEF ExecuteIsOver
<1>3. NothingResumed => NothingResumed' \/ Resumes(p)
  BY <1>0, <1>r DEF NothingResumed
<1>4. status # "PENDING"
  BY <1>0 DEF PhaseOK
<1>5. OneDriver'
  <2>1. \A q, r \in Proc : Drives(q)' /\ Drives(r)' => q = r
    BY <1>1 DEF OneDriver, Drives
  <2>2. ASSUME NEW q \in Proc, Resumes(q)'
        PROVE  ExecuteIsOver' /\ status' # "AWAITING_APPROVAL"
    BY <2>2, <1>1, <1>2 DEF OneDriver
  <2> QED
    BY <2>1, <2>2 DEF OneDriver
<1>6. PhaseOK'
  BY <1>1, <1>2, <1>3, <1>4 DEF PhaseOK, OneDriver, Drives
<1>7. RequestOK'
  <2> SUFFICES ASSUME NEW q \in Proc, q # p PROVE RequestFine(q)'
    BY DEF RequestOK
  <2>1. RequestFine(q) /\ proc'[q] = proc[q]
    BY <1>0 DEF RequestOK
  <2>2. At(q, "claimed") => NothingResumed'
    <3>1. At(q, "claimed") => Resumes(q) /\ NothingResumed
      BY <2>1 DEF RequestFine, Resumes, At
    <3> QED
      BY <3>1, <1>3 DEF OneDriver, Drives
  <2>3. CASE proc[q].row # i
    <3>1. proc[q].pc \in OnRow => Row(q)' = Row(q)
      BY <2>1, <2>3, <1>0, <1>r, ProcessFields DEF Row
    <3> QED
      BY <2>1, <2>2, <3>1, <1>2 DEF RequestFine, At, OnRow
  <2>4. CASE proc[q].row = i
    <3>1. Row(q)' = row /\ Row(q) = rows[i]
      BY <2>1, <2>4, <1>r DEF Row
    <3> QED
      BY <2>1, <2>2, <2>4, <3>1, <1>0, <1>2 DEF RequestFine, At, OnRow, StepRow
  <2> QED
    BY <2>3, <2>4
<1>d. ASSUME NEW k \in Nat, NEW n \in 0..Len(rows), DoneBefore(k, n)
      PROVE  \A l \in 1..(k - 1) :
               \E j \in 1..n : rows'[j].order = l /\ rows'[j].status = "COMPLETED"
  <2>1. \A j \in 1..n : rows[j].status = "COMPLETED" =>
           rows'[j].status = "COMPLETED" /\ rows'[j].order = rows[j].order
    BY <1>0, <1>r
  <2> QED
    BY <1>0, <1>d, <2>1, DoneKept
<1>8. ProgressOK'
  <2> SUFFICES ASSUME NEW q \in Proc, q # p PROVE ProgressFine(q)'
    BY DEF ProgressOK
  <2>1. ProgressFine(q) /\ proc'[q] = proc[q]
    BY <1>0 DEF ProgressOK
  <2>2. proc[q].order \in Nat /\ PlanSize + 1 \in Nat /\ Len(rows) \in 0..Len(rows)
    BY <1>0, ProcessFields, TaskAssumption DEF Process
  <2>3. proc[q].pc \in {"check", "add"} => DoneBefore(proc[q].order, Len(rows))'
    BY <2>1, <2>2, <1>d, <1>r DEF ProgressFine, DoneBefore
  <2>4. At(q, "finalize") /\ proc[q].fate = "ok" => DoneBefore(PlanSize + 1, Len(rows))'
    BY <2>1, <2>2, <1>d, <1>r DEF ProgressFine, DoneBefore
  <2> QED
    BY <2>1, <2>3, <2>4, <1>1 DEF ProgressFine, At
<1>9. HistoryOK'
  <2> SUFFICES ASSUME NEW j \in DOMAIN rows PROVE RowFine(j)'
    BY <1>r DEF HistoryOK
  <2>1. RowFine(j) /\ rows[j] \in StepRow /\ rows'[j].order = rows[j].order
        /\ j \in 1..Len(rows)
    BY <1>0, <1>r, ProcessFields DEF HistoryOK
  <2>2. rows'[j].status # "SKIPPED" => DoneBefore(rows[j].order, j - 1)'
    <3>1. rows'[j].status # "SKIPPED" => DoneBefore(rows[j].order, j - 1)
      BY <2>1, <1>r DEF RowFine
    <3>2. rows[j].order \in Nat /\ j - 1 \in 0..Len(rows)
      BY <2>1, <1>0 DEF StepRow
    <3>3. rows'[j].status # "SKIPPED" =>
            \A l \in 1..(rows[j].order - 1) :
              \E m \in 1..(j - 1) : rows'[m].order = l /\ rows'[m].status = "COMPLETED"
      BY <3>1, <3>2, <1>d
    <3> QED
      BY <3>3, <2>1 DEF DoneBefore
  <2> QED
    BY <2>1, <2>2, <1>r DEF RowFine, DoneBefore
<1> QED
  BY <1>5, <1>6, <1>7, <1>8, <1>9

\* A step of the driver that appends a row no run has touched.
LEMMA AppendOrder ==
  ASSUME OrderInv, IInv', UNCHANGED status,
         NEW p \in Proc, Drives(p), NEW new, proc' = [proc EXCEPT ![p] = new],
         NEW k \in 1..PlanSize, NEW st \in StepStatus \ {"COMPLETED"},
         rows' = Append(rows, NewRow(k, st)),
         Executes(p)' => Executes(p), Resumes(p)' => Resumes(p),
         RequestFine(p)', ProgressFine(p)',
         st # "SKIPPED" => DoneBefore(k, Len(rows))
  PROVE  OrderInv'
<1> USE DEF OrderInv
<1> DEFINE row == NewRow(k, st)
<1>0. /\ proc \in [Proc -> Process]
      /\ \A q \in Proc : q # p => proc'[q] = proc[q]
      /\ rows \in Seq(StepRow)
      /\ row \in StepRow /\ row.order = k /\ row.status = st
      /\ row.request = "none" /\ row.runs = 0
  BY DEF IInv, TypeOK, NewRow, StepRow, RequestStatus
<1> HIDE DEF row
<1>r. /\ Len(rows') = Len(rows) + 1
      /\ Len(rows) \in Nat
      /\ DOMAIN rows = 1..Len(rows)
      /\ DOMAIN rows' = 1..(Len(rows) + 1)
      /\ rows'[Len(rows) + 1] = row
      /\ \A j \in DOMAIN rows : rows'[j] = rows[j]
  BY <1>0, AppendRow DEF row
<1>1. \A q \in Proc : q # p =>
         (Executes(q)' <=> Executes(q)) /\ (Resumes(q)' <=> Resumes(q))
  BY <1>0 DEF Executes, Resumes
<1>2. ExecuteIsOver => ExecuteIsOver'
  BY <1>1 DEF ExecuteIsOver
<1>3. NothingResumed' <=> NothingResumed
  <2>1. NothingResumed => NothingResumed'
    <3> SUFFICES ASSUME NothingResumed, NEW j \in 1..(Len(rows) + 1),
                        rows'[j].request # "none"
                 PROVE  rows'[j].runs = 0
      BY <1>r DEF NothingResumed
    <3>1. CASE j = Len(rows) + 1
      BY <3>1, <1>r, <1>0
    <3>2. CASE j \in DOMAIN rows
      BY <3>2, <1>r DEF NothingResumed
    <3> QED
      BY <3>1, <3>2, <1>r
  <2>2. NothingResumed' => NothingResumed
    BY <1>r DEF NothingResumed
  <2> QED
    BY <2>1, <2>2
<1>4. status # "PENDING"
  BY DEF PhaseOK, Drives, Executes, Resumes
<1>5. OneDriver'
  <2>1. \A q, r \in Proc : Drives(q)' /\ Drives(r)' => q = r
    BY <1>1 DEF OneDriver, Drives
  <2>2. ASSUME NEW q \in Proc, Resumes(q)'
        PROVE  ExecuteIsOver' /\ status' # "AWAITING_APPROVAL"
    BY <2>2, <1>1, <1>2 DEF OneDriver
  <2> QED
    BY <2>1, <2>2 DEF OneDriver
<1>6. PhaseOK'
  BY <1>1, <1>2, <1>3, <1>4 DEF PhaseOK, OneDriver, Drives
<1>7. RequestOK'
  <2> SUFFICES ASSUME NEW q \in Proc, q # p PROVE RequestFine(q)'
    BY DEF RequestOK
  <2>1. RequestFine(q) /\ proc'[q] = proc[q]
    BY <1>0 DEF RequestOK
  <2>2. proc[q].pc \in OnRow => Row(q)' = Row(q)
    BY <2>1, <1>r, ProcessFields DEF Row
  <2> QED
    BY <2>1, <2>2, <1>2, <1>3 DEF RequestFine, At, OnRow
<1>d. ASSUME NEW l \in Nat, NEW n \in 0..Len(rows), NEW m \in Nat, n <= m, DoneBefore(l, n)
      PROVE  \A h \in 1..(l - 1) :
               \E j \in 1..m : rows'[j].order = h /\ rows'[j].status = "COMPLETED"
  <2>1. \A j \in 1..n : rows[j].status = "COMPLETED" =>
           rows'[j].status = "COMPLETED" /\ rows'[j].order = rows[j].order
    BY <1>r
  <2>2. n \in Nat /\ n <= m /\ DoneBefore(l, n)
    BY <1>r, <1>d
  <2> QED
    BY <2>1, <2>2, DoneKept
<1>8. ProgressOK'
  <2> SUFFICES ASSUME NEW q \in Proc, q # p PROVE ProgressFine(q)'
    BY DEF ProgressOK
  <2>1. ProgressFine(q) /\ proc'[q] = proc[q]
    BY <1>0 DEF ProgressOK
  <2>2. proc[q].order \in Nat /\ PlanSize + 1 \in Nat /\ Len(rows) \in 0..Len(rows)
        /\ Len(rows) + 1 \in Nat /\ Len(rows) <= Len(rows) + 1
    BY <1>r, ProcessFields, TaskAssumption DEF Process
  <2>3. proc[q].pc \in {"check", "add"} => DoneBefore(proc[q].order, Len(rows))'
    BY <2>1, <2>2, <1>d, <1>r DEF ProgressFine, DoneBefore
  <2>4. At(q, "finalize") /\ proc[q].fate = "ok" => DoneBefore(PlanSize + 1, Len(rows))'
    BY <2>1, <2>2, <1>d, <1>r DEF ProgressFine, DoneBefore
  <2> QED
    BY <2>1, <2>3, <2>4, <1>1 DEF ProgressFine, At
<1>9. HistoryOK'
  <2> SUFFICES ASSUME NEW j \in 1..(Len(rows) + 1) PROVE RowFine(j)'
    BY <1>r DEF HistoryOK
  <2>1. CASE j \in DOMAIN rows
    <3>1. RowFine(j) /\ rows[j] \in StepRow /\ rows'[j] = rows[j] /\ j \in 1..Len(rows)
      BY <2>1, <1>r, ProcessFields DEF HistoryOK
    <3>2. rows[j].order \in Nat /\ j - 1 \in 0..Len(rows) /\ j - 1 \in Nat /\ j - 1 <= j - 1
      BY <3>1, <1>r DEF StepRow
    <3>3. ASSUME rows[j].status # "SKIPPED"
          PROVE  \A h \in 1..(rows[j].order - 1) :
                   \E m \in 1..(j - 1) : rows'[m].order = h /\ rows'[m].status = "COMPLETED"
      <4>1. DoneBefore(rows[j].order, j - 1)
        BY <3>1, <3>3 DEF RowFine
      <4> QED
        BY <4>1, <3>2, <1>d
    <3> QED
      BY <3>1, <3>3 DEF RowFine, DoneBefore
  <2>2. CASE j = Len(rows) + 1
    <3>1. k \in Nat /\ Len(rows) \in 0..Len(rows) /\ j - 1 = Len(rows)
      BY <2>2, <1>r
    <3>2. ASSUME st # "SKIPPED"
          PROVE  \A h \in 1..(k - 1) :
                   \E m \in 1..(j - 1) : rows'[m].order = h /\ rows'[m].status = "COMPLETED"
      <4>1. DoneBefore(k, Len(rows)) /\ Len(rows) <= Len(rows)
        BY <3>2, <1>r
      <4>2. \A h \in 1..(k - 1) :
              \E m \in 1..Len(rows) : rows'[m].order = h /\ rows'[m].status = "COMPLETED"
        BY <4>1, <3>1, <1>r, <1>d
      <4> QED
        BY <4>2, <3>1
    <3> QED
      BY <2>2, <3>2, <1>0, <1>r DEF RowFine, DoneBefore
  <2> QED
    BY <2>1, <2>2, <1>r
<1> QED
  BY <1>5, <1>6, <1>7, <1>8, <1>9

-----------------------------------------------------------------------------
\* The fields a move leaves behind.
LEMMA MoveFields ==
  ASSUME IInv, NEW p \in Proc, NEW pc, NEW fate, NEW order, NEW seen,
         Move(p, pc, fate, order, seen)
  PROVE  /\ proc'[p].pc = pc /\ proc'[p].fate = fate /\ proc'[p].order = order
         /\ proc'[p].path = proc[p].path /\ proc'[p].row = proc[p].row
         /\ proc' = [proc EXCEPT ![p] = proc'[p]]
<1> DEFINE new == [proc[p] EXCEPT !.pc = pc, !.fate = fate, !.order = order, !.seen = seen]
<1>1. /\ new.pc = pc /\ new.fate = fate /\ new.order = order
      /\ new.path = proc[p].path /\ new.row = proc[p].row
  BY ProcessFields DEF Process
<1>2. proc' = [proc EXCEPT ![p] = new] /\ proc'[p] = new
  BY DEF Move, IInv, TypeOK
<1> HIDE DEF new
<1> QED
  BY <1>1, <1>2

\* A request that leaves.
LEMMA LeaveOrder ==
  ASSUME OrderInv, IInv', UNCHANGED rows, NEW p \in Proc, Leave(p), ~At(p, "idle"),
         status' # "PENDING" \/ UNCHANGED status,
         status' = "AWAITING_APPROVAL" => status = "AWAITING_APPROVAL" \/ Executes(p)
  PROVE  OrderInv'
<1>1. proc'[p] = IdleProc /\ proc' = [proc EXCEPT ![p] = IdleProc]
  BY DEF Leave, OrderInv, IInv, TypeOK
<1>2. ~Executes(p)' /\ ~Resumes(p)' /\ ~Drives(p)'
  BY <1>1 DEF Executes, Resumes, Drives, IdleProc
<1>3. RequestFine(p)' /\ ProgressFine(p)'
  BY <1>1 DEF RequestFine, ProgressFine, At, IdleProc, OnRow, Resumes
<1>4. status' # "PENDING"
  BY DEF OrderInv, PhaseOK, At
<1> QED
  BY <1>1, <1>2, <1>3, <1>4, QuietOrder DEF ActsAlone, KeepsDriver

\* The execute route, and the end of planning.
LEMMA PlanningOrder ==
  ASSUME OrderInv, IInv', NEW p \in Proc, Execute(p) \/ Planning(p)
  PROVE  OrderInv'
<1>i. IInv /\ RequestFine(p) /\ ProgressFine(p)
  BY DEF OrderInv, RequestOK, ProgressOK
<1>1. CASE Execute(p)
  <2>1. Move(p, "planning", proc[p].fate, proc[p].order, proc[p].seen)
    BY <1>1, <1>i, GoMoves DEF Execute
  <2>2. proc[p].path = "execute" /\ proc[p].order = 1
    BY <1>1, <1>i DEF Execute, RequestFine, At, IdleProc
  <2>3. /\ proc'[p].pc = "planning" /\ proc'[p].order = 1 /\ proc'[p].path = "execute"
        /\ proc' = [proc EXCEPT ![p] = proc'[p]]
    BY <1>i, <2>1, <2>2, MoveFields
  <2>4. RequestFine(p)' /\ ProgressFine(p)' /\ ~Resumes(p)'
    BY <2>3 DEF RequestFine, ProgressFine, At, OnRow, Resumes
  <2>5. status = "PENDING" /\ status' = "PLANNING" /\ UNCHANGED rows
    BY <1>1 DEF Execute, Cas
  <2> QED
    BY <2>3, <2>4, <2>5, QuietOrder DEF ActsAlone, KeepsDriver
<1>2. CASE (FailPlanning(p) \/ FinishPlanning(p)) /\ Leave(p)
  <2>1. At(p, "planning") /\ UNCHANGED rows /\ (status' = "FAILED" \/ UNCHANGED status)
    BY <1>2 DEF FailPlanning, FinishPlanning, Cas, Go, Leave, At, IdleProc, IInv, TypeOK
  <2> QED
    BY <1>2, <2>1, LeaveOrder DEF At
<1>3. CASE FinishPlanning(p) /\ Cas("PLANNING", "EXECUTING") /\ Go(p, "check")
  <2>1. Move(p, "check", proc[p].fate, proc[p].order, proc[p].seen)
    BY <1>3, <1>i, GoMoves
  <2>2. proc[p].path = "execute" /\ proc[p].order = 1 /\ Executes(p)
    BY <1>3, <1>i DEF FinishPlanning, RequestFine, ProgressFine, At, Executes
  <2>3. /\ proc'[p].pc = "check" /\ proc'[p].order = 1 /\ proc'[p].path = "execute"
        /\ proc' = [proc EXCEPT ![p] = proc'[p]]
    BY <1>i, <2>1, <2>2, MoveFields
  <2>4. RequestFine(p)' /\ ProgressFine(p)' /\ ~Resumes(p)'
    BY <2>3 DEF RequestFine, ProgressFine, At, OnRow, Resumes, DoneBefore
  <2>5. status = "PLANNING" /\ status' = "EXECUTING" /\ UNCHANGED rows
    BY <1>3 DEF FinishPlanning, Cas
  <2> QED
    BY <2>2, <2>3, <2>4, <2>5, QuietOrder DEF ActsAlone, KeepsDriver
<1> QED
  BY <1>1, <1>2, <1>3 DEF Planning, FailPlanning, FinishPlanning

\* The loop over the plan.
LEMMA PlanLoopOrder ==
  ASSUME OrderInv, IInv', NEW p \in Proc, PlanLoop(p)
  PROVE  OrderInv'
<1>i. IInv /\ RequestFine(p) /\ ProgressFine(p)
  BY DEF OrderInv, RequestOK, ProgressOK
<1>f. /\ proc[p] \in Process /\ proc[p].order \in 1..(PlanSize + 1)
      /\ Len(rows) \in Nat /\ DOMAIN rows = 1..Len(rows) /\ rows \in Seq(StepRow)
      /\ PlanSize \in Nat
  BY <1>i, ProcessFields, TaskAssumption DEF Process
<1>s. status # "PENDING"
  BY DEF PlanLoop, Check, AddStep, FinishLoop, Skip, Finalize, At, OrderInv, PhaseOK
<1>1. CASE Check(p)
  <2>1. /\ At(p, "check") /\ proc[p].path = "execute" /\ Executes(p)
        /\ UNCHANGED rows /\ UNCHANGED status
        /\ DoneBefore(proc[p].order, Len(rows))
    BY <1>1, <1>i DEF Check, RequestFine, ProgressFine, At, Executes
  <2>2. CASE AtEnd(p) /\ GoWith(p, "finalize", "ok")
    <3>1. Move(p, "finalize", "ok", proc[p].order, proc[p].seen)
      BY <1>i, <2>2, GoMoves
    <3>2. /\ proc'[p].pc = "finalize" /\ proc'[p].path = "execute"
          /\ proc' = [proc EXCEPT ![p] = proc'[p]]
      BY <1>i, <2>1, <3>1, MoveFields
    <3>3. DoneBefore(PlanSize + 1, Len(rows))
      BY <1>f, <2>1, <2>2 DEF AtEnd
    <3>4. RequestFine(p)' /\ ProgressFine(p)' /\ ~Resumes(p)'
      BY <2>1, <3>2, <3>3 DEF RequestFine, ProgressFine, At, OnRow, Resumes, DoneBefore
    <3>5. status # "AWAITING_APPROVAL"
      BY <2>1 DEF OrderInv, PhaseOK, Drives
    <3> QED
      BY <1>s, <2>1, <3>2, <3>4, <3>5, QuietOrder DEF ActsAlone, KeepsDriver
  <2>3. CASE ~AtEnd(p) /\ status = "CANCELLED"
    <3>1. proc' = [proc EXCEPT ![p].pc = "skip", ![p].fate = "cancel",
                               ![p].order = proc[p].order + 1]
      BY <1>1, <2>3 DEF Check
    <3>2. Move(p, "skip", "cancel", proc[p].order + 1, proc[p].seen)
      BY <1>i, <3>1, GoMoves
    <3>3. /\ proc'[p].pc = "skip" /\ proc'[p].fate = "cancel" /\ proc'[p].path = "execute"
          /\ proc' = [proc EXCEPT ![p] = proc'[p]]
      BY <1>i, <2>1, <3>2, MoveFields
    <3>4. RequestFine(p)' /\ ProgressFine(p)' /\ ~Resumes(p)'
      BY <2>1, <3>3 DEF RequestFine, ProgressFine, At, OnRow, Resumes
    <3> QED
      BY <1>s, <2>1, <2>3, <3>3, <3>4, QuietOrder DEF ActsAlone, KeepsDriver
  <2>4. CASE Go(p, "add")
    <3>1. Move(p, "add", proc[p].fate, proc[p].order, proc[p].seen)
      BY <1>i, <2>4, GoMoves
    <3>2. /\ proc'[p].pc = "add" /\ proc'[p].order = proc[p].order
          /\ proc'[p].path = "execute"
          /\ proc' = [proc EXCEPT ![p] = proc'[p]]
      BY <1>i, <2>1, <3>1, MoveFields
    <3>3. RequestFine(p)' /\ ProgressFine(p)' /\ ~Resumes(p)'
      BY <2>1, <3>2 DEF RequestFine, ProgressFine, At, OnRow, Resumes, DoneBefore
    <3>4. status # "AWAITING_APPROVAL"
      BY <2>1 DEF OrderInv, PhaseOK, Drives
    <3> QED
      BY <1>s, <2>1, <3>2, <3>3, <3>4, QuietOrder DEF ActsAlone, KeepsDriver
  <2> QED
    BY <1>1, <2>2, <2>3, <2>4 DEF Check
<1>2. CASE AddStep(p)
  <2>1. /\ At(p, "add") /\ Drives(p) /\ UNCHANGED status
        /\ DoneBefore(proc[p].order, Len(rows))
        /\ proc[p].order \in 1..PlanSize
        /\ rows' = Append(rows, NewRow(proc[p].order, "PENDING"))
    BY <1>2, <1>i, <1>f DEF AddStep, ProgressFine, At, Drives, Executes, Resumes, AtEnd, Process
  <2> DEFINE new == OnAnotherRow(proc[p], "enter", Len(rows) + 1)
  <2>2. proc' = [proc EXCEPT ![p] = new] /\ proc'[p] = new
    BY <1>2, <1>i DEF AddStep, OnAnotherRow, IInv, TypeOK
  <2>3. /\ new.pc = "enter" /\ new.row = Len(rows) + 1
        /\ new.order = proc[p].order /\ new.path = proc[p].path
    BY <1>f DEF OnAnotherRow, Process
  <2> HIDE DEF new
  <2>4. NewRow(proc[p].order, "PENDING") \in StepRow
    BY <2>1 DEF NewRow, StepRow, StepStatus, RequestStatus
  <2>5. rows'[Len(rows) + 1] = NewRow(proc[p].order, "PENDING")
    BY <1>f, <2>1, <2>4, AppendRow
  <2>6. RequestFine(p)'
    BY <2>2, <2>3, <2>5 DEF RequestFine, At, Row, NewRow
  <2>7. Executes(p)' => Executes(p)
    BY <2>1, <2>2, <2>3 DEF Executes, At
  <2>8. Resumes(p)' => Resumes(p)
    BY <2>1, <2>2, <2>3 DEF Resumes, At
  <2>9. ProgressFine(p)'
    BY <1>i, <2>1, <2>2, <2>3, <2>8 DEF ProgressFine, At
  <2> QED
    BY <2>1, <2>2, <2>6, <2>7, <2>8, <2>9, AppendOrder DEF StepStatus
<1>3. CASE FinishLoop(p)
  <2>1. /\ At(p, "add") /\ Drives(p) /\ UNCHANGED status /\ UNCHANGED rows
        /\ DoneBefore(PlanSize + 1, Len(rows))
    BY <1>3, <1>i, <1>f DEF FinishLoop, ProgressFine, At, Drives, Executes, Resumes, AtEnd, Process
  <2>2. Move(p, "finalize", "ok", proc[p].order, proc[p].seen)
    BY <1>i, <1>3, GoMoves DEF FinishLoop
  <2>3. /\ proc'[p].pc = "finalize" /\ proc'[p].path = proc[p].path
        /\ proc' = [proc EXCEPT ![p] = proc'[p]]
    BY <1>i, <2>2, MoveFields
  <2>4. RequestFine(p)' /\ ProgressFine(p)' /\ ~Resumes(p)'
    BY <2>1, <2>3 DEF RequestFine, ProgressFine, At, OnRow, Resumes, DoneBefore
  <2>5. Executes(p)' => Executes(p)
    BY <2>1, <2>3 DEF Executes, At
  <2>6. status # "AWAITING_APPROVAL"
    BY <2>1 DEF OrderInv, PhaseOK
  <2> QED
    BY <1>s, <2>1, <2>3, <2>4, <2>5, <2>6, QuietOrder DEF ActsAlone, KeepsDriver
<1>4. CASE Skip(p)
  <2>1. /\ At(p, "skip") /\ Executes(p) /\ Drives(p) /\ UNCHANGED status
        /\ proc[p].path = "execute" /\ proc[p].fate # "ok"
    BY <1>4, <1>i DEF Skip, RequestFine, ProgressFine, At, Executes, Drives
  <2>2. CASE AtEnd(p) /\ Go(p, "finalize") /\ UNCHANGED rows
    <3>1. Move(p, "finalize", proc[p].fate, proc[p].order, proc[p].seen)
      BY <1>i, <2>2, GoMoves
    <3>2. /\ proc'[p].pc = "finalize" /\ proc'[p].path = "execute" /\ proc'[p].fate # "ok"
          /\ proc' = [proc EXCEPT ![p] = proc'[p]]
      BY <1>i, <2>1, <3>1, MoveFields
    <3>3. RequestFine(p)' /\ ProgressFine(p)' /\ ~Resumes(p)'
      BY <3>2 DEF RequestFine, ProgressFine, At, OnRow, Resumes
    <3>4. status # "AWAITING_APPROVAL"
      BY <2>1 DEF OrderInv, PhaseOK
    <3> QED
      BY <1>s, <2>1, <2>2, <3>2, <3>3, <3>4, QuietOrder DEF ActsAlone, KeepsDriver
  <2>3. CASE ~AtEnd(p)
    <3>1. /\ proc[p].order \in 1..PlanSize /\ "SKIPPED" \in StepStatus \ {"COMPLETED"}
          /\ rows' = Append(rows, NewRow(proc[p].order, "SKIPPED"))
          /\ proc' = [proc EXCEPT ![p].order = proc[p].order + 1]
      BY <1>4, <1>f, <2>3 DEF Skip, AtEnd, StepStatus
    <3> DEFINE new == [proc[p] EXCEPT !.order = proc[p].order + 1]
    <3>2. proc' = [proc EXCEPT ![p] = new] /\ proc'[p] = new
      BY <1>i, <3>1 DEF IInv, TypeOK
    <3>3. /\ new.pc = "skip" /\ new.path = "execute" /\ new.fate # "ok"
      BY <1>f, <2>1 DEF Process, At
    <3> HIDE DEF new
    <3>4. RequestFine(p)' /\ ProgressFine(p)' /\ ~Resumes(p)'
      BY <3>2, <3>3 DEF RequestFine, ProgressFine, At, OnRow, Resumes
    <3> QED
      BY <2>1, <3>1, <3>2, <3>4, AppendOrder
  <2> QED
    BY <1>4, <2>2, <2>3 DEF Skip
<1>5. CASE Finalize(p)
  <2>1. /\ Leave(p) /\ UNCHANGED rows /\ ~At(p, "idle")
        /\ status' \in {"COMPLETED", "FAILED", "CANCELLED"}
    BY <1>5, <1>f DEF Finalize, Process, At
  <2> QED
    BY <2>1, LeaveOrder
<1> QED
  BY <1>1, <1>2, <1>3, <1>4, <1>5 DEF PlanLoop

\* What the acting request finds in its row, and leaves there.
LEMMA OwnRow ==
  ASSUME OrderInv, NEW p \in Proc, proc[p].pc \in OnRow, NEW row \in StepRow, SetRow(p, row)
  PROVE  /\ proc[p].row \in DOMAIN rows /\ proc[p].row \in 1..Len(rows)
         /\ Len(rows) \in Nat /\ Len(rows') = Len(rows)
         /\ rows' = [rows EXCEPT ![proc[p].row] = row]
         /\ rows'[proc[p].row] = row
         /\ \A j \in DOMAIN rows : j # proc[p].row => rows'[j] = rows[j]
         /\ Row(p) = rows[proc[p].row] /\ Row(p) \in StepRow
         /\ RowFine(proc[p].row)
<1>1. /\ rows \in Seq(StepRow) /\ proc[p].row \in DOMAIN rows /\ DOMAIN rows = 1..Len(rows)
      /\ Len(rows) \in Nat /\ Row(p) \in StepRow
  BY ProcessFields DEF OrderInv
<1>2. rows' = [rows EXCEPT ![proc[p].row] = row]
  BY DEF SetRow
<1> QED
  BY <1>1, <1>2, RewriteRow DEF Row, OrderInv, HistoryOK

\* One step of the plan.
LEMMA OneStepOrder ==
  ASSUME OneApproval, OrderInv, IInv', NEW p \in Proc, OneStep(p)
  PROVE  OrderInv'
<1>i. IInv /\ RequestFine(p) /\ ProgressFine(p)
  BY DEF OrderInv, RequestOK, ProgressOK
<1>f. /\ proc[p] \in Process /\ proc[p].order \in 1..(PlanSize + 1)
      /\ Len(rows) \in Nat /\ DOMAIN rows = 1..Len(rows) /\ rows \in Seq(StepRow)
      /\ PlanSize \in Nat
  BY <1>i, ProcessFields, TaskAssumption DEF Process
<1>d. /\ Drives(p) /\ proc[p].pc \in OnRow /\ proc[p].path \in {"execute", "resume"}
      /\ UNCHANGED status /\ Row(p) \in StepRow
      /\ proc[p].order \in 1..PlanSize
  BY <1>f, <1>i, ProcessFields
     DEF OneStep, Deny, StartRun, Return, Record, At, Drives, Executes, Resumes, OnRow, Process
<1>s. status # "PENDING" /\ status # "AWAITING_APPROVAL"
  BY <1>d DEF OrderInv, PhaseOK, Drives, Executes, Resumes
<1>o. \A q \in Proc : q # p => ~Drives(q)
  BY <1>d DEF OrderInv, OneDriver
\* Nobody else is at a place where the driver's row matters.
<1>q. ASSUME NEW q \in Proc, q # p
      PROVE  proc[q].pc \notin {"enter", "mark", "running", "record"}
  <2>1. proc[q] \in Process /\ RequestFine(q)
    BY <1>i, ProcessFields DEF OrderInv, RequestOK
  <2> QED
    BY <2>1, <1>o, <1>q DEF Drives, Executes, Resumes, RequestFine, Process
\* After a failed step.
<1>b. ASSUME AfterFailedStep(p)
      PROVE  /\ proc' = [proc EXCEPT ![p] = proc'[p]]
             /\ proc'[p].pc \in {"skip", "finalize"} /\ proc'[p].fate = "fail"
             /\ proc'[p].path = proc[p].path
             /\ proc'[p].pc = "skip" => proc[p].path = "execute"
  <2>1. CASE proc[p].path = "execute"
    <3>1. proc' = [proc EXCEPT ![p].pc = "skip", ![p].fate = "fail",
                               ![p].order = proc[p].order + 1]
      BY <1>b, <2>1 DEF AfterFailedStep
    <3>2. Move(p, "skip", "fail", proc[p].order + 1, proc[p].seen)
      BY <1>i, <3>1, GoMoves
    <3> QED
      BY <1>i, <2>1, <3>2, MoveFields
  <2>2. CASE proc[p].path # "execute"
    <3>1. Move(p, "finalize", "fail", proc[p].order, proc[p].seen)
      BY <1>b, <1>i, <2>2, GoMoves DEF AfterFailedStep
    <3> QED
      BY <1>i, <2>2, <3>1, MoveFields
  <2> QED
    BY <2>1, <2>2
<1>c. ASSUME AfterFailedStep(p)
      PROVE  /\ RequestFine(p)' /\ ProgressFine(p)' /\ ~Resumes(p)'
             /\ Executes(p)' => Executes(p)
  BY <1>b, <1>c, <1>d DEF RequestFine, ProgressFine, At, OnRow, Resumes, Executes
\* The driver rewrites its row.
<1>w. ASSUME NEW row \in StepRow, SetRow(p, row), proc' = [proc EXCEPT ![p] = proc'[p]],
             RequestFine(p)', ProgressFine(p)',
             Executes(p)' => Executes(p), Resumes(p)' => Resumes(p),
             row.order = Row(p).order, row.request = Row(p).request,
             row.runs >= Row(p).runs, row.runs <= 1,
             row.request = "none" \/ row.runs = Row(p).runs,
             row.status # "SKIPPED", Row(p).status \notin {"SKIPPED", "COMPLETED"},
             row.status = "COMPLETED" => row.runs > 0 /\ row.request # "REJECTED"
      PROVE  OrderInv'
  <2>1. /\ proc[p].row \in DOMAIN rows /\ Row(p) = rows[proc[p].row]
        /\ rows' = [rows EXCEPT ![proc[p].row] = row] /\ RowFine(proc[p].row)
    BY <1>d, <1>w, OwnRow
  <2>2. row.request # "none" => row.order \in Risky
    BY <1>w, <2>1 DEF RowFine
  <2>3. row.runs = Row(p).runs => row.request = "none" \/ Row(p).request # "none"
    BY <1>w
  <2>4. /\ row.status # "SKIPPED" /\ rows[proc[p].row].status # "SKIPPED"
        /\ row.order = rows[proc[p].row].order /\ row.runs >= rows[proc[p].row].runs
        /\ rows[proc[p].row].status = "COMPLETED" => row.status = "COMPLETED"
        /\ row.request = rows[proc[p].row].request
        /\ \/ row.request = "none" \/ row.runs = 0 \/ Resumes(p)
           \/ row.runs = rows[proc[p].row].runs /\ rows[proc[p].row].request # "none"
    BY <1>w, <2>1, <2>3
  <2>5. \A q \in Proc : q # p /\ proc[q].row = proc[p].row =>
           proc[q].pc \notin {"enter", "mark", "running", "record"}
    BY <1>q
  <2>6. /\ Executes(p)' => Executes(p)
        /\ Resumes(p)' => Resumes(p)
        /\ RequestFine(p)' /\ ProgressFine(p)' /\ proc' = [proc EXCEPT ![p] = proc'[p]]
        /\ UNCHANGED status /\ row.runs <= 1
        /\ row.status = "COMPLETED" => row.runs > 0 /\ row.request # "REJECTED"
    BY <1>d, <1>w
  <2> QED
    BY <2>1, <2>2, <2>4, <2>5, <2>6, RewriteOrder
<1>1. CASE Deny(p)
  <2> DEFINE row == [Row(p) EXCEPT !.status = "REJECTED"]
  <2>1. /\ row \in StepRow /\ row.order = Row(p).order /\ row.request = Row(p).request
        /\ row.runs = Row(p).runs /\ row.status = "REJECTED"
    BY <1>d, StatusRow DEF StepStatus
  <2>2. SetRow(p, row) /\ AfterFailedStep(p)
    BY <1>1 DEF Deny
  <2>3. Row(p).runs = 0 /\ Row(p).request = "none" /\ Row(p).status = "PENDING"
    BY <1>1, <1>i DEF Deny, At, IInv, EnterOK, RequestFine
  <2> HIDE DEF row
  <2> QED
    BY <1>b, <1>c, <1>w, <2>1, <2>2, <2>3
<1>2. CASE StartRun(p)
  <2> DEFINE row == [Row(p) EXCEPT !.runs = @ + 1]
  <2>1. Row(p).runs = 0 /\ Row(p).request = "none" /\ Row(p).status = "PENDING"
        /\ Row(p).order = proc[p].order /\ At(p, "enter")
    BY <1>2, <1>i DEF StartRun, At, IInv, EnterOK, RequestFine
  <2>2. /\ row \in StepRow /\ row.order = Row(p).order /\ row.request = "none"
        /\ row.runs = 1 /\ row.status = "PENDING"
    BY <1>d, <2>1, RunRow DEF StepRow
  <2>3. SetRow(p, row) /\ Move(p, "running", proc[p].fate, proc[p].order, proc[p].seen)
    BY <1>2, <1>i, GoMoves DEF StartRun
  <2> HIDE DEF row
  <2>4. /\ proc[p].row \in DOMAIN rows /\ Row(p) = rows[proc[p].row]
        /\ rows' = [rows EXCEPT ![proc[p].row] = row] /\ rows'[proc[p].row] = row
    BY <1>d, <2>2, <2>3, OwnRow
  <2>5. /\ proc'[p].pc = "running" /\ proc'[p].path = proc[p].path
        /\ proc'[p].order = proc[p].order /\ proc'[p].row = proc[p].row
        /\ proc' = [proc EXCEPT ![p] = proc'[p]]
    BY <1>i, <2>3, MoveFields
  <2>6. RequestFine(p)'
    BY <2>1, <2>2, <2>4, <2>5 DEF RequestFine, At, Row
  <2>7. (Executes(p)' => Executes(p)) /\ (Resumes(p)' => Resumes(p))
    BY <2>1, <2>5 DEF Executes, Resumes, At
  <2>8. ProgressFine(p)'
    <3>1. Resumes(p)' => \A k \in Risky : k < proc[p].order
      BY <1>i, <2>1, <2>7 DEF ProgressFine, At
    <3>2. Resumes(p)' => \A k \in Risky : k <= proc[p].order
      BY <1>f, <3>1, TaskAssumption
    <3> QED
      BY <2>5, <3>2 DEF ProgressFine, At
  <2>9. row.runs >= Row(p).runs /\ row.runs <= 1
    BY <2>1, <2>2
  <2> QED
    BY <1>w, <2>1, <2>2, <2>3, <2>5, <2>6, <2>7, <2>8, <2>9
<1>3. CASE Return(p)
  <2>1. PICK fate \in {"ok", "fail"} : GoWith(p, "record", fate)
    BY <1>3 DEF Return
  <2>2. Move(p, "record", fate, proc[p].order, proc[p].seen)
    BY <1>i, <2>1, GoMoves
  <2>3. /\ proc'[p].pc = "record" /\ proc'[p].path = proc[p].path
        /\ proc'[p].order = proc[p].order /\ proc'[p].row = proc[p].row
        /\ proc' = [proc EXCEPT ![p] = proc'[p]]
    BY <1>i, <2>2, MoveFields
  <2>4. UNCHANGED rows /\ At(p, "running")
    BY <1>3 DEF Return
  <2>5. RequestFine(p)' /\ (Executes(p)' => Executes(p)) /\ (Resumes(p)' => Resumes(p))
    BY <1>i, <2>3, <2>4 DEF RequestFine, At, Row, OnRow, Executes, Resumes
  <2>6. ProgressFine(p)'
    BY <1>i, <2>3, <2>4, <2>5 DEF ProgressFine, At
  <2>7. status' # "PENDING" /\ status' # "AWAITING_APPROVAL"
    BY <1>d, <1>s
  <2>8. KeepsDriver(p) /\ ActsAlone(p)
    BY <2>3, <2>5, <2>7 DEF KeepsDriver, ActsAlone
  <2> QED
    BY <2>4, <2>5, <2>6, <2>8, QuietOrder
<1>4. CASE Record(p)
  <2>1. /\ At(p, "record") /\ Row(p).request \notin {"PENDING", "REJECTED"}
        /\ Row(p).status \notin {"COMPLETED", "SKIPPED"}
        /\ Row(p).runs > 0 /\ Row(p).order = proc[p].order
    BY <1>4, <1>d, <1>i DEF Record, At, RequestFine
  <2>2. ASSUME NEW st \in {"COMPLETED", "FAILED"}, NEW row, row = [Row(p) EXCEPT !.status = st],
               SetRow(p, row)
        PROVE  /\ row \in StepRow /\ row.order = Row(p).order /\ row.request = Row(p).request
               /\ row.runs = Row(p).runs /\ row.status = st
               /\ proc[p].row \in DOMAIN rows /\ Row(p) = rows[proc[p].row]
               /\ rows' = [rows EXCEPT ![proc[p].row] = row] /\ rows'[proc[p].row] = row
               /\ row.runs <= 1 /\ (row.request # "none" => row.order \in Risky)
               /\ \A j \in DOMAIN rows : j # proc[p].row => rows'[j] = rows[j]
               /\ Len(rows') = Len(rows)
    <3>1. st \in StepStatus
      BY DEF StepStatus
    <3>2. /\ row \in StepRow /\ row.order = Row(p).order /\ row.request = Row(p).request
          /\ row.runs = Row(p).runs /\ row.status = st
      BY <1>d, <2>2, <3>1, StatusRow DEF StepRow
    <3> QED
      BY <1>d, <2>2, <3>2, OwnRow DEF RowFine
  <2>3. CASE SetRow(p, [Row(p) EXCEPT !.status = "FAILED"]) /\ AfterFailedStep(p)
    <3> DEFINE row == [Row(p) EXCEPT !.status = "FAILED"]
    <3>1. /\ row \in StepRow /\ row.order = Row(p).order /\ row.request = Row(p).request
          /\ row.runs = Row(p).runs /\ row.status = "FAILED"
          /\ proc[p].row \in DOMAIN rows /\ Row(p) = rows[proc[p].row]
          /\ rows' = [rows EXCEPT ![proc[p].row] = row]
          /\ row.runs <= 1 /\ (row.request # "none" => row.order \in Risky)
      BY <2>2, <2>3
    <3> HIDE DEF row
    <3>2. row.runs >= Row(p).runs
      BY <3>1, <1>d DEF StepRow
    <3>3. /\ SetRow(p, row) /\ proc' = [proc EXCEPT ![p] = proc'[p]]
          /\ RequestFine(p)' /\ ProgressFine(p)'
          /\ Executes(p)' => Executes(p)
          /\ Resumes(p)' => Resumes(p)
      BY <1>b, <1>c, <2>3 DEF row
    <3>4. row.status # "SKIPPED" /\ row.status # "COMPLETED"
      BY <3>1
    <3> QED
      BY <1>w, <2>1, <3>1, <3>2, <3>3, <3>4
  <2>4. CASE SetRow(p, [Row(p) EXCEPT !.status = "COMPLETED"]) /\ AfterGoodStep(p)
    <3> DEFINE row == [Row(p) EXCEPT !.status = "COMPLETED"]
    <3>1. /\ row \in StepRow /\ row.order = Row(p).order /\ row.request = Row(p).request
          /\ row.runs = Row(p).runs /\ row.status = "COMPLETED"
          /\ proc[p].row \in DOMAIN rows /\ Row(p) = rows[proc[p].row]
          /\ rows' = [rows EXCEPT ![proc[p].row] = row] /\ rows'[proc[p].row] = row
          /\ row.runs <= 1 /\ (row.request # "none" => row.order \in Risky)
          /\ \A j \in DOMAIN rows : j # proc[p].row => rows'[j] = rows[j]
          /\ Len(rows') = Len(rows)
      BY <2>2, <2>4
    <3> HIDE DEF row
    <3>2. row.runs >= Row(p).runs /\ row.runs > 0
      BY <2>1, <3>1, <1>d DEF StepRow
    <3>3. \E pc \in {"check", "add"} :
            /\ Move(p, pc, proc[p].fate, proc[p].order + 1, proc[p].seen)
            /\ pc = "check" <=> proc[p].path = "execute"
      <4>1. CASE proc[p].path = "execute"
        BY <1>i, <2>4, <4>1, GoMoves DEF AfterGoodStep
      <4>2. CASE proc[p].path # "execute"
        BY <1>i, <2>4, <4>2, GoMoves DEF AfterGoodStep
      <4> QED
        BY <4>1, <4>2
    <3>4. /\ proc'[p].pc \in {"check", "add"} /\ proc'[p].path = proc[p].path
          /\ proc'[p].pc = "check" <=> proc[p].path = "execute"
          /\ proc'[p].order = proc[p].order + 1
          /\ proc' = [proc EXCEPT ![p] = proc'[p]]
      BY <1>i, <3>3, MoveFields
    <3>5. RequestFine(p)' /\ (Executes(p)' => Executes(p)) /\ (Resumes(p)' => Resumes(p))
      BY <1>d, <2>1, <3>4 DEF RequestFine, At, OnRow, Executes, Resumes
    <3>6. \A l \in 1..proc[p].order :
            \E j \in 1..Len(rows) : rows'[j].order = l /\ rows'[j].status = "COMPLETED"
      <4>1. DoneBefore(proc[p].order, proc[p].row - 1) /\ proc[p].row \in 1..Len(rows)
        BY <1>d, <1>f, <2>1, <3>1 DEF OrderInv, HistoryOK, RowFine
      <4> SUFFICES ASSUME NEW l \in 1..proc[p].order
                   PROVE  \E j \in 1..Len(rows) : rows'[j].order = l /\ rows'[j].status = "COMPLETED"
        OBVIOUS
      <4>2. CASE l = proc[p].order
        BY <2>1, <3>1, <4>1, <4>2
      <4>3. CASE l \in 1..(proc[p].order - 1)
        <5>1. PICK j \in 1..(proc[p].row - 1) : rows[j].order = l /\ rows[j].status = "COMPLETED"
          BY <4>1, <4>3 DEF DoneBefore
        <5>2. j \in 1..Len(rows) /\ j \in DOMAIN rows /\ j # proc[p].row
          BY <1>f, <4>1, <5>1
        <5> QED
          BY <3>1, <5>1, <5>2
      <4> QED
        BY <1>f, <4>2, <4>3
    <3>7. ProgressFine(p)'
      <4>1. DoneBefore(proc[p].order, Len(rows))'
        <5>1. (proc[p].order + 1) - 1 = proc[p].order
          BY <1>f
        <5> QED
          BY <3>1, <3>4, <3>6, <5>1 DEF DoneBefore
      <4>2. Resumes(p)' => \A k \in Risky : k < proc'[p].order
        <5>1. Resumes(p)' => \A k \in Risky : k <= proc[p].order
          BY <1>i, <2>1, <3>5 DEF ProgressFine, At
        <5>2. \A k \in Risky : k <= proc[p].order => k < proc[p].order + 1
          <6> SUFFICES ASSUME NEW k \in Nat, k <= proc[p].order
                       PROVE  k < proc[p].order + 1
            BY TaskAssumption
          <6> QED
            BY <1>f
        <5> QED
          BY <5>1, <5>2, <3>4
      <4> QED
        BY <3>4, <4>1, <4>2 DEF ProgressFine, At
    <3>8. /\ SetRow(p, row) /\ proc' = [proc EXCEPT ![p] = proc'[p]]
          /\ RequestFine(p)' /\ ProgressFine(p)'
          /\ Executes(p)' => Executes(p)
          /\ Resumes(p)' => Resumes(p)
      BY <2>4, <3>4, <3>5, <3>7 DEF row
    <3>9. row.status # "SKIPPED"
      BY <3>1
    <3> QED
      BY <1>w, <2>1, <3>1, <3>2, <3>8, <3>9
  <2> QED
    BY <1>4, <2>3, <2>4 DEF Record
<1> QED
  BY <1>1, <1>2, <1>3, <1>4 DEF OneStep

\* A step suspended: only the execute request gets here, as the plan has no
\* other step to approve, and it leaves once the task is parked.
LEMMA SuspensionOrder ==
  ASSUME OneApproval, OrderInv, IInv', NEW p \in Proc, Suspension(p)
  PROVE  OrderInv'
<1>i. IInv /\ RequestFine(p) /\ ProgressFine(p)
  BY DEF OrderInv, RequestOK, ProgressOK
<1>f. /\ proc[p] \in Process /\ Row(p) \in StepRow
      /\ proc[p].pc \in OnRow /\ PlanSize \in Nat
      /\ proc[p].order \in Nat
  BY <1>i, ProcessFields, TaskAssumption
     DEF Suspension, Suspend, MarkStep, Park, ParkCas, ParkSet, At, OnRow, Process
<1>e. Executes(p)
  <2>1. CASE Suspend(p)
    <3>1. Row(p).order \in Risky /\ Row(p).order = proc[p].order /\ At(p, "enter")
      BY <1>i, <2>1 DEF Suspend, RequestFine, At
    <3>2. ~Resumes(p)
      <4> SUFFICES ASSUME Resumes(p) PROVE FALSE
        OBVIOUS
      <4>1. Row(p).order < proc[p].order
        BY <1>i, <3>1 DEF ProgressFine, At
      <4> QED
        BY <1>f, <3>1, <4>1
    <3> QED
      BY <1>f, <3>1, <3>2 DEF Executes, Resumes, At, Process
  <2>2. CASE MarkStep(p) \/ Park(p) \/ ParkCas(p) \/ ParkSet(p)
    BY <1>i, <2>2 DEF MarkStep, Park, ParkCas, ParkSet, At, RequestFine, Executes
  <2> QED
    BY <2>1, <2>2 DEF Suspension
<1>s. status # "PENDING" /\ status # "AWAITING_APPROVAL" /\ ~ExecuteIsOver /\ NothingResumed
  BY <1>e DEF OrderInv, PhaseOK, Drives, Executes, ExecuteIsOver
\* While it executes, no resume is past the look at the task.
<1>q. ASSUME NEW q \in Proc, q # p
      PROVE  proc[q].pc \notin {"enter", "mark", "running", "record", "claim", "claimed", "refuse"}
  <2>1. proc[q] \in Process /\ RequestFine(q) /\ ~Drives(q)
    BY <1>e, <1>i, <1>q, ProcessFields DEF OrderInv, RequestOK, OneDriver, Drives
  <2> QED
    BY <2>1, <1>s DEF Drives, Executes, Resumes, RequestFine, Process, At
<1>1. CASE Suspend(p)
  <2> DEFINE row == [Row(p) EXCEPT !.request = "PENDING"]
  <2>1. Row(p).runs = 0 /\ Row(p).request = "none" /\ Row(p).status = "PENDING"
        /\ Row(p).order \in Risky
        /\ \A q \in Proc : q # p => proc[q].row # proc[p].row
    BY <1>1, <1>i DEF Suspend, At, IInv, EnterOK, RequestFine
  <2>2. /\ row \in StepRow /\ row.order = Row(p).order /\ row.request = "PENDING"
        /\ row.runs = 0 /\ row.status = "PENDING"
    BY <1>f, <2>1, RequestRow DEF RequestStatus
  <2>3. SetRow(p, row) /\ Move(p, "mark", proc[p].fate, proc[p].order, proc[p].seen)
        /\ UNCHANGED status
    BY <1>1, <1>i, GoMoves DEF Suspend
  <2> HIDE DEF row
  <2>4. /\ proc[p].row \in DOMAIN rows /\ Row(p) = rows[proc[p].row]
        /\ rows' = [rows EXCEPT ![proc[p].row] = row] /\ rows'[proc[p].row] = row
    BY <1>f, <2>2, <2>3, OwnRow
  <2>5. /\ proc'[p].pc = "mark" /\ proc'[p].path = "execute"
        /\ proc'[p].row = proc[p].row
        /\ proc' = [proc EXCEPT ![p] = proc'[p]]
    BY <1>e, <1>i, <2>3, MoveFields DEF Executes
  <2>6. RequestFine(p)' /\ ProgressFine(p)' /\ ~Resumes(p)'
    BY <2>2, <2>4, <2>5 DEF RequestFine, ProgressFine, Resumes, At, Row
  <2>7. /\ row.runs >= rows[proc[p].row].runs /\ row.runs <= 1
        /\ row.status # "SKIPPED" /\ rows[proc[p].row].status # "SKIPPED"
        /\ rows[proc[p].row].status # "COMPLETED" /\ row.status # "COMPLETED"
        /\ row.order \in Risky
    BY <2>1, <2>2, <2>4
  <2>8. \A q \in Proc : q # p /\ proc[q].row = proc[p].row =>
           proc[q].pc \notin {"enter", "load", "loadTask", "claim", "claimed", "refuse",
                              "running", "record"}
    BY <2>1
  <2> QED
    BY <1>e, <2>1, <2>2, <2>3, <2>4, <2>5, <2>6, <2>7, <2>8, RewriteOrder
<1>2. CASE MarkStep(p)
  <2> DEFINE row == [Row(p) EXCEPT !.status = "AWAITING_APPROVAL", !.bound = TRUE]
  <2>1. Row(p).status = "PENDING" /\ At(p, "mark")
    BY <1>2, <1>i DEF MarkStep, At, RequestFine
  <2>2. /\ row \in StepRow /\ row.order = Row(p).order /\ row.request = Row(p).request
        /\ row.runs = Row(p).runs /\ row.status = "AWAITING_APPROVAL"
    BY <1>f, StatusRow DEF StepStatus
  <2>3. SetRow(p, row) /\ Move(p, "park", proc[p].fate, proc[p].order, proc[p].seen)
        /\ UNCHANGED status
    BY <1>2, <1>i, GoMoves DEF MarkStep
  <2> HIDE DEF row
  <2>4. /\ proc[p].row \in DOMAIN rows /\ Row(p) = rows[proc[p].row]
        /\ rows' = [rows EXCEPT ![proc[p].row] = row] /\ rows'[proc[p].row] = row
        /\ RowFine(proc[p].row)
    BY <1>f, <2>2, <2>3, OwnRow
  <2>5. /\ proc'[p].pc = "park" /\ proc'[p].path = "execute"
        /\ proc'[p].row = proc[p].row
        /\ proc' = [proc EXCEPT ![p] = proc'[p]]
    BY <1>e, <1>i, <2>3, MoveFields DEF Executes
  <2>6. RequestFine(p)' /\ ProgressFine(p)' /\ ~Resumes(p)'
    BY <2>2, <2>4, <2>5 DEF RequestFine, ProgressFine, Resumes, At, Row
  <2>7. /\ row.runs >= rows[proc[p].row].runs /\ row.runs <= 1
        /\ row.request # "none" => row.order \in Risky
        /\ \/ row.request = "none"
           \/ row.runs = rows[proc[p].row].runs /\ rows[proc[p].row].request # "none"
    BY <1>f, <2>2, <2>4 DEF RowFine, StepRow
  <2> QED
    BY <1>e, <1>q, <2>1, <2>2, <2>3, <2>4, <2>5, <2>6, <2>7, RewriteOrder
<1>3. CASE Park(p) /\ ~Leave(p)
  <2>1. PICK pc \in {"parkCas", "parkSet"} : Go(p, pc)
    BY <1>3 DEF Park
  <2>2. UNCHANGED <<rows, status>> /\ At(p, "park")
    BY <1>3 DEF Park
  <2>3. Move(p, pc, proc[p].fate, proc[p].order, proc[p].seen)
    BY <1>i, <2>1, GoMoves
  <2>4. /\ proc'[p].pc = pc /\ proc'[p].path = "execute" /\ proc'[p].row = proc[p].row
        /\ ActsAlone(p)
    BY <1>e, <1>i, <2>3, MoveFields DEF Executes, ActsAlone
  <2>5. RequestFine(p)' /\ ProgressFine(p)' /\ ~Resumes(p)'
    BY <1>i, <2>1, <2>2, <2>4 DEF RequestFine, ProgressFine, Resumes, At, Row, OnRow
  <2>6. KeepsDriver(p)
    BY <1>e, <1>s, <2>2, <2>5 DEF KeepsDriver
  <2> QED
    BY <2>2, <2>4, <2>5, <2>6, QuietOrder
<1>4. CASE (Park(p) /\ Leave(p)) \/ ParkCas(p) \/ ParkSet(p)
  <2>1. Leave(p) /\ UNCHANGED rows /\ ~At(p, "idle")
    BY <1>4 DEF Park, ParkCas, ParkSet, At
  <2>2. status' # "PENDING" \/ UNCHANGED status
    BY <1>4 DEF Park, ParkCas, ParkSet, Cas
  <2> QED
    BY <1>e, <2>1, <2>2, LeaveOrder
<1> QED
  BY <1>1, <1>2, <1>3, <1>4 DEF Suspension

\* A step resumed: the claim makes the request the driver, a refusal does not.
LEMMA ResumptionOrder ==
  ASSUME OneApproval, OrderInv, IInv', NEW p \in Proc, Resumption(p)
  PROVE  OrderInv'
<1>i. IInv /\ RequestFine(p) /\ ProgressFine(p)
  BY DEF OrderInv, RequestOK, ProgressOK
<1>f. /\ proc[p] \in Process /\ Row(p) \in StepRow
      /\ proc[p].pc \in OnRow /\ PlanSize \in Nat
      /\ proc[p].order \in Nat /\ proc[p].path = "resume"
      /\ Row(p).request \in {"APPROVED", "REJECTED"}
      /\ Row(p).status # "SKIPPED" /\ ~Executes(p)
  BY <1>i, ProcessFields, TaskAssumption
     DEF Resumption, LoadStep, LoadTask, Claim, StartApprovedRun, DenyApproved, Refuse,
         At, OnRow, Process, RequestFine, Executes
<1>s. status # "PENDING"
  BY DEF Resumption, LoadStep, LoadTask, Claim, StartApprovedRun, DenyApproved, Refuse,
         At, OrderInv, PhaseOK
\* Its row has not completed where it is refused.
<1>h. /\ proc[p].row \in DOMAIN rows /\ RowFine(proc[p].row) /\ Row(p) = rows[proc[p].row]
  BY <1>i, <1>f, ProcessFields DEF OrderInv, HistoryOK, Row
<1>l. ASSUME Leave(p), UNCHANGED <<rows, status>>
      PROVE  OrderInv'
  BY <1>f, <1>l, LeaveOrder DEF At, OnRow
\* A quiet move that does not make it a driver.
<1>g. ASSUME NEW pc \in {"loadTask", "claim", "refuse"}, NEW seen,
             Move(p, pc, proc[p].fate, proc[p].order, seen),
             UNCHANGED <<rows, status>>,
             pc \in {"claim", "refuse"} => ExecuteIsOver,
             pc = "refuse" => Row(p).request = "REJECTED",
             proc[p].pc \in {"load", "loadTask"}
      PROVE  OrderInv'
  <2>1. /\ proc'[p].pc = pc /\ proc'[p].path = "resume" /\ proc'[p].row = proc[p].row
        /\ ActsAlone(p)
    BY <1>f, <1>g, <1>i, MoveFields DEF ActsAlone
  <2>2. ~Resumes(p)' /\ ~Executes(p)' /\ ~Drives(p)'
    BY <1>g, <2>1 DEF Resumes, Executes, Drives
  <2>3. KeepsDriver(p)
    BY <1>g, <1>s, <2>2 DEF KeepsDriver
  <2>4. Row(p)' = Row(p)
    BY <1>g, <2>1 DEF Row
  <2>5. pc \in {"claim", "refuse"} => ExecuteIsOver'
    <3>1. \A q \in Proc : q # p => proc'[q] = proc[q]
      BY <1>i, <2>1 DEF ActsAlone, IInv, TypeOK
    <3> QED
      BY <1>g, <2>2, <3>1 DEF ExecuteIsOver, Executes
  <2>6. RequestFine(p)'
    BY <1>f, <1>g, <2>1, <2>4, <2>5 DEF RequestFine, At
  <2>7. ProgressFine(p)'
    BY <1>g, <2>1, <2>2 DEF ProgressFine, At
  <2> QED
    BY <1>g, <2>1, <2>3, <2>6, <2>7, QuietOrder
<1>1. CASE LoadStep(p)
  <2>1. PICK seen : proc' = [proc EXCEPT ![p].pc = "loadTask", ![p].seen = seen]
    BY <1>1 DEF LoadStep
  <2>2. Move(p, "loadTask", proc[p].fate, proc[p].order, seen)
    BY <1>i, <2>1, GoMoves
  <2> QED
    BY <1>1, <1>g, <2>2 DEF LoadStep, At
<1>2. CASE LoadTask(p)
  <2>1. CASE Leave(p)
    BY <1>2, <1>l, <2>1 DEF LoadTask
  <2>2. CASE status = "AWAITING_APPROVAL"
             /\ Go(p, IF Row(p).request = "APPROVED" THEN "claim" ELSE "refuse")
    <3>1. ExecuteIsOver
      BY <2>2 DEF OrderInv, PhaseOK
    <3>2. \E pc \in {"claim", "refuse"} :
            /\ Move(p, pc, proc[p].fate, proc[p].order, proc[p].seen)
            /\ pc = "refuse" => Row(p).request = "REJECTED"
      BY <1>f, <1>i, <2>2, GoMoves
    <3> QED
      BY <1>2, <1>g, <3>1, <3>2 DEF LoadTask, At
  <2> QED
    BY <1>2, <2>1, <2>2 DEF LoadTask
<1>3. CASE Claim(p) /\ Leave(p)
  <2>1. UNCHANGED rows /\ (UNCHANGED status \/ status' = "EXECUTING")
    BY <1>3 DEF Claim, Cas
  <2> QED
    BY <1>3, <1>f, <2>1, LeaveOrder DEF At, OnRow
<1>4. CASE Claim(p) /\ Cas("AWAITING_APPROVAL", "EXECUTING") /\ Go(p, "claimed")
  <2>1. /\ status = "AWAITING_APPROVAL" /\ status' = "EXECUTING" /\ UNCHANGED rows
        /\ At(p, "claim")
    BY <1>4 DEF Claim, Cas
  <2>2. Move(p, "claimed", proc[p].fate, proc[p].order, proc[p].seen)
    BY <1>4, <1>i, GoMoves
  <2>3. /\ proc'[p].pc = "claimed" /\ proc'[p].path = "resume" /\ proc'[p].row = proc[p].row
        /\ ActsAlone(p)
    BY <1>f, <1>i, <2>2, MoveFields DEF ActsAlone
  <2>4. ~Executes(p)'
    BY <2>3 DEF Executes
  <2>5. KeepsDriver(p)
    BY <2>1, <2>4 DEF KeepsDriver
  <2>6. NothingResumed'
    BY <2>1 DEF OrderInv, PhaseOK, NothingResumed
  <2>7. Row(p)' = Row(p)
    BY <2>1, <2>3 DEF Row
  <2>8. RequestFine(p)'
    BY <1>f, <2>3, <2>6, <2>7 DEF RequestFine, At
  <2>9. ProgressFine(p)'
    BY <2>3 DEF ProgressFine, At
  <2> QED
    BY <2>1, <2>3, <2>5, <2>8, <2>9, QuietOrder
<1>5. CASE StartApprovedRun(p)
  <2> DEFINE row == [Row(p) EXCEPT !.runs = @ + 1]
  <2>1. Resumes(p) /\ Drives(p) /\ NothingResumed /\ Row(p).runs = 0
    BY <1>5, <1>f, <1>h, <1>i
       DEF StartApprovedRun, At, Resumes, Drives, RequestFine, NothingResumed
  <2>2. /\ row \in StepRow /\ row.order = Row(p).order /\ row.request = Row(p).request
        /\ row.runs = 1 /\ row.status = Row(p).status
    BY <1>f, <2>1, RunRow
  <2>3. SetRow(p, row) /\ Move(p, "running", proc[p].fate, Row(p).order, proc[p].seen)
        /\ UNCHANGED status /\ Row(p).request = "APPROVED"
    BY <1>5, <1>i, GoMoves, ProcessFields DEF StartApprovedRun, At
  <2> HIDE DEF row
  <2>4. /\ rows' = [rows EXCEPT ![proc[p].row] = row] /\ rows'[proc[p].row] = row
    BY <1>f, <2>2, <2>3, OwnRow
  <2>5. /\ proc'[p].pc = "running" /\ proc'[p].path = "resume"
        /\ proc'[p].order = Row(p).order /\ proc'[p].row = proc[p].row
        /\ proc' = [proc EXCEPT ![p] = proc'[p]]
    BY <1>f, <1>i, <2>3, MoveFields
  <2>6. Row(p).status # "COMPLETED" /\ Row(p).order \in Risky
    BY <1>f, <1>h, <2>1 DEF RowFine
  <2>7. RequestFine(p)'
    BY <1>f, <2>2, <2>3, <2>4, <2>5, <2>6 DEF RequestFine, At, Row
  <2>8. ProgressFine(p)'
    <3>1. \A k \in Risky : k = Row(p).order
      BY <2>6 DEF OneApproval
    <3>2. \A k \in Risky : k <= Row(p).order
      BY <1>f, <3>1 DEF StepRow
    <3> QED
      BY <2>5, <3>2 DEF ProgressFine, At
  <2>9. ~Executes(p)'
    BY <2>5 DEF Executes
  <2>10. /\ row.order = rows[proc[p].row].order /\ row.runs >= rows[proc[p].row].runs
         /\ row.status # "SKIPPED" /\ rows[proc[p].row].status # "SKIPPED"
         /\ row.status # "COMPLETED" /\ rows[proc[p].row].status # "COMPLETED"
         /\ row.runs <= 1 /\ row.order \in Risky
         /\ row.status = rows[proc[p].row].status
         /\ row.request = rows[proc[p].row].request
    BY <1>f, <1>h, <2>1, <2>2, <2>6
  <2> QED
    BY <1>h, <2>1, <2>2, <2>3, <2>4, <2>5, <2>7, <2>8, <2>9, <2>10, RewriteOrder
<1>6. CASE DenyApproved(p) \/ Refuse(p)
  <2> DEFINE row == [Row(p) EXCEPT !.status = "REJECTED"]
  <2>1. /\ row \in StepRow /\ row.order = Row(p).order /\ row.request = Row(p).request
        /\ row.runs = Row(p).runs /\ row.status = "REJECTED"
    BY <1>f, StatusRow DEF StepStatus
  <2>2. SetRow(p, row) /\ Move(p, "finalize", "fail", proc[p].order, proc[p].seen)
        /\ UNCHANGED status
    BY <1>6, <1>i, GoMoves DEF DenyApproved, Refuse
  <2> HIDE DEF row
  <2>3. rows' = [rows EXCEPT ![proc[p].row] = row]
    BY <1>f, <2>1, <2>2, OwnRow
  <2>4. /\ proc'[p].pc = "finalize" /\ proc'[p].path = "resume" /\ proc'[p].fate = "fail"
        /\ proc' = [proc EXCEPT ![p] = proc'[p]]
    BY <1>f, <1>i, <2>2, MoveFields
  <2>5. RequestFine(p)' /\ ProgressFine(p)' /\ ~Resumes(p)' /\ ~Executes(p)'
    BY <2>4 DEF RequestFine, ProgressFine, Resumes, Executes, At, OnRow
  \* A refused row has a refused request; a claimed one has not run.
  <2>6. Row(p).status # "COMPLETED"
    <3>1. CASE Refuse(p)
      BY <1>h, <1>i, <3>1 DEF Refuse, At, RequestFine, RowFine
    <3>2. CASE DenyApproved(p)
      <4>1. Row(p).runs = 0
        BY <1>f, <1>h, <1>i, <3>2 DEF DenyApproved, At, RequestFine, NothingResumed
      <4> QED
        BY <1>h, <4>1 DEF RowFine
    <3> QED
      BY <1>6, <3>1, <3>2
  \* Nobody is about to record a result in it.
  <2>7. ASSUME NEW q \in Proc, q # p, proc[q].row = proc[p].row
        PROVE  proc[q].pc \notin {"enter", "mark", "running", "record"}
    <3>1. RequestFine(q) /\ proc[q] \in Process /\ Row(q) = Row(p)
      BY <1>i, <2>7, ProcessFields DEF OrderInv, RequestOK, Row
    <3>2. CASE Refuse(p)
      <4>1. ExecuteIsOver /\ Row(p).request = "REJECTED"
        BY <1>i, <3>2 DEF Refuse, At, RequestFine
      <4>2. ~Executes(q)
        BY <4>1 DEF ExecuteIsOver
      <4>3. At(q, "enter") => Row(q).request = "none"
        BY <1>i DEF IInv, EnterOK
      <4> QED
        BY <3>1, <4>1, <4>2, <4>3 DEF RequestFine, Executes, At
    <3>3. CASE DenyApproved(p)
      <4>1. Drives(p)
        BY <1>f, <3>3 DEF DenyApproved, At, Drives, Resumes
      <4>2. ~Drives(q)
        BY <2>7, <4>1 DEF OrderInv, OneDriver
      <4> QED
        BY <3>1, <4>2 DEF Drives, Executes, Resumes, RequestFine, Process
    <3> QED
      BY <1>6, <3>2, <3>3
  <2>8. /\ row.order = rows[proc[p].row].order /\ row.runs >= rows[proc[p].row].runs
        /\ row.status # "SKIPPED" /\ rows[proc[p].row].status # "SKIPPED"
        /\ row.status # "COMPLETED" /\ rows[proc[p].row].status # "COMPLETED"
        /\ row.runs <= 1 /\ (row.request # "none" => row.order \in Risky)
        /\ row.request = rows[proc[p].row].request
        /\ row.runs = rows[proc[p].row].runs /\ rows[proc[p].row].request # "none"
    BY <1>f, <1>h, <2>1, <2>6 DEF RowFine, StepRow
  <2>9. \A q \in Proc : q # p /\ proc[q].row = proc[p].row =>
           proc[q].pc \notin {"enter", "mark", "running", "record"}
    BY <2>7
  <2> QED
    BY <1>h, <2>1, <2>2, <2>3, <2>4, <2>5, <2>8, <2>9, RewriteOrder
<1> QED
  BY <1>1, <1>2, <1>3, <1>4, <1>5, <1>6 DEF Resumption, Claim

\* The resolve route: only a pending request is decided, so nobody relies on it.
LEMMA ResolveOrder ==
  ASSUME OrderInv, IInv', NEW p \in Proc, NEW i \in DOMAIN rows, Resolve(p, i)
  PROVE  OrderInv'
<1> DEFINE new == [proc[p] EXCEPT !.pc = "load", !.path = "resume", !.row = i]
<1>i. IInv /\ RequestFine(p) /\ ProgressFine(p) /\ RowFine(i) /\ rows[i] \in StepRow
  BY ProcessFields DEF OrderInv, RequestOK, ProgressOK, HistoryOK
<1>1. /\ new.pc = "load" /\ new.path = "resume" /\ new.row = i
  BY <1>i, ProcessFields DEF Process
<1>2. proc' = [proc EXCEPT ![p] = new] /\ proc'[p] = new
  BY <1>i DEF Resolve, IInv, TypeOK
<1> HIDE DEF new
<1>3. /\ UNCHANGED status /\ status # "PENDING" /\ At(p, "idle")
      /\ rows[i].request # "none" /\ rows[i].status # "SKIPPED"
  BY <1>i DEF Resolve, OrderInv, PhaseOK, RowFine
<1>4. ~Executes(p)' /\ ~Resumes(p)' /\ ~Drives(p)'
  BY <1>1, <1>2 DEF Executes, Resumes, Drives
<1>5. CASE UNCHANGED rows
  <2>1. rows[i].request \in {"APPROVED", "REJECTED"}
    <3>1. ASSUME rows[i].request = "PENDING", NEW d \in {"APPROVED", "REJECTED"},
                 rows' = [rows EXCEPT ![i].request = d]
          PROVE  FALSE
      <4>1. rows'[i] = [rows[i] EXCEPT !.request = d]
        BY <1>i, <3>1, ProcessFields
      <4>2. [rows[i] EXCEPT !.request = d].request = d
        BY <1>i DEF StepRow
      <4> QED
        BY <1>5, <3>1, <4>1, <4>2
    <3> QED
      BY <3>1 DEF Resolve
  <2>2. RequestFine(p)' /\ ProgressFine(p)'
    BY <1>1, <1>2, <1>3, <1>4, <1>5, <2>1 DEF RequestFine, ProgressFine, At, Row, OnRow
  <2>3. KeepsDriver(p) /\ ActsAlone(p)
    BY <1>2, <1>3, <1>4 DEF KeepsDriver, ActsAlone
  <2> QED
    BY <1>5, <2>2, <2>3, QuietOrder
<1>6. CASE rows[i].request = "PENDING"
           /\ \E d \in {"APPROVED", "REJECTED"} : rows' = [rows EXCEPT ![i].request = d]
  <2>1. PICK d \in {"APPROVED", "REJECTED"} : rows' = [rows EXCEPT ![i].request = d]
    BY <1>6
  <2> DEFINE row == [rows[i] EXCEPT !.request = d]
  <2>2. d \in RequestStatus
    BY <2>1 DEF RequestStatus
  <2>3. /\ row \in StepRow /\ row.order = rows[i].order /\ row.runs = rows[i].runs
        /\ row.request = d /\ row.status = rows[i].status
    BY <1>i, <2>2, RequestRow
  <2>4. rows' = [rows EXCEPT ![i] = row]
    BY <1>i, <2>1, ProcessFields
  <2> HIDE DEF row
  <2>5. rows'[i] = row
    BY <2>3, <2>4, <1>i, RewriteRow, ProcessFields
  <2>6. RequestFine(p)' /\ ProgressFine(p)'
    BY <1>1, <1>2, <1>3, <1>4, <2>3, <2>5 DEF RequestFine, ProgressFine, At, Row, OnRow
  \* Its step has not run: a run needs the request approved.
  <2>7. rows[i].runs = 0
    <3>1. rows[i].order \in Risky
      BY <1>3, <1>i DEF RowFine
    <3>2. ~(rows[i].runs > 0)
      BY <1>6, <1>i, <3>1 DEF IInv, RunsAreApproved
    <3> QED
      BY <1>i, <3>2 DEF StepRow
  <2>8. ASSUME NEW q \in Proc, q # p, proc[q].row = i
        PROVE  proc[q].pc \notin {"enter", "load", "loadTask", "claim", "claimed", "refuse",
                                  "running", "record"}
    <3>1. RequestFine(q) /\ Row(q) = rows[i]
      BY <2>8 DEF OrderInv, RequestOK, Row
    <3>2. At(q, "enter") => Row(q).request = "none"
      BY <1>i DEF IInv, EnterOK
    <3> QED
      BY <1>6, <3>1, <3>2 DEF RequestFine, At
  <2>9. /\ row.runs >= rows[i].runs /\ row.runs <= 1 /\ row.runs = 0
        /\ row.order \in Risky /\ row.status # "COMPLETED"
        /\ rows[i].status # "COMPLETED" /\ row.status # "SKIPPED"
    BY <1>3, <1>i, <2>3, <2>7 DEF RowFine
  <2>10. \A q \in Proc : q # p /\ proc[q].row = i =>
            proc[q].pc \notin {"enter", "load", "loadTask", "claim", "claimed", "refuse",
                               "running", "record"}
    BY <2>8
  <2> QED
    BY <1>2, <1>3, <1>4, <2>3, <2>4, <2>6, <2>9, <2>10, RewriteOrder
<1> QED
  BY <1>5, <1>6 DEF Resolve

\* Before execute_existing there is nothing.
LEMMA InitOrder == Init => OrderInv
<1> SUFFICES ASSUME Init PROVE OrderInv
  OBVIOUS
<1>1. IInv
  BY InitIInv
<1>2. /\ rows = <<>> /\ DOMAIN rows = {} /\ Len(rows) = 0 /\ status = "PENDING"
      /\ \A p \in Proc : proc[p] = IdleProc
  BY DEF Init
<1>3. OneDriver
  BY <1>2 DEF OneDriver, Drives, Executes, Resumes, IdleProc
<1>4. PhaseOK
  BY <1>2 DEF PhaseOK, NothingResumed, IdleProc
<1>5. RequestOK /\ ProgressOK
  BY <1>2 DEF RequestOK, ProgressOK, RequestFine, ProgressFine, At, OnRow, Resumes, IdleProc
<1>6. HistoryOK
  BY <1>2 DEF HistoryOK
<1> QED
  BY <1>1, <1>3, <1>4, <1>5, <1>6 DEF OrderInv

\* Every step keeps who drives the plan and what is behind it.
LEMMA NextOrder == OneApproval /\ OrderInv /\ [Next]_vars => OrderInv'
<1> SUFFICES ASSUME OneApproval, OrderInv, [Next]_vars PROVE OrderInv'
  OBVIOUS
<1>0. IInv'
  BY NextIInv DEF OrderInv
<1>1. ASSUME NEW p \in Proc, Execute(p) \/ GoOn(p)
      PROVE  OrderInv'
  BY <1>0, <1>1, PlanningOrder, PlanLoopOrder, OneStepOrder, SuspensionOrder, ResumptionOrder
     DEF GoOn
<1>2. ASSUME NEW p \in Proc, NEW i \in DOMAIN rows, Resolve(p, i)
      PROVE  OrderInv'
  BY <1>0, <1>2, ResolveOrder
<1>3. ASSUME NEW p \in Proc, Raise(p) \/ Interrupt(p)
      PROVE  OrderInv'
  <2>1. /\ Leave(p) /\ UNCHANGED rows /\ ~At(p, "idle")
        /\ UNCHANGED status \/ status' = "CANCELLED"
    BY <1>3 DEF Raise, Interrupt, At
  <2> QED
    BY <1>0, <2>1, LeaveOrder
\* A retry is excluded.
<1>4. CASE Cancel \/ Retry
  <2>1. UNCHANGED <<rows, proc>> /\ status' = "CANCELLED"
    BY <1>4, TaskAssumption DEF Cancel, Retry, Cas, OneApproval, OrderInv, IInv, TypeOK
  <2>2. ExecuteIsOver => ExecuteIsOver'
    BY <2>1 DEF ExecuteIsOver, Executes
  <2>3. NothingResumed' <=> NothingResumed
    BY <2>1 DEF NothingResumed
  <2>4. \A p \in Proc : (Executes(p)' <=> Executes(p)) /\ (Resumes(p)' <=> Resumes(p))
    BY <2>1 DEF Executes, Resumes
  <2>5. OneDriver'
    BY <2>1, <2>2, <2>4 DEF OrderInv, OneDriver, Drives
  <2>6. PhaseOK'
    BY <2>1, <2>2, <2>3 DEF OrderInv, PhaseOK
  <2>7. RequestOK'
    BY <2>1, <2>2, <2>3 DEF OrderInv, RequestOK, RequestFine, At, Row
  <2>8. ProgressOK' /\ HistoryOK'
    BY <2>1, <2>4 DEF OrderInv, ProgressOK, ProgressFine, HistoryOK, RowFine, DoneBefore, At
  <2> QED
    BY <1>0, <2>5, <2>6, <2>7, <2>8 DEF OrderInv
<1>5. CASE Crash
  <2>1. UNCHANGED <<status, rows>> /\ \A p \in Proc : proc'[p] = IdleProc
    BY <1>5 DEF Crash
  <2>2. \A p \in Proc : ~Drives(p)' /\ ~Executes(p)' /\ ~Resumes(p)'
    BY <2>1 DEF Drives, Executes, Resumes, IdleProc
  <2>3. status # "PENDING"
    BY <1>5 DEF Crash, At, OrderInv, PhaseOK
  <2>4. ExecuteIsOver'
    BY <2>1, <2>2, <2>3 DEF ExecuteIsOver
  <2>5. OneDriver'
    BY <2>2 DEF OneDriver, Drives
  <2>6. PhaseOK'
    BY <2>1, <2>2, <2>3, <2>4 DEF PhaseOK, OrderInv, NothingResumed
  <2>7. RequestOK' /\ ProgressOK'
    BY <2>1, <2>2 DEF RequestOK, RequestFine, ProgressOK, ProgressFine, At, OnRow, IdleProc
  <2>8. HistoryOK'
    BY <2>1 DEF OrderInv, HistoryOK, RowFine, DoneBefore
  <2> QED
    BY <1>0, <2>5, <2>6, <2>7, <2>8 DEF OrderInv
<1>6. CASE UNCHANGED vars
  BY <1>0, <1>6 DEF vars, OrderInv, OneDriver, PhaseOK, RequestOK, RequestFine, ProgressOK,
     ProgressFine, HistoryOK, RowFine, DoneBefore, ExecuteIsOver, NothingResumed, Drives,
     Executes, Resumes, At, Row
<1> QED
  BY <1>1, <1>2, <1>3, <1>4, <1>5, <1>6 DEF Next, Work

\* It holds in every state of every behaviour.
LEMMA OrderInductive == ASSUME OneApproval PROVE Spec => []OrderInv
<1>1. Init => OrderInv
  BY InitOrder
<1>2. OrderInv /\ [Next]_vars => OrderInv'
  BY NextOrder
<1> QED
  BY <1>1, <1>2, PTL DEF Spec

-----------------------------------------------------------------------------
\* In such a state a step runs only behind the one before it in the plan.
LEMMA OrderedSteps == OrderInv => StepsInOrder
<1> SUFFICES ASSUME OrderInv, NEW i \in DOMAIN rows, rows[i].runs > 0, rows[i].order > 1
             PROVE  \E j \in 1..(i - 1) : /\ rows[j].order = rows[i].order - 1
                                          /\ rows[j].status = "COMPLETED"
  BY DEF StepsInOrder
<1>1. RowFine(i) /\ rows[i] \in StepRow /\ PlanSize \in Nat
  BY Table, TaskAssumption DEF OrderInv, HistoryOK, IInv, TypeOK
<1>2. rows[i].status # "SKIPPED"
  BY <1>1 DEF RowFine
<1>3. rows[i].order - 1 \in 1..(rows[i].order - 1)
  BY <1>1 DEF StepRow
<1> QED
  BY <1>1, <1>2, <1>3 DEF RowFine, DoneBefore

\* What a task that becomes COMPLETED has behind it (_finalize_task).
AllStepsCompleted ==
  \A k \in 1..PlanSize : \E i \in DOMAIN rows : rows[i].order = k /\ rows[i].status = "COMPLETED"

\* Only _finalize_task makes a task COMPLETED, at the end of the loop.
LEMMA CompletingStep ==
  ASSUME OrderInv, [Next]_vars, status # "COMPLETED", status' = "COMPLETED"
  PROVE  AllStepsCompleted
<1>1. PICK p \in Proc : Finalize(p)
  BY DEF Next, Work, GoOn, vars, Execute, Planning, FailPlanning, FinishPlanning, Cas,
     PlanLoop, Check, AddStep, FinishLoop, Skip, OneStep, Deny, StartRun, Return, Record,
     Suspension, Suspend, MarkStep, Park, ParkCas, ParkSet, Resumption, LoadStep, LoadTask,
     Claim, StartApprovedRun, DenyApproved, Refuse, Resolve, Raise, Interrupt, Cancel, Retry, Crash
<1>2. proc[p].fate = "ok"
  <2>1. proc[p].fate \in {"ok", "fail", "cancel"}
    BY ProcessFields DEF OrderInv, Process
  <2>2. proc[p].fate = "fail" => status' = "FAILED"
    BY <1>1 DEF Finalize
  <2>3. proc[p].fate = "cancel" => status' = "CANCELLED"
    BY <1>1 DEF Finalize
  <2> QED
    BY <2>1, <2>2, <2>3
<1>3. DoneBefore(PlanSize + 1, Len(rows)) /\ DOMAIN rows = 1..Len(rows) /\ PlanSize \in Nat
  BY <1>1, <1>2, ProcessFields, TaskAssumption DEF OrderInv, ProgressOK, ProgressFine, Finalize
<1> QED
  BY <1>3 DEF DoneBefore, AllStepsCompleted

-----------------------------------------------------------------------------
\* With one step to approve and no retry, no step of the plan is run twice,
\* however many resolve calls, stale or not, resume_after_approval answers.
THEOREM RunsOnce == ASSUME OneApproval PROVE Spec => []ApprovedRunsOnce
<1>1. OrderInv => ApprovedRunsOnce
  BY DEF OrderInv, HistoryOK, RowFine, ApprovedRunsOnce
<1> QED
  BY <1>1, OrderInductive, PTL

\* With one step to approve and no retry, a step runs only after the one before
\* it in the plan has completed, also across the approval.
THEOREM RunsInOrder == ASSUME OneApproval PROVE Spec => []StepsInOrder
BY OrderedSteps, OrderInductive, PTL

\* With one step to approve and no retry, a task becomes COMPLETED only when a
\* step of each position of its plan has.
THEOREM CompletedMeansAll ==
  ASSUME OneApproval
  PROVE  Spec => [][status # "COMPLETED" /\ status' = "COMPLETED" => AllStepsCompleted]_vars
<1>1. OrderInv /\ [Next]_vars =>
        [status # "COMPLETED" /\ status' = "COMPLETED" => AllStepsCompleted]_vars
  BY CompletingStep
<1> QED
  BY <1>1, OrderInductive, PTL DEF Spec
=============================================================================
