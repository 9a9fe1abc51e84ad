---------------------------- MODULE CronScheduler ----------------------------
(***************************************************************************)
(* The scheduler's thread (cron/scheduler.py) and the one-shot jobs, which *)
(* are to run once: a job is run, then marked as executed in memory, then  *)
(* in a file.  stop waits for the thread only for a while, so that a start *)
(* after it may leave two threads; and the process may crash at any step.  *)
(*                                                                         *)
(* The minute of a job may come again, as its schedule may be changed: any *)
(* job that is not marked may be due.  The jobs themselves, their order in *)
(* a tick and their file are in JobStore.                                  *)
(***************************************************************************)
EXTENDS Integers, Sequences, SequencesExt

CONSTANTS OneShot, Thread, NoThread, Torn

VARIABLES
  sched,   \* the scheduler threads, each with the rest of its batch
  current, \* _thread
  stopped, \* _stop_event
  marks,   \* _executed_oneshots
  file,    \* what executed_oneshots.json holds: Torn, once it is truncated
  runs,    \* history: how often each job has run, 2 standing for more
  lost,    \* history: the jobs whose mark a crash has lost
  doubled  \* history: two threads have been there at once

vars == <<sched, current, stopped, marks, file, runs, lost, doubled>>

ThreadState ==
  [pc: {"off", "loop", "run", "mark", "save"},
   batch: SetToAllKPermutations(OneShot),
   text: SUBSET OneShot]  \* what the thread is writing to the file

Off == [pc |-> "off", batch |-> <<>>, text |-> {}]

TypeOK ==
  /\ sched \in [Thread -> ThreadState]
  /\ current \in Thread \cup {NoThread}
  /\ stopped \in BOOLEAN
  /\ marks \subseteq OneShot
  /\ file = Torn \/ file \subseteq OneShot
  /\ runs \in [OneShot -> 0..2]
  /\ lost \subseteq OneShot
  /\ doubled \in BOOLEAN

Init ==
  /\ sched = [t \in Thread |-> Off]
  /\ current = NoThread
  /\ stopped = FALSE
  /\ marks = {}
  /\ file = {}
  /\ runs = [j \in OneShot |-> 0]
  /\ lost = {}
  /\ doubled = FALSE

-----------------------------------------------------------------------------
Alive(t) == sched[t].pc # "off"

\* start, which also takes back the order to stop.
Start(t) ==
  /\ ~Alive(t)
  /\ current # NoThread => ~Alive(current)
  /\ current' = t /\ stopped' = FALSE
  /\ sched' = [sched EXCEPT ![t].pc = "loop"]
  /\ doubled' = (doubled \/ \E u \in Thread : Alive(u))
  /\ UNCHANGED <<marks, file, runs, lost>>

\* stop: the join ends with the thread or with its timeout.
Stop ==
  /\ stopped' = TRUE /\ current' = NoThread
  /\ UNCHANGED <<sched, marks, file, runs, lost, doubled>>

Leave(t) ==
  /\ sched[t].pc = "loop" /\ stopped
  /\ sched' = [sched EXCEPT ![t] = Off]
  /\ UNCHANGED <<current, stopped, marks, file, runs, lost, doubled>>

\* tick: the due jobs, read and sorted; none, when a change of the store
\* under way breaks the reading off.
Tick(t) ==
  /\ sched[t].pc = "loop" /\ ~stopped
  /\ \E batch \in SetToAllKPermutations(OneShot \ marks) :
       /\ batch # <<>>
       /\ sched' = [sched EXCEPT ![t].pc = "run", ![t].batch = batch]
  /\ UNCHANGED <<current, stopped, marks, file, runs, lost, doubled>>

\* _execute_job, whether it fails or not, and the update of last_run_at.
Run(t) ==
  /\ sched[t].pc = "run"
  /\ runs' = [runs EXCEPT ![Head(sched[t].batch)] = IF @ < 2 THEN @ + 1 ELSE 2]
  /\ sched' = [sched EXCEPT ![t].pc = "mark"]
  /\ UNCHANGED <<current, stopped, marks, file, lost, doubled>>

\* mark_oneshot_executed: the mark, and the file opened for writing.
Mark(t) ==
  /\ sched[t].pc = "mark"
  /\ marks' = marks \cup {Head(sched[t].batch)}
  /\ sched' = [sched EXCEPT ![t].pc = "save", ![t].text = marks']
  /\ file' = Torn
  /\ UNCHANGED <<current, stopped, runs, lost, doubled>>

(* Faulty variant: the file gets the job of this tick alone.               *)
SaveLast(t) ==
  LET rest == Tail(sched[t].batch)
  IN  /\ sched[t].pc = "save"
      /\ file' = {Head(sched[t].batch)}
      /\ sched' = [sched EXCEPT ![t] =
           [pc |-> IF rest = <<>> THEN "loop" ELSE "run", batch |-> rest, text |-> {}]]
      /\ UNCHANGED <<current, stopped, marks, runs, lost, doubled>>

\* The file is written; then the next job of the batch.
Save(t) ==
  LET rest == Tail(sched[t].batch)
  IN  /\ sched[t].pc = "save"
      /\ file' = sched[t].text
      /\ sched' = [sched EXCEPT ![t] =
           [pc |-> IF rest = <<>> THEN "loop" ELSE "run", batch |-> rest, text |-> {}]]
      /\ UNCHANGED <<current, stopped, marks, runs, lost, doubled>>

\* A crash and a restart, which reads the marks from the file.  A job that
\* was run loses its mark when it was not yet saved, and all do when the
\* file is torn.
Crash ==
  /\ \E t \in Thread : Alive(t)
  /\ sched' = [t \in Thread |-> Off]
  /\ current' = NoThread /\ stopped' = FALSE
  /\ marks' = IF file = Torn THEN {} ELSE file
  /\ lost' = lost \cup
       (IF file = Torn THEN {j \in OneShot : runs[j] > 0}
        ELSE {Head(sched[t].batch) :
                t \in {u \in Thread : sched[u].pc \in {"mark", "save"}}})
  /\ UNCHANGED <<file, runs, doubled>>

Next ==
  \/ \E t \in Thread : Start(t) \/ Leave(t) \/ Tick(t) \/ Run(t) \/ Mark(t) \/ Save(t)
  \/ Stop
  \/ Crash

Spec == Init /\ [][Next]_vars

-----------------------------------------------------------------------------
(* Properties                                                              *)

(* "Mark one-shot jobs as executed to prevent re-run" (scheduler.py:98): a *)
(* one-shot job runs again only if the process crashed after it ran and    *)
(* before it was marked in the file, or while the file was written, or if  *)
(* a thread outlived its stop and another was started (stop, start).       *)
OneShotOnce ==
  \A j \in OneShot : runs[j] > 1 => j \in lost \/ doubled
=============================================================================
