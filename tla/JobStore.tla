------------------------------ MODULE JobStore ------------------------------
(***************************************************************************)
(* The store of the cron jobs (cron/jobs.py), edited by the routes of the  *)
(* API (routes/cron.py), and the order in which a tick of the scheduler    *)
(* runs the jobs that are due (_topo_sort of cron/scheduler.py): a job may *)
(* name others, in context_from, whose output it needs.                    *)
(*                                                                         *)
(* The routes run in a pool of threads: an update is validated in one step *)
(* and stored in another.  Every change is saved at once.                  *)
(***************************************************************************)
EXTENDS Integers, Sequences, SequencesExt

CONSTANTS
  Job,    \* job ids, none of which is used twice
  Editor  \* threads of the API that update jobs

VARIABLES
  status,  \* of each job id: not yet used, in the store, or deleted
  context, \* context_from of each job
  editor,  \* an update that has been validated: its job and its new context
  raced    \* history: two updates were validated before one was stored

vars == <<status, context, editor, raced>>

Idle == [busy |-> FALSE, job |-> CHOOSE j \in Job : TRUE, context |-> {}]

TypeOK ==
  /\ status \in [Job -> {"new", "stored", "deleted"}]
  /\ context \in [Job -> SUBSET Job]
  /\ editor \in [Editor -> [busy: BOOLEAN, job: Job, context: SUBSET Job]]
  /\ raced \in BOOLEAN

Init ==
  /\ status = [j \in Job |-> "new"]
  /\ context = [j \in Job |-> {}]
  /\ editor = [e \in Editor |-> Idle]
  /\ raced = FALSE

Stored == {j \in Job : status[j] = "stored"}

-----------------------------------------------------------------------------
\* detect_cycle, from job j if it had the context `from`: whether the search
\* comes back to a job on its way.
DetectCycle(j, from) ==
  LET search[k \in Job, visited \in SUBSET Job] ==
        \/ k \in visited
        \/ \E up \in (IF visited = {} THEN from ELSE context[k]) \cap Stored :
             search[up, visited \cup {k}]
  IN  search[j, {}]

(* Faulty variant: only the direct upstreams of the upstreams are looked at. *)
ValidNearby(j, from) ==
  /\ from \subseteq Stored
  /\ j \notin from
  /\ \A up \in from : j \notin context[up]

\* validate_context_from: jobs of the store, not itself, and no cycle.
Valid(j, from) ==
  from # {} => /\ j \notin from
               /\ from \subseteq Stored
               /\ ~DetectCycle(j, from)

\* A new job has no id yet when it is validated: nothing can depend on it.
Create(j, from) ==
  /\ status[j] = "new"
  /\ from \subseteq Stored
  /\ \A up \in from : ~DetectCycle(up, context[up])
  /\ status' = [status EXCEPT ![j] = "stored"]
  /\ context' = [context EXCEPT ![j] = from]
  /\ UNCHANGED <<editor, raced>>

Validate(e, j, from) ==
  /\ ~editor[e].busy
  /\ Valid(j, from)
  /\ editor' = [editor EXCEPT ![e] = [busy |-> TRUE, job |-> j, context |-> from]]
  /\ raced' = (raced \/ \E f \in Editor : editor[f].busy)
  /\ UNCHANGED <<status, context>>

\* update_job: a job that is not there any more is left alone.
Update(e) ==
  /\ editor[e].busy
  /\ context' = IF editor[e].job \in Stored
                THEN [context EXCEPT ![editor[e].job] = editor[e].context]
                ELSE context
  /\ editor' = [editor EXCEPT ![e] = Idle]
  /\ UNCHANGED <<status, raced>>

\* The jobs that depend on a deleted one keep its id in their context.
Delete(j) ==
  /\ status[j] = "stored"
  /\ status' = [status EXCEPT ![j] = "deleted"]
  /\ UNCHANGED <<context, editor, raced>>

Next ==
  \/ \E j \in Job, from \in SUBSET Job :
       Create(j, from) \/ \E e \in Editor : Validate(e, j, from)
  \/ \E e \in Editor : Update(e)
  \/ \E j \in Job : Delete(j)

Spec == Init /\ [][Next]_vars

-----------------------------------------------------------------------------
(* _topo_sort of the due jobs, by Kahn's algorithm.                        *)

Downstream(j, due) == {k \in due : j \in context[k]}

\* The queue of jobs that wait for nothing, what the others still wait for, and
\* the jobs that are sorted already.
Kahn(due) ==
  LET sort[queue \in Seq(due), degree \in [due -> Int], sorted \in Seq(due)] ==
        IF queue = <<>> THEN sorted
        ELSE LET j == Head(queue)
                 left == [k \in due |-> IF k \in Downstream(j, due)
                                        THEN degree[k] - 1 ELSE degree[k]]
                 free == {k \in Downstream(j, due) : left[k] = 0}
             IN  sort[Tail(queue) \o SetToSeq(free), left, Append(sorted, j)]
      degree == [j \in due |-> Cardinality(context[j] \cap due)]
  IN  sort[SetToSeq({j \in due : degree[j] = 0}), degree, <<>>]

\* The jobs of a cycle, and with them the whole batch, stay as they were.
TopoSort(jobs) ==
  LET sorted == Kahn(Range(jobs))
  IN  IF Len(sorted) = Len(jobs) THEN sorted ELSE jobs

-----------------------------------------------------------------------------
(* Properties                                                              *)

(* Whatever jobs are due, in whatever order the store lists them, a tick   *)
(* runs each of them once and none before a job of the batch whose output  *)
(* it needs (_topo_sort), unless two updates were validated at once: then  *)
(* together they may make a cycle that neither makes alone.                *)
UpstreamFirst ==
  raced \/ \A jobs \in SetToAllKPermutations(Stored) :
             LET batch == TopoSort(jobs)
             IN  /\ Range(batch) = Range(jobs) /\ Len(batch) = Len(jobs)
                 /\ \A i, k \in 1..Len(batch) :
                      i < k => batch[k] \notin context[batch[i]]
=============================================================================
