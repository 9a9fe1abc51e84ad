-------------------------- MODULE TaskDependencies --------------------------
(***************************************************************************)
(* Dependencies between tasks: the routes that add and remove them, the    *)
(* check that an added one closes no cycle, and the order in which a set   *)
(* of tasks can be executed (task_dependencies.py, task_dependency_repo.py).*)
(*                                                                         *)
(* Requests run in pool threads.  The check fetches one layer of the graph *)
(* with each SELECT, and a SELECT sees what is committed; insert and       *)
(* commit are one step, for only one transaction writes at a time and no   *)
(* other sees what it wrote before.                                        *)
(***************************************************************************)
EXTENDS Naturals, Sequences, FiniteSets, SequencesExt

CONSTANTS
  Task,     \* the tasks; no route deletes one
  Request   \* requests that add a dependency

VARIABLES
  edges,    \* the rows: <<t, d>> if task t depends on task d
  request,  \* of each request: where it is
  raced     \* the rows inserted after a check during which another was

vars == <<edges, request, raced>>

Idle == [pc |-> "idle", edge |-> <<>>, visited |-> {}, frontier |-> {},
         late |-> FALSE]

TypeOK ==
  /\ edges \subseteq Task \X Task
  /\ request \in [Request -> [pc : {"idle", "check", "add"},
                              edge : {<<>>} \cup (Task \X Task),
                              visited : SUBSET Task,
                              frontier : SUBSET Task,
                              late : BOOLEAN]]
  /\ raced \subseteq edges

Init ==
  /\ edges = {}
  /\ request = [p \in Request |-> Idle]
  /\ raced = {}

-----------------------------------------------------------------------------
\* The tasks that those of one layer depend on.
Below(layer) == {e[2] : e \in {f \in edges : f[1] \in layer}}

\* add_dependency of the routes: both tasks exist and are not the same.
BeginAdd(p, t, d) ==
  /\ request[p].pc = "idle" /\ t # d
  /\ request' = [request EXCEPT
       ![p] = [Idle EXCEPT !.pc = "check", !.edge = <<t, d>>,
                           !.visited = {d}, !.frontier = {d}]]
  /\ UNCHANGED <<edges, raced>>

(* Faulty variant: only what the task directly depends on is looked at.    *)
CheckFirstLayer(p) ==
  LET r == request[p]
  IN  /\ r.pc = "check"
      /\ request' = [request EXCEPT
           ![p] = IF r.edge[1] \in Below(r.frontier) THEN Idle
                  ELSE [r EXCEPT !.pc = "add"]]
      /\ UNCHANGED <<edges, raced>>

\* detect_cycle, one layer: it meets the task that would depend on it, goes
\* on with what it has not visited, or has seen everything.
CheckLayer(p) ==
  LET r == request[p]
      next == Below(r.frontier) \ r.visited
  IN  /\ r.pc = "check"
      /\ request' = [request EXCEPT
           ![p] = IF r.edge[1] \in Below(r.frontier) THEN Idle
                  ELSE [r EXCEPT !.visited = @ \cup next, !.frontier = next,
                                 !.pc = IF next = {} THEN "add" ELSE @]]
      /\ UNCHANGED <<edges, raced>>

\* add_dependency of the repository; a row that is there already violates
\* uq_task_dep and fails the request.
Add(p) ==
  LET r == request[p]
  IN  /\ r.pc = "add"
      /\ IF r.edge \in edges
         THEN /\ request' = [request EXCEPT ![p] = Idle]
              /\ UNCHANGED <<edges, raced>>
         ELSE /\ edges' = edges \cup {r.edge}
              /\ raced' = IF r.late THEN raced \cup {r.edge} ELSE raced
              /\ request' = [q \in Request |->
                   IF q = p \/ request[q].pc = "idle" THEN Idle
                   ELSE [request[q] EXCEPT !.late = TRUE]]

\* remove_dependency.
RemoveEdge(t, d) ==
  /\ <<t, d>> \in edges
  /\ edges' = edges \ {<<t, d>>}
  /\ raced' = raced \ {<<t, d>>}
  /\ UNCHANGED request

Next ==
  \/ \E p \in Request :
       \/ \E t, d \in Task : BeginAdd(p, t, d)
       \/ CheckLayer(p) \/ Add(p)
  \/ \E t, d \in Task : RemoveEdge(t, d)

Spec == Init /\ [][Next]_vars

-----------------------------------------------------------------------------
(* What the routes answer.                                                 *)

\* get_all_dependencies_recursive, layer by layer; the task itself is visited
\* from the start and never in the answer.
AllDependencies(t) ==
  LET f[n \in 0..Cardinality(Task)] ==
        IF n = 0 THEN [visited |-> {t}, frontier |-> {t}]
        ELSE LET next == Below(f[n - 1].frontier) \ f[n - 1].visited
             IN  [visited |-> f[n - 1].visited \cup next, frontier |-> next]
  IN  f[Cardinality(Task)].visited \ {t}

\* The rows get_execution_order fetches for these tasks.
Among(ids) == edges \cap (ToSet(ids) \X ToSet(ids))

\* The tasks that depend on one: in_degree counts down for each of them.
Dependents(ids, t) == {s \in ToSet(ids) : <<s, t>> \in Among(ids)}

(* Faulty variant: a task is queued when the first it waits for is done.   *)
TurnEarly(ids, st) ==
  IF st.queue = <<>> THEN st
  ELSE LET t == Head(st.queue)
           children == Dependents(ids, t) \ ToSet(st.queue)
       IN  [queue |-> Tail(st.queue) \o SetToSeq(children \ ToSet(st.result)),
            degree |-> st.degree,
            result |-> Append(st.result, t)]

\* One turn of the loop of get_execution_order: the first of the queue is
\* done, and what waited for nothing else is queued.
Turn(ids, st) ==
  IF st.queue = <<>> THEN st
  ELSE LET t == Head(st.queue)
           children == Dependents(ids, t)
           ready == {s \in children : st.degree[s] = 1}
       IN  [queue |-> Tail(st.queue) \o SetToSeq(ready),
            degree |-> [s \in ToSet(ids) |->
                          st.degree[s] - (IF s \in children THEN 1 ELSE 0)],
            result |-> Append(st.result, t)]

\* The tasks without dependencies come in the order of a set, which is any;
\* tasks on a cycle and behind one come last, as they were given.
ExecutionOrder(ids, first) ==
  LET degree == [s \in ToSet(ids) |->
                   Cardinality({e \in Among(ids) : e[1] = s})]
      f[n \in 0..Len(ids)] ==
        IF n = 0 THEN [queue |-> first, degree |-> degree, result |-> <<>>]
        ELSE Turn(ids, f[n - 1])
      sorted == f[Len(ids)].result
      Left(t) == t \notin ToSet(sorted)
  IN  sorted \o SelectSeq(ids, Left)

Free(ids) == {s \in ToSet(ids) : ~\E t \in ToSet(ids) : <<s, t>> \in Among(ids)}

-----------------------------------------------------------------------------
(* Properties                                                              *)

\* Every set of tasks has one that depends on none of them.
Acyclic(rows) ==
  \A S \in (SUBSET Task) \ {{}} : \E t \in S : \A d \in S : <<t, d>> \notin rows

(* However requests that add and remove dependencies interleave, no task   *)
(* comes to depend on itself, but through a row whose check overlapped the *)
(* insertion of another one ("Manage task dependencies as a directed       *)
(* acyclic graph (DAG)", detect_cycle and the route that calls it).        *)
AcyclicUnlessRaced == Acyclic(edges \ raced)

\* The tasks that are on a cycle among these, or depend on one that is.
Stuck(ids) ==
  UNION {S \in SUBSET ToSet(ids) : \A t \in S : \E d \in S : <<t, d>> \in edges}

(* For every graph these requests make, cycles included, and every order   *)
(* the set of free tasks may come in, get_execution_order gives each task  *)
(* once, and a task that is not stuck after all it depends on;             *)
(* get_all_dependencies_recursive gives what a task leads to.              *)
AnswersFollowRows ==
  (\A p \in Request : request[p].pc = "idle") =>
    /\ \A ids \in SetToAllKPermutations(Task) :
         \A first \in SetToSeqs(Free(ids)) :
           LET order == ExecutionOrder(ids, first)
               At(t) == CHOOSE i \in DOMAIN order : order[i] = t
           IN  /\ Len(order) = Len(ids) /\ ToSet(order) = ToSet(ids)
               /\ \A e \in Among(ids) :
                    e[1] \notin Stuck(ids) => At(e[2]) < At(e[1])
    /\ \A t \in Task :
         AllDependencies(t) =
           {d \in Task \ {t} : \A S \in SUBSET Task :
              t \in S /\ (\A e \in edges : e[1] \in S => e[2] \in S) => d \in S}
=============================================================================
