--------------------------- MODULE TerminalSession ---------------------------
(***************************************************************************)
(* Terminal sessions in Windows pseudo consoles (conpty.py), driven by the *)
(* terminal.* tools.  A session has a child process, a reader thread that  *)
(* collects output, a watcher thread that waits for the child and cleans   *)
(* up, a timer that closes it some time after a disconnect, and clients    *)
(* whose calls await in between.  The manager counts and retains sessions. *)
(*                                                                         *)
(* What a thread does under the record's condition, or the manager's lock, *)
(* is one action.  Messages and their payloads are not modelled.           *)
(***************************************************************************)
EXTENDS Integers, FiniteSets

CONSTANTS
  Session,    \* session ids
  Busy,       \* bound: the sessions of which more happens than that they
              \* are opened, time out and are cleaned up
  MaxActive,  \* max_active_sessions
  MaxRetained \* max_retained_sessions

ASSUME LimitAssumption ==
  /\ Busy \subseteq Session
  /\ MaxActive \in Nat \ {0}
  /\ MaxRetained \in Nat
  /\ MaxRetained >= MaxActive

VARIABLES
  registered, \* _sessions: the ids that a client can address
  pending,    \* _pending_opens
  term        \* the record of each session, its threads and its native parts

vars == <<registered, pending, term>>

Final == {"exited", "closed", "timeout", "output_limit", "error"}
State == {"running", "resized", "signalled", "disconnected"} \cup Final
Call == {"resize", "signal", "close"}  \* calls that await

Terminal ==
  [open: {"none", "opening", "launched", "failed", "done"},
   state: State,
   connected: BOOLEAN,
   timer: BOOLEAN,                 \* a disconnect timer is running
   fired: BOOLEAN,                 \* its callback waits for the condition
   process: {"none", "alive", "dead"},
   console: {"none", "open", "closed"},
   watcher: {"none", "wait", "end", "cleanup", "closing", "done"},
   reader: {"none", "read", "done"},
   cleaned: BOOLEAN,               \* cleanup_done
   calls: SUBSET Call]

NoTerminal ==
  [open |-> "none", state |-> "running", connected |-> TRUE, timer |-> FALSE,
   fired |-> FALSE, process |-> "none", console |-> "none",
   watcher |-> "none", reader |-> "none", cleaned |-> FALSE, calls |-> {}]

TypeOK ==
  /\ registered \subseteq Session
  /\ pending \in Nat
  /\ term \in [Session -> Terminal]

Init ==
  /\ registered = {}
  /\ pending = 0
  /\ term = [s \in Session |-> NoTerminal]

-----------------------------------------------------------------------------
IsFinal(s) == term[s].state \in Final
Ended(s, state) == IF IsFinal(s) THEN term[s].state ELSE state
ActiveIn(ids) == {s \in ids : ~term[s].cleaned}
Active == ActiveIn(registered)

\* What becomes of the child when its job is terminated, or fails to be.  As
\* the child may exit of itself at any moment, the termination is part of
\* the step before it.
AfterTermination(s) ==
  (IF term[s].process = "alive" THEN {"dead"} ELSE {})
    \cup (IF s \in Busy \/ term[s].process # "alive" THEN {term[s].process}
                                                   ELSE {})

\* The registered ids after the cleaned-up ones, oldest first, have been
\* dropped until there is room; updated_at is not modelled, so any of them.
Pruned ==
  LET cleaned == registered \ Active
      room(kept) == Cardinality(kept) < MaxRetained
  IN  {kept \in SUBSET registered :
         /\ Active \subseteq kept
         /\ room(kept) \/ kept \cap cleaned = {}
         /\ kept # registered =>
              ~\E s \in registered \ kept : room(kept \cup {s})}

(* Faulty variant: opens that are still under way are not counted.         *)
OpenUncounted(s) ==
  /\ term[s].open = "none"
  /\ registered' \in Pruned
  /\ IF Cardinality(Active) >= MaxActive
     THEN UNCHANGED <<pending, term>>
     ELSE /\ pending' = pending + 1
          /\ term' = [term EXCEPT ![s].open = "opening"]

(* Faulty variant: no room is made for the new session.                    *)
OpenUnpruned(s) ==
  /\ term[s].open = "none"
  /\ Cardinality(Active) + pending < MaxActive
  /\ pending' = pending + 1
  /\ term' = [term EXCEPT ![s].open = "opening"]
  /\ UNCHANGED registered

\* open, under the manager's lock: prune, then refuse or reserve a place.
Open(s) ==
  /\ term[s].open = "none"
  /\ registered' \in Pruned
  /\ IF Cardinality(Active) + pending >= MaxActive
     THEN UNCHANGED <<pending, term>>
     ELSE /\ pending' = pending + 1
          /\ term' = [term EXCEPT ![s].open = "opening"]

\* The broker, the sandbox and the suspended, assigned, verified and resumed
\* child; then the record and its two threads.
Launch(s) ==
  /\ term[s].open = "opening"
  /\ term' = [term EXCEPT
                ![s].open = "launched", ![s].process = "alive",
                ![s].console = "open", ![s].watcher = "wait",
                ![s].reader = "read"]
  /\ UNCHANGED <<registered, pending>>

\* An error undoes the launch; a cancellation of open does not: the child,
\* if it is there already, is left alone with nobody to watch it.
LaunchFails(s) ==
  /\ s \in Busy /\ term[s].open = "opening"
  /\ \E left \in {"none", "alive"} :
       term' = [term EXCEPT ![s].open = "failed", ![s].process = left]
  /\ pending' = pending - 1
  /\ UNCHANGED registered

\* The threads may have ended before the session is registered.
Register(s) ==
  /\ term[s].open = "launched"
  /\ registered' = registered \cup {s}
  /\ pending' = pending - 1
  /\ term' = [term EXCEPT ![s].open = "done"]

-----------------------------------------------------------------------------
(* The child, its watcher and its reader.                                  *)

ProcessExits(s) ==
  /\ s \in Busy /\ term[s].process = "alive"
  /\ term' = [term EXCEPT ![s].process = "dead"]
  /\ UNCHANGED <<registered, pending>>

\* The wait ends: the child has exited, the timeout has passed, or an error.
WatcherWait(s) ==
  /\ term[s].watcher = "wait"
  /\ \/ /\ term[s].process = "dead"
        /\ term' = [term EXCEPT ![s].watcher = "end"]
     \/ \E p \in AfterTermination(s) :
          term' = [term EXCEPT ![s].watcher = "end", ![s].process = p,
                               ![s].state = Ended(s, "timeout")]
     \/ /\ s \in Busy
        /\ term' = [term EXCEPT ![s].watcher = "end",
                                ![s].state = Ended(s, "error")]
  /\ UNCHANGED <<registered, pending>>

WatcherEnd(s) ==
  /\ term[s].watcher = "end"
  /\ term' = [term EXCEPT ![s].watcher = "cleanup",
                          ![s].state = Ended(s, "exited")]
  /\ UNCHANGED <<registered, pending>>

\* _cleanup_record: cancel the timer, terminate the job, close the console.
CleanupStart(s) ==
  /\ term[s].watcher = "cleanup"
  /\ \E p \in AfterTermination(s) :
       term' = [term EXCEPT ![s].watcher = "closing", ![s].timer = FALSE,
                            ![s].process = p, ![s].console = "closed"]
  /\ UNCHANGED <<registered, pending>>

(* Faulty variant: cleanup_done is not set when kill_tree raises.          *)
CleanupRaises(s) ==
  /\ term[s].watcher = "closing"
  /\ \E p \in AfterTermination(s) :
       term' = [term EXCEPT ![s].watcher = "done", ![s].process = p,
                            ![s].cleaned = p = "dead"]
  /\ UNCHANGED <<registered, pending>>

\* Join the reader for a while, kill the tree and close the broker; errors
\* are swallowed, and cleanup_done is set in any case.
CleanupEnd(s) ==
  /\ term[s].watcher = "closing"
  /\ \E p \in AfterTermination(s) :
       term' = [term EXCEPT ![s].watcher = "done", ![s].process = p,
                            ![s].cleaned = TRUE]
  /\ UNCHANGED <<registered, pending>>

Watcher(s) ==
  \/ WatcherWait(s) \/ WatcherEnd(s)
  \/ CleanupStart(s) \/ CleanupEnd(s)

\* The output passes its limit: that becomes the state, whatever it was.
ReaderLimit(s) ==
  /\ s \in Busy /\ term[s].reader = "read"
  /\ \E p \in AfterTermination(s) :
       term' = [term EXCEPT ![s].reader = "done", ![s].process = p,
                            ![s].state = "output_limit"]
  /\ UNCHANGED <<registered, pending>>

\* The end of the output, or an error.
ReaderEnd(s) ==
  /\ s \in Busy /\ term[s].reader = "read"
  /\ \/ /\ term[s].process = "dead" \/ term[s].console = "closed"
        /\ term' = [term EXCEPT ![s].reader = "done"]
     \/ term' = [term EXCEPT ![s].reader = "done",
                             ![s].state = Ended(s, "error")]
  /\ UNCHANGED <<registered, pending>>

-----------------------------------------------------------------------------
(* Clients.  A call finds its record in _sessions and keeps it.  Bound: at *)
(* most one resize or signal of a session is under way.                    *)

Start(s, call) ==
  /\ s \in registered
  /\ term[s].calls \subseteq (IF call = "close" THEN {"resize", "signal"}
                              ELSE {"close"})

Resize(s) ==
  /\ Start(s, "resize") /\ ~IsFinal(s)
  /\ term' = [term EXCEPT ![s].calls = @ \cup {"resize"}]
  /\ UNCHANGED <<registered, pending>>

\* After the await the state is set without another look at it.
ResizeEnds(s) ==
  /\ "resize" \in term[s].calls
  /\ \E state \in {term[s].state, "resized"} :
       term' = [term EXCEPT ![s].calls = @ \ {"resize"}, ![s].state = state]
  /\ UNCHANGED <<registered, pending>>

Signal(s) ==
  /\ Start(s, "signal") /\ ~IsFinal(s)
  /\ term' = [term EXCEPT ![s].calls = @ \cup {"signal"}]
  /\ UNCHANGED <<registered, pending>>

\* Ctrl-C, end of file or terminate is sent; likewise.
SignalEnds(s) ==
  /\ "signal" \in term[s].calls
  /\ \E state \in {term[s].state, "signalled"}, p \in AfterTermination(s) :
       term' = [term EXCEPT ![s].calls = @ \ {"signal"}, ![s].state = state,
                            ![s].process = p]
  /\ UNCHANGED <<registered, pending>>

(* Faulty variant: an attach brings any session back to "running".         *)
AttachRevives(s) ==
  /\ s \in registered
  /\ term' = [term EXCEPT ![s].timer = FALSE, ![s].connected = TRUE,
                          ![s].state = "running"]
  /\ UNCHANGED <<registered, pending>>

Attach(s) ==
  /\ s \in registered
  /\ term' = [term EXCEPT
                ![s].timer = FALSE, ![s].connected = TRUE,
                ![s].state = IF @ = "disconnected" THEN "running" ELSE @]
  /\ UNCHANGED <<registered, pending>>

Disconnect(s) ==
  /\ s \in registered /\ ~IsFinal(s)
  /\ term' = [term EXCEPT ![s].timer = TRUE, ![s].connected = FALSE,
                          ![s].state = "disconnected"]
  /\ UNCHANGED <<registered, pending>>

\* The grace period ends; from here on the callback cannot be cancelled.
\* Bound: no second callback fires before the first has run.
TimerFires(s) ==
  /\ term[s].timer /\ ~term[s].fired
  /\ term' = [term EXCEPT ![s].timer = FALSE, ![s].fired = TRUE]
  /\ UNCHANGED <<registered, pending>>

(* Faulty variant: the callback does not look whether somebody attached.   *)
ExpireBlind(s) ==
  /\ term[s].fired
  /\ \E p \in AfterTermination(s) :
       term' = [term EXCEPT ![s].fired = FALSE, ![s].process = p,
                            ![s].state = Ended(s, "closed")]
  /\ UNCHANGED <<registered, pending>>

\* _disconnect_expired.
Expire(s) ==
  /\ term[s].fired
  /\ \/ /\ term[s].state = "disconnected" /\ ~term[s].connected
        /\ \E p \in AfterTermination(s) :
             term' = [term EXCEPT ![s].fired = FALSE, ![s].process = p,
                                  ![s].state = "closed"]
     \/ /\ term[s].state # "disconnected" \/ term[s].connected
        /\ term' = [term EXCEPT ![s].fired = FALSE]
  /\ UNCHANGED <<registered, pending>>

Close(s) ==
  /\ Start(s, "close")
  /\ term' = [term EXCEPT ![s].calls = @ \cup {"close"},
                          ![s].state = Ended(s, "closed")]
  /\ UNCHANGED <<registered, pending>>

\* cleanup_done, or ten seconds later: forget the session either way.
CloseEnds(s) ==
  /\ "close" \in term[s].calls
  /\ registered' = registered \ {s}
  /\ \E p \in AfterTermination(s) :
       term' = [term EXCEPT ![s].calls = @ \ {"close"}, ![s].process = p]
  /\ UNCHANGED pending

-----------------------------------------------------------------------------
Client(s) ==
  /\ s \in Busy
  /\ \/ Resize(s) \/ ResizeEnds(s) \/ Signal(s) \/ SignalEnds(s)
     \/ Attach(s) \/ Disconnect(s) \/ Close(s) \/ CloseEnds(s)

Next ==
  \E s \in Session :
    \/ Open(s) \/ Launch(s) \/ LaunchFails(s) \/ Register(s)
    \/ ProcessExits(s) \/ Watcher(s)
    \/ ReaderLimit(s) \/ ReaderEnd(s)
    \/ Client(s) \/ TimerFires(s) \/ Expire(s)

Spec == Init /\ [][Next]_vars

\* The watcher is a thread of its own, and its wait has a timeout.
FairSpec == Spec /\ \A s \in Session : WF_vars(Watcher(s))

-----------------------------------------------------------------------------
(* Properties                                                              *)

(* However the opens, the cleanups and the closes interleave, the sessions *)
(* that are registered and not cleaned up, with the opens under way, are   *)
(* never more than max_active_sessions (open, _watcher_main, close).       *)
ActiveLimit == Cardinality(Active) + pending <= MaxActive

(* open makes room before it launches and registers only afterwards, so    *)
(* concurrent opens overshoot max_retained_sessions, but by no more than   *)
(* the other opens that can be under way (_prune_finished_locked).         *)
RetainedLimit ==
  Cardinality(registered) + pending <= MaxRetained + MaxActive - 1

(* A session that has ended stays ended, whatever its clients, its timer   *)
(* and its threads do, except at the end of a resize or signal call that   *)
(* was under way when it ended.                                            *)
FinalIsLeftByLateCallsOnly ==
  [][\A s \in Session :
       IsFinal(s) => IsFinal(s)' \/ term[s].calls \cap {"resize", "signal"}
                                     # term'[s].calls \cap {"resize", "signal"}
    ]_vars

(* While a client is attached nothing but a close call closes its session: *)
(* a grace timer that fired just before the attach does not (attach,       *)
(* _disconnect_expired).                                                   *)
AttachedIsNotExpired ==
  [][\A s \in Session :
       /\ term[s].connected /\ ~IsFinal(s)
       /\ term'[s].state = "closed"
       => "close" \in term'[s].calls]_vars

(* Every terminal that was launched is cleaned up in the end, registered   *)
(* or not, attached or not, whichever of its ends came first.              *)
EveryTerminalIsCleaned ==
  \A s \in Session : term[s].open = "launched" ~> term[s].cleaned
=============================================================================
