--------------------------- MODULE SessionMonitor ---------------------------
(* The monitor of the Windows session (locked, active, whose): a thread     *)
(* polls the state and hands every change to the callbacks, by way of the   *)
(* event loop.  stop sets an event and waits for the thread, but not for    *)
(* ever; a watch after that clears the event and begins another thread.     *)
EXTENDS Naturals, Sequences

CONSTANTS
  Callback,
  State, NoState,       \* snapshots of the session, and none
  Thread, NoThread,     \* the monitor threads that may be begun
  MaxChanges            \* the bound on changes of the session

VARIABLES
  real, changes,   \* the session
  callbacks,       \* _callbacks, in their order
  last,            \* _last_state
  poll,            \* of each thread: where it is, its previous and its state
  current,         \* _monitor_thread
  stopped,         \* _stop
  joining,         \* stop waits for the thread, and the loop with it
  queue, told,     \* calls scheduled on the loop, and what callbacks were told
  fresh,           \* history: callbacks registered since the last change
  doubled          \* history: a thread was begun beside another

vars ==
  <<real, changes, callbacks, last, poll, current, stopped, joining, queue,
    told, fresh, doubled>>

Alive(t) == poll[t].pc \notin {"none", "ended"}

Init ==
  /\ real \in State /\ changes = 0
  /\ callbacks = <<>> /\ last = NoState
  /\ poll = [t \in Thread |-> [pc |-> "none", previous |-> NoState,
                               state |-> NoState]]
  /\ current = NoThread /\ stopped = FALSE /\ joining = FALSE
  /\ queue = <<>> /\ told = [b \in Callback |-> NoState]
  /\ fresh = {} /\ doubled = FALSE

-----------------------------------------------------------------------------

Change ==
  /\ changes < MaxChanges
  /\ real' \in State \ {real} /\ changes' = changes + 1
  /\ UNCHANGED <<callbacks, last, poll, current, stopped, joining, queue, told,
                 fresh, doubled>>

\* The callback is not told the state there is.
Watch(b) ==
  /\ ~joining /\ \A i \in DOMAIN callbacks : callbacks[i] # b
  /\ callbacks' = Append(callbacks, b)
  /\ fresh' = fresh \cup {b}
  /\ IF current # NoThread /\ Alive(current)
     THEN UNCHANGED <<poll, current, stopped, doubled>>
     ELSE \E t \in Thread :
            /\ poll[t].pc = "none"
            /\ poll' = [poll EXCEPT ![t] = [pc |-> "wait", previous |-> last,
                                            state |-> NoState]]
            /\ current' = t /\ stopped' = FALSE
            /\ doubled' = (doubled \/ \E u \in Thread : Alive(u))
  /\ UNCHANGED <<real, changes, last, joining, queue, told>>

\* _poll_loop: the event is looked at after each wait.
Poll(t) ==
  /\ poll[t].pc = "wait"
  /\ IF stopped
     THEN /\ poll' = [poll EXCEPT ![t].pc = "ended"]
          /\ UNCHANGED last
     ELSE /\ last' = real
          /\ poll' =
               [poll EXCEPT ![t].state = real,
                  ![t].pc = IF poll[t].previous = real THEN "wait" ELSE "emit"]
  /\ UNCHANGED <<real, changes, callbacks, current, stopped, joining, queue,
                 told, fresh, doubled>>

\* Faulty variant: only a thread's first state is emitted.
EmitFirst(t) ==
  /\ poll[t].pc = "emit"
  /\ queue' = IF poll[t].previous # NoState THEN queue
              ELSE queue \o [i \in DOMAIN callbacks |->
                          [to |-> callbacks[i], state |-> poll[t].state]]
  /\ fresh' = {}
  /\ poll' = [poll EXCEPT ![t].pc = "wait", ![t].previous = poll[t].state]
  /\ UNCHANGED <<real, changes, callbacks, last, current, stopped, joining,
                 told, doubled>>

\* _emit: a copy of the callbacks, each scheduled on the loop.
Emit(t) ==
  /\ poll[t].pc = "emit"
  /\ queue' = queue \o [i \in DOMAIN callbacks |->
                          [to |-> callbacks[i], state |-> poll[t].state]]
  /\ fresh' = {}
  /\ poll' = [poll EXCEPT ![t].pc = "wait", ![t].previous = poll[t].state]
  /\ UNCHANGED <<real, changes, callbacks, last, current, stopped, joining,
                 told, doubled>>

Deliver ==
  /\ ~joining /\ queue # <<>>
  /\ told' = [told EXCEPT ![Head(queue).to] = Head(queue).state]
  /\ queue' = Tail(queue)
  /\ UNCHANGED <<real, changes, callbacks, last, poll, current, stopped,
                 joining, fresh, doubled>>

BeginStop ==
  /\ ~joining /\ current # NoThread
  /\ stopped' = TRUE /\ joining' = TRUE
  /\ UNCHANGED <<real, changes, callbacks, last, poll, current, queue, told,
                 fresh, doubled>>

\* The thread has ended, or the join has timed out.
EndStop ==
  /\ joining
  /\ joining' = FALSE /\ current' = NoThread
  /\ UNCHANGED <<real, changes, callbacks, last, poll, stopped, queue, told,
                 fresh, doubled>>

Next ==
  \/ Change \/ Deliver \/ BeginStop \/ EndStop
  \/ \E b \in Callback : Watch(b)
  \/ \E t \in Thread : Poll(t) \/ Emit(t)

Spec == Init /\ [][Next]_vars

-----------------------------------------------------------------------------
(* Properties.                                                              *)

(* The monitor's state is in its ranges.                                    *)
TypeOK ==
  /\ real \in State /\ last \in State \cup {NoState}
  /\ current \in Thread \cup {NoThread}
  /\ \A t \in Thread : poll[t].pc \in {"none", "wait", "emit", "ended"}
  /\ told \in [Callback -> State \cup {NoState}]

\* The state that a callback will have been told last when the loop has caught
\* up.
WillBeTold(b, state) ==
  \/ told[b] = state /\ \A i \in DOMAIN queue : queue[i].to # b
  \/ \E i \in DOMAIN queue :
       /\ queue[i] = [to |-> b, state |-> state]
       /\ \A j \in i + 1 .. Len(queue) : queue[j].to # b

(* A callback that was registered before the last change has been told the  *)
(* state the monitor has last seen, or will be; but two threads may tell it *)
(* an older one (_poll_loop, _emit, stop and watch of session_monitor.py).  *)
CallbacksAreCurrent ==
  \A b \in Callback, t \in Thread :
    /\ poll[t].pc = "wait" /\ poll[t].previous # NoState
    /\ \E i \in DOMAIN callbacks : callbacks[i] = b
    /\ b \notin fresh /\ ~doubled
    => WillBeTold(b, poll[t].previous)
=============================================================================
