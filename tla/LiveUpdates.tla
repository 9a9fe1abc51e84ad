----------------------------- MODULE LiveUpdates -----------------------------
(***************************************************************************)
(* The WebSocket endpoints for tasks, chat and notifications (ws_routes.py)*)
(* with their connection managers (connection_managers.py and              *)
(* notification_ws_manager.py, the same algorithm with other limits), and  *)
(* the in-memory notifications (notification_service.py) that the executor *)
(* creates and pushes and the routes mark and clear.                       *)
(*                                                                         *)
(* Everything here runs on one event loop: a step reaches to the next      *)
(* await.  The managers' asyncio lock is never held across an await that   *)
(* another step could use, so what it guards is one step too.  Requests    *)
(* that read or mark run in pool threads under the service's own lock.     *)
(*                                                                         *)
(* Left out: the eviction of stale users, whose task is started only if an *)
(* event loop runs when the module is imported, and the database copy of   *)
(* the notifications, into which nothing is ever inserted.                 *)
(***************************************************************************)
EXTENDS Naturals, Sequences, FiniteSets, Functions

CONSTANTS
  Socket,    \* connections, each with the handler that serves it
  Key,       \* users, and as keys of the task manager tasks
  Nobody,
  Note,      \* notifications, each created at most once
  MaxPerKey, \* MAX_CONNECTIONS_PER_KEY, _MAX_CONNECTIONS_PER_USER
  MaxTotal,  \* MAX_TOTAL_CONNECTIONS, _MAX_TOTAL_CONNECTIONS
  MaxInbox   \* max_per_user

Kind == {"task", "chat", "notify"}

VARIABLES
  kind,       \* of each socket: which endpoint it asked for
  handler,    \* of each socket: where its handler is
  user,       \* the key its handler works for: task_id or user_id
  open,       \* both ends of the connection are still open
  registered, \* _connections of each of the managers
  inbox,      \* _notifications: of each user, the newest first
  unread,     \* those whose read flag is not set
  created,    \* the notifications created so far, or before
  cast,       \* the broadcast under way: what it has to do, for whom
  seen,       \* of each socket: notifications pushed to it or in the count
              \* of unread ones that it got when it connected
  stray       \* sockets that are registered where their handler does not
              \* look for them when it leaves

vars ==
  <<kind, handler, user, open, registered, inbox, unread, created, cast,
    seen, stray>>

Handler == {"new", "accepted", "greeting", "loop", "chat", "casting",
            "leaving", "gone"}

Serving == {"greeting", "loop", "chat", "casting", "leaving"}

\* What a broadcast still has to do: the managers and keys it goes to, and of
\* the one it is at the sockets it has found, and those it has to remove.
Target == Kind \X Key
Quiet == [pc |-> "quiet", todo |-> <<>>, found |-> {}, by |-> Nobody,
          note |-> Nobody]

TypeOK ==
  /\ kind \in [Socket -> Kind]
  /\ handler \in [Socket -> Handler]
  /\ user \in [Socket -> Key \cup {Nobody}]
  /\ open \in [Socket -> BOOLEAN]
  /\ registered \in [Kind -> [Key -> SUBSET Socket]]
  /\ \A k \in Kind, u \in Key : Cardinality(registered[k][u]) <= MaxPerKey
  /\ inbox \in [Key -> Seq(Note)]
  /\ \A u \in Key : Len(inbox[u]) <= MaxInbox
  /\ unread \subseteq created /\ created \subseteq Note
  /\ cast.pc \in {"quiet", "look", "send", "prune"}
  /\ cast.todo \in Seq(Target)
  /\ cast.found \subseteq Socket
  /\ cast.by \in Socket \cup {Nobody}
  /\ cast.note \in Note \cup {Nobody}
  /\ seen \in [Socket -> SUBSET Note]
  /\ stray \subseteq Socket

Init ==
  /\ kind \in [Socket -> Kind]
  /\ handler = [s \in Socket |-> "new"]
  /\ user = [s \in Socket |-> Nobody]
  /\ open = [s \in Socket |-> TRUE]
  /\ registered = [k \in Kind |-> [u \in Key |-> {}]]
  /\ inbox = [u \in Key |-> <<>>]
  /\ unread = {}
  /\ created \in SUBSET Note  \* these were created and cleared before
  /\ cast = Quiet
  /\ seen = [s \in Socket |-> {}]
  /\ stray = {}

store == <<inbox, unread, created>>

-----------------------------------------------------------------------------
(* The connection managers.                                                *)

Total(k) == Cardinality(UNION {registered[k][u] : u \in Key})

Full(k, u) == Total(k) >= MaxTotal \/ Cardinality(registered[k][u]) >= MaxPerKey

\* disconnect
Without(s, k, u) == [registered EXCEPT ![k][u] = @ \ {s}]

Goto(s, pc) == handler' = [handler EXCEPT ![s] = pc]

\* The handler returns; the server closes what is still open.
Return(s) ==
  /\ Goto(s, "gone")
  /\ user' = [user EXCEPT ![s] = Nobody]
  /\ open' = [open EXCEPT ![s] = FALSE]
  /\ seen' = [seen EXCEPT ![s] = {}]

-----------------------------------------------------------------------------
(* The handlers.                                                           *)

\* _ws_authenticate lets it in, and the first await of connect, accept.
Accept(s, u) ==
  /\ handler[s] = "new" /\ open[s]
  /\ user' = [user EXCEPT ![s] = u]
  /\ Goto(s, "accepted")
  /\ UNCHANGED <<kind, open, registered, store, cast, seen, stray>>

\* It is not let in, or the client is gone before it is accepted.
TurnAway(s) ==
  /\ handler[s] = "new"
  /\ Return(s)
  /\ UNCHANGED <<kind, registered, store, cast, stray>>

\* The rest of connect.  Above a limit it closes the socket and returns, and
\* the handler fails at its first use of it; a notification handler does so
\* before it is in the try block that disconnects.
Register(s) ==
  LET k == kind[s]
      u == user[s]
  IN  /\ handler[s] = "accepted"
      /\ IF Full(k, u)
         THEN /\ \/ k = "notify" /\ Return(s)
                 \/ /\ k # "notify"
                    /\ Goto(s, "leaving")
                    /\ open' = [open EXCEPT ![s] = FALSE]
                    /\ UNCHANGED <<user, seen>>
              /\ UNCHANGED registered
         ELSE /\ registered' = [registered EXCEPT ![k][u] = @ \cup {s}]
              /\ Goto(s, IF k = "notify" THEN "greeting" ELSE "loop")
              /\ UNCHANGED <<user, open, seen>>
      /\ UNCHANGED <<kind, store, cast, stray>>

Unread(u) == Range(inbox[u]) \cap unread

\* notification_ws sends the count of unread notifications; if the client is
\* gone meanwhile it fails, outside the try block.
Greet(s) ==
  /\ handler[s] = "greeting"
  /\ IF open[s]
     THEN /\ Goto(s, "loop")
          /\ seen' = [seen EXCEPT ![s] = @ \cup Unread(user[s])]
          /\ UNCHANGED <<user, open, stray>>
     ELSE /\ Return(s)
          /\ stray' = stray \cup {s}
  /\ UNCHANGED <<kind, registered, store, cast>>

\* The client goes away; a handler that waits for a message or is about to
\* send one learns of it.
HangUp(s) ==
  /\ open[s] /\ handler[s] # "new"
  /\ open' = [open EXCEPT ![s] = FALSE]
  /\ UNCHANGED <<kind, handler, user, registered, store, cast, seen, stray>>

Notice(s) ==
  /\ handler[s] = "loop" /\ ~open[s]
  /\ Goto(s, "leaving")
  /\ UNCHANGED <<kind, user, open, registered, store, cast, seen, stray>>

\* A message above MAX_MESSAGE_SIZE: the server closes and leaves the loop.
Oversized(s) ==
  /\ handler[s] = "loop" /\ open[s]
  /\ open' = [open EXCEPT ![s] = FALSE]
  /\ Goto(s, "leaving")
  /\ UNCHANGED <<kind, user, registered, store, cast, seen, stray>>

\* A refresh message with a valid token.  Only the chat goes over to the user
\* of the new token; its socket stays registered for the first one.
Refresh(s, u) ==
  /\ handler[s] = "loop" /\ open[s] /\ kind[s] = "chat" /\ u # user[s]
  /\ user' = [user EXCEPT ![s] = u]
  /\ stray' = IF s \in registered["chat"][u] THEN stray \ {s}
              ELSE stray \cup {s}
  /\ UNCHANGED <<kind, handler, open, registered, store, cast, seen>>

(* Faulty variant: the finally block is left out after a lost connection.  *)
LeaveSilently(s) ==
  /\ handler[s] = "leaving"
  /\ Return(s)
  /\ UNCHANGED <<kind, registered, store, cast, stray>>

\* The finally block.
Leave(s) ==
  /\ handler[s] = "leaving"
  /\ registered' = Without(s, kind[s], user[s])
  /\ Return(s)
  /\ UNCHANGED <<kind, store, cast, stray>>

\* _handle_chat_message: its database work and the model take a while.
BeginChat(s) ==
  /\ handler[s] = "loop" /\ open[s] /\ kind[s] = "chat"
  /\ Goto(s, "chat")
  /\ UNCHANGED <<kind, user, open, registered, store, cast, seen, stray>>

\* It answers, or tells of an error; either fails if the client is gone.
EndChat(s) ==
  /\ handler[s] = "chat"
  /\ Goto(s, IF open[s] THEN "loop" ELSE "leaving")
  /\ UNCHANGED <<kind, user, open, registered, store, cast, seen, stray>>

\* It answers and has created a task: it tells the task's sockets and then
\* those of its user.
AnnounceTask(s, task) ==
  /\ handler[s] = "chat" /\ open[s] /\ cast.pc = "quiet"
  /\ Goto(s, "casting")
  /\ cast' = [Quiet EXCEPT !.pc = "look", !.by = s,
                           !.todo = <<<<"task", task>>, <<"chat", user[s]>>>>]
  /\ UNCHANGED <<kind, user, open, registered, store, seen, stray>>

-----------------------------------------------------------------------------
(* Notifications and broadcasts.                                           *)

(* Faulty variant: the inbox of a user is not trimmed.                      *)
NotifyUntrimmed(n, u) ==
  /\ cast.pc = "quiet" /\ n \notin created
  /\ created' = created \cup {n}
  /\ inbox' = [inbox EXCEPT ![u] = <<n>> \o @]
  /\ unread' = unread \cup {n}
  /\ cast' = [Quiet EXCEPT !.pc = "look", !.note = n,
                           !.todo = <<<<"chat", u>>, <<"notify", u>>>>]
  /\ UNCHANGED <<kind, handler, user, open, registered, seen, stray>>

\* _notify of the executor: create puts the notification first and drops the
\* last one above the limit; broadcast_notification then pushes it to the
\* chat and to the notification sockets of the user.
Notify(n, u) ==
  /\ cast.pc = "quiet" /\ n \notin created
  /\ created' = created \cup {n}
  /\ inbox' = [inbox EXCEPT
       ![u] = <<n>> \o (IF Len(@) = MaxInbox THEN SubSeq(@, 1, Len(@) - 1) ELSE @)]
  /\ unread' = (unread \cup {n}) \ (Range(inbox[u]) \ Range(inbox'[u]))
  /\ cast' = [Quiet EXCEPT !.pc = "look", !.note = n,
                           !.todo = <<<<"chat", u>>, <<"notify", u>>>>]
  /\ UNCHANGED <<kind, handler, user, open, registered, seen, stray>>

\* _ws_broadcast of the executor: an event of a task.
TaskEvent(task) ==
  /\ cast.pc = "quiet"
  /\ cast' = [Quiet EXCEPT !.pc = "look", !.todo = <<<<"task", task>>>>]
  /\ UNCHANGED <<kind, handler, user, open, registered, store, seen, stray>>

\* Done with one key: the next one, or back to the handler that broadcasts.
NextTarget ==
  IF Len(cast.todo) = 1
  THEN /\ cast' = Quiet
       /\ handler' = [s \in Socket |->
                        IF s = cast.by THEN "loop" ELSE handler[s]]
  ELSE /\ cast' = [cast EXCEPT !.pc = "look", !.todo = Tail(@), !.found = {}]
       /\ UNCHANGED handler

\* broadcast and send_to_user copy the sockets of the key under the lock.
Look ==
  LET k == Head(cast.todo)[1]
      u == Head(cast.todo)[2]
  IN  /\ cast.pc = "look"
      /\ IF registered[k][u] = {} THEN NextTarget
         ELSE /\ cast' = [cast EXCEPT !.pc = "send", !.found = registered[k][u]]
              /\ UNCHANGED handler
      /\ UNCHANGED <<kind, user, open, registered, store, seen, stray>>

\* They send to all of them at once, and keep those where it failed.
Send ==
  LET reached == {s \in cast.found : open[s]}
  IN  /\ cast.pc = "send"
      /\ seen' = [s \in Socket |->
                    IF s \in reached /\ kind[s] = "notify"
                    THEN seen[s] \cup {cast.note} ELSE seen[s]]
      /\ IF cast.found = reached THEN NextTarget
         ELSE /\ cast' = [cast EXCEPT !.pc = "prune", !.found = @ \ reached]
              /\ UNCHANGED handler
      /\ UNCHANGED <<kind, user, open, registered, store, stray>>

\* They disconnect these one after the other, from the key they were found at.
Prune(s) ==
  LET k == Head(cast.todo)[1]
      u == Head(cast.todo)[2]
  IN  /\ cast.pc = "prune" /\ s \in cast.found
      /\ registered' = Without(s, k, u)
      /\ IF cast.found = {s} THEN NextTarget
         ELSE /\ cast' = [cast EXCEPT !.found = @ \ {s}]
              /\ UNCHANGED handler
      /\ UNCHANGED <<kind, user, open, store, seen, stray>>

-----------------------------------------------------------------------------
(* The notification routes.                                                *)

\* mark_read and mark_all_read find what is in memory.
MarkRead(u, marked) ==
  /\ marked \subseteq Unread(u) /\ marked # {}
  /\ unread' = unread \ marked
  /\ UNCHANGED <<kind, handler, user, open, registered, inbox, created, cast,
                 seen, stray>>

Clear(u) ==
  /\ inbox[u] # <<>>
  /\ inbox' = [inbox EXCEPT ![u] = <<>>]
  /\ unread' = unread \ Unread(u)
  /\ UNCHANGED <<kind, handler, user, open, registered, created, cast, seen,
                 stray>>

HandlerStep(s) ==
  \/ \E u \in Key : Accept(s, u) \/ Refresh(s, u) \/ AnnounceTask(s, u)
  \/ TurnAway(s) \/ Register(s) \/ Greet(s) \/ Notice(s) \/ Oversized(s)
  \/ Leave(s) \/ BeginChat(s) \/ EndChat(s)

Next ==
  \/ \E s \in Socket : HandlerStep(s) \/ HangUp(s) \/ Prune(s)
  \/ \E u \in Key :
       \/ \E n \in Note : Notify(n, u)
       \/ TaskEvent(u)
       \/ MarkRead(u, Unread(u))
       \/ \E n \in Note : MarkRead(u, {n})
       \/ Clear(u)
  \/ Look
  \/ Send

Spec == Init /\ [][Next]_vars

-----------------------------------------------------------------------------
(* Properties                                                              *)

(* Whatever order connections, failures, broadcasts and their removals come *)
(* in, a socket is registered for a key only while its handler works for   *)
(* that key and will remove it; except after a chat has gone over to       *)
(* another user, and after a notification handler failed at its first      *)
(* message (connect and disconnect of the managers, ws_routes.py).         *)
RegisteredIsServed ==
  \A k \in Kind, u \in Key :
    \A s \in registered[k][u] \ stray :
      kind[s] = k /\ user[s] = u /\ handler[s] \in Serving

(* No notification falls between the count that a notification socket gets *)
(* when it connects and the pushes it gets later: once its broadcast is    *)
(* over, an unread notification was in one of them (notification_ws        *)
(* registers before it counts, _notify creates before it broadcasts).      *)
NothingIsMissed ==
  \A s \in Socket :
    kind[s] = "notify" /\ handler[s] = "loop" /\ open[s]
      => \A n \in Unread(user[s]) \ {cast.note} : n \in seen[s]
=============================================================================
